------------------------- MODULE CarefulPoolProofs -------------------------
(***************************************************************************)
(* Under the discipline of CarefulPool the free list is the queue of the   *)
(* chunks given back, for every pool size and every set of sizes, and the  *)
(* pool implements ChunkQueue.  Callers of one capacity keep the           *)
(* discipline by themselves.                                               *)
(***************************************************************************)
EXTENDS CarefulPool, MemoryPoolProofs

(* A chunk holds at least the word its link needs *)
ChunksHoldALink == \A c \in Carved : MinAlloc <= header[c]

(* What a call that walks the list knows: nothing fits above __mp__, and   *)
(* the last of several chunks is not the only one that is large enough     *)
ScanKnows == pc = "scan" => ~Fits(call.size) /\ ~OnlyLastFits(call.size)

(* A call that gets a chunk for a caller without one *)
GetterIsEmpty == pc # "idle" /\ call.op = "get" => ~owns[call.h]

(* A growth that looks for a chunk, or has found one, asks for no more     *)
(* than can be copied from the old chunk on inside the block               *)
CopyMeant == pc = "scan" \/ Answering => (call.op = "grow" => CopyInBlock)

CarefulInv ==
    /\ PoolInv
    /\ FreeListIsFreed /\ NoDoubleHandOut /\ Conservation
    /\ RefusesOnlyWhenFull /\ WalkOnList
    /\ ChunksHoldALink /\ ScanKnows /\ GetterIsEmpty
    /\ CopyMeant

---------------------------------------------------------------------------
(* Rounding up gives at least what was asked for, and at least a word. *)
LEMMA AlignUpCovers ==
    ASSUME NEW n \in Nat
    PROVE  /\ n <= AlignUp(n)
           /\ n > 0 => MinAlloc <= AlignUp(n)
<1> DEFINE sum == n + MinAlloc - 1
           q == sum \div MinAlloc
           r == sum % MinAlloc
<1>1. sum \in Nat /\ MinAlloc \in Nat \ {0}
  BY PoolAssumption
<1>2. q \in Nat /\ r \in 0..(MinAlloc - 1) /\ sum = MinAlloc * q + r
  <2> HIDE DEF sum
  <2> QED BY <1>1
<1> HIDE DEF q, r
<1>3. n <= q * MinAlloc
  BY <1>1, <1>2
<1>4. n > 0 => MinAlloc <= q * MinAlloc
  <2> SUFFICES ASSUME n > 0 PROVE MinAlloc <= q * MinAlloc
    OBVIOUS
  <2>1. MinAlloc * q > 0
    BY <1>1, <1>2
  <2>2. q >= 1
    BY <1>1, <1>2, <2>1
  <2>3. q * MinAlloc = MinAlloc * (q - 1) + MinAlloc /\ MinAlloc * (q - 1) >= 0
    BY <1>1, <1>2, <2>2
  <2>4. MinAlloc * (q - 1) \in Int
    BY <1>1, <1>2
  <2> QED BY <1>1, <2>3, <2>4
<1>5. AlignUp(n) = q * MinAlloc
  BY DEF AlignUp, q
<1> QED BY <1>3, <1>4, <1>5

(* What the invariants say of the chunks given back, spelled out. *)
LEMMA OnTheList ==
    ASSUME CarefulInv
    PROVE  /\ Len(freed) \in Nat
           /\ freed \in Seq(Carved)
           /\ \A i \in 1..Len(freed) : freed[i] \in Carved /\ freed[i] \in Nat /\ freed[i] # NULL
           /\ free = IF Len(freed) = 0 THEN NULL ELSE freed[1]
           /\ free = NULL <=> Len(freed) = 0
<1>1. freed \in Seq(Carved) /\ Carved \subseteq Nat
  BY DEF CarefulInv, PoolInv, TypeOK
<1>2. Len(freed) \in Nat
  BY <1>1, LenProperties
<1>3. \A i \in 1..Len(freed) : freed[i] \in Carved
  BY <1>1, ElementOfSeq
<1>4. \A i \in 1..Len(freed) : freed[i] \in Nat /\ freed[i] # NULL
  BY <1>1, <1>3, ValuesAssumption
<1>5. free = IF Len(freed) = 0 THEN NULL ELSE freed[1]
  BY DEF CarefulInv, FreeListIsFreed
<1>6. free = NULL <=> Len(freed) = 0
  <2>1. Len(freed) # 0 => 1 \in 1..Len(freed)
    BY <1>2
  <2> QED BY <1>4, <1>5, <2>1
<1> QED BY <1>1, <1>2, <1>3, <1>4, <1>5, <1>6

LEMMA CarefulInit == Init => CarefulInv
<1> SUFFICES ASSUME Init PROVE CarefulInv
  OBVIOUS
<1>1. PoolInv
  BY InitInv
<1>2. Carved = {} /\ freed = <<>> /\ pc = "idle" /\ free = NULL
      /\ \A h \in Handles : ~owns[h]
  BY DEF Init, Carved, NoChunks
<1>3. FreeListIsFreed /\ NoDoubleHandOut /\ Conservation
  BY <1>2 DEF FreeListIsFreed, NoDoubleHandOut, Conservation
<1>4. RefusesOnlyWhenFull /\ WalkOnList /\ ChunksHoldALink /\ ScanKnows /\ GetterIsEmpty
  BY <1>2 DEF RefusesOnlyWhenFull, WalkOnList, ChunksHoldALink, ScanKnows, GetterIsEmpty
<1>5. CopyMeant
  BY <1>2 DEF CopyMeant, Answering
<1> QED BY <1>1, <1>3, <1>4, <1>5 DEF CarefulInv

(* Every careful step is a step of the pool. *)
LEMMA CarefulIsPool == CarefulNext => Next
  BY DEF CarefulNext, Next

---------------------------------------------------------------------------
(* A chunk put on the list becomes its last node, whatever else changed in *)
(* chunks that are not on it.                                              *)
LEMMA PushKeepsList ==
    ASSUME CarefulInv, NEW c \in Carved, ~GivenBack(c),
           NEW w \in [Carved -> Carved \cup {NULL, Data}],
           \A i \in 1..Len(freed) : w[freed[i]] = word[freed[i]],
           Recycle(c, w)
    PROVE  /\ freed' = Append(freed, c)
           /\ Len(freed') = Len(freed) + 1
           /\ \A i \in 1..(Len(freed) + 1) :
                 freed'[i] = IF i <= Len(freed) THEN freed[i] ELSE c
           /\ FreeListIsFreed'
<1> DEFINE n == Len(freed)
<1>1. /\ n \in Nat /\ freed \in Seq(Carved)
      /\ \A i \in 1..n : freed[i] \in Carved /\ freed[i] # c
      /\ free = NULL <=> n = 0
  BY OnTheList DEF GivenBack
<1>2. freed' = Append(freed, c)
  BY DEF Recycle
<1>3. Len(freed') = n + 1 /\ \A i \in 1..(n + 1) : freed'[i] = IF i <= n THEN freed[i] ELSE c
  BY <1>1, <1>2, AppendProperties
<1>4. FreeListIsFreed'
  <2>1. CASE n = 0
    <3>1. free' = c /\ tail' = c /\ word' = [w EXCEPT ![c] = NULL]
      BY <1>1, <2>1 DEF Recycle
    <3> QED BY <1>3, <2>1, <3>1 DEF FreeListIsFreed
  <2>2. CASE n > 0
    <3>1. free' = free /\ tail' = c /\ word' = [w EXCEPT ![tail] = c, ![c] = NULL]
      BY <1>1, <2>2 DEF Recycle
    <3>2. /\ free = freed[1] /\ tail = freed[n]
          /\ \A i \in 1..(n - 1) : word[freed[i]] = freed[i + 1]
      BY <2>2 DEF CarefulInv, FreeListIsFreed
    <3>3. free' = freed'[1] /\ tail' = freed'[n + 1]
      BY <1>1, <1>3, <2>2, <3>1, <3>2
    <3>4. word'[c] = NULL
      BY <3>1
    <3>5. ASSUME NEW i \in 1..n PROVE word'[freed'[i]] = freed'[i + 1]
      <4>1. CASE i = n
        <5>1. word'[freed[n]] = c
          BY <1>1, <2>2, <3>1, <3>2
        <5> QED BY <1>1, <1>3, <2>2, <4>1, <5>1
      <4>2. CASE i < n
        <5>1. freed[i] # freed[n]
          BY <1>1, <2>2, <4>2 DEF CarefulInv, NoDoubleHandOut
        <5>2. word'[freed[i]] = w[freed[i]]
          BY <1>1, <3>1, <3>2, <5>1
        <5>3. word[freed[i]] = freed[i + 1]
          BY <1>1, <3>2, <4>2
        <5>4. freed'[i] = freed[i] /\ freed'[i + 1] = freed[i + 1]
          BY <1>1, <1>3, <4>2
        <5> QED BY <5>2, <5>3, <5>4
      <4> QED BY <1>1, <4>1, <4>2
    <3>6. Len(freed') # 0 /\ Len(freed') - 1 = n
      BY <1>1, <1>3
    <3> QED BY <1>3, <3>3, <3>4, <3>5, <3>6 DEF FreeListIsFreed
  <2> QED BY <1>1, <2>1, <2>2
<1> QED BY <1>2, <1>3, <1>4

(* A chunk taken leaves the list, and the chunks behind it move up. *)
LEMMA TakeKeepsList ==
    ASSUME CarefulInv, ScanTake
    PROVE  \E i \in 1..Len(freed) :
              /\ call.node = freed[i]
              /\ Len(freed') = Len(freed) - 1
              /\ \A j \in 1..(Len(freed) - 1) :
                    freed'[j] = IF j < i THEN freed[j] ELSE freed[j + 1]
              /\ FreeListIsFreed'
<1> DEFINE n == Len(freed)
<1>1. /\ pc = "scan" /\ call.node \in Carved /\ ~TooSmall(call.node)
      /\ Unlink(call.node) /\ Withdraw(call.node)
  BY DEF ScanTake, Scanning
<1>2. PICK i \in 1..(n + 1) : WalkAt(i)
  BY <1>1 DEF CarefulInv, WalkOnList
<1>3. /\ n \in Nat /\ freed \in Seq(Carved)
      /\ \A j \in 1..n : freed[j] \in Carved /\ freed[j] # NULL
      /\ \A j, k \in 1..n : freed[j] = freed[k] => j = k
      /\ free = IF n = 0 THEN NULL ELSE freed[1]
  BY OnTheList DEF CarefulInv, NoDoubleHandOut
<1>4. /\ n > 0 => tail = freed[n] /\ word[freed[n]] = NULL
      /\ \A j \in 1..(n - 1) : word[freed[j]] = freed[j + 1]
  BY DEF CarefulInv, FreeListIsFreed
<1>5. call.node # NULL
  BY <1>1, ValuesAssumption DEF CarefulInv, PoolInv, TypeOK
<1>6. i \in 1..n /\ call.node = freed[i]
  BY <1>2, <1>3, <1>5 DEF WalkAt
<1>7. freed' = RemoveAt(freed, i)
  <2>1. ASSUME NEW k \in 1..n, freed[k] = call.node PROVE k = i
    BY <1>3, <1>6, <2>1
  <2>2. GivenBack(call.node)
    BY <1>6 DEF GivenBack
  <2> QED BY <1>1, <2>1, <2>2 DEF Withdraw
<1>8. /\ Len(freed') = n - 1
      /\ \A j \in 1..(n - 1) : freed'[j] = IF j < i THEN freed[j] ELSE freed[j + 1]
  BY <1>3, <1>6, <1>7, Removed
<1>9. ~(i = n /\ i > 1)
  <2> SUFFICES ASSUME i = n, i > 1 PROVE FALSE
    OBVIOUS
  <2>1. \A j \in 1..(n - 1) : header[freed[j]] < call.size
    BY <1>2 DEF WalkAt
  <2>2. header[freed[n]] >= call.size
    <3>1. header[freed[n]] \in Nat /\ call.size \in Nat
      <4>1. header \in [Carved -> 0..MaxUint16] /\ call.size \in Nat
        BY DEF CarefulInv, PoolInv, TypeOK
      <4>2. header[freed[n]] \in 0..MaxUint16
        BY <1>3, <1>6, <4>1
      <4> QED BY <4>1, <4>2, MaxUint16Nat
    <3> QED BY <1>1, <1>6, <3>1 DEF TooSmall
  <2>3. OnlyLastFits(call.size)
    BY <2>1, <2>2 DEF OnlyLastFits
  <2> QED BY <1>1, <2>3 DEF CarefulInv, ScanKnows
<1> SUFFICES FreeListIsFreed'
  BY <1>6, <1>8
<1>word. word \in [Carved -> Carved \cup {NULL, Data}]
  BY DEF CarefulInv, PoolInv, TypeOK
<1>10. CASE i = 1
  <2>1. call.prev = NULL
    BY <1>2, <1>10 DEF WalkAt
  <2>2. free' = word[freed[1]] /\ tail' = tail /\ word' = [word EXCEPT ![freed[1]] = NULL]
    BY <1>1, <1>6, <1>10, <2>1 DEF Unlink
  <2>3. CASE n = 1
    <3>1. Len(freed') = 0 /\ free' = NULL
      BY <1>4, <1>8, <2>2, <2>3
    <3> QED BY <3>1 DEF FreeListIsFreed
  <2>4. CASE n > 1
    <3>1. \A j \in 1..(n - 1) : freed'[j] = freed[j + 1] /\ freed[j + 1] # freed[1]
      BY <1>3, <1>8, <1>10
    <3>2. free' = freed'[1]
      BY <1>3, <1>4, <2>2, <2>4, <3>1
    <3>3. tail' = freed'[n - 1] /\ word'[freed'[n - 1]] = NULL
      <4>1. n - 1 \in 1..(n - 1) /\ (n - 1) + 1 = n
        BY <1>3, <2>4
      <4>2. freed'[n - 1] = freed[n] /\ freed[n] # freed[1]
        BY <3>1, <4>1
      <4> QED BY <1>3, <1>4, <2>2, <2>4, <4>2
    <3>4. ASSUME NEW j \in 1..(n - 2) PROVE word'[freed'[j]] = freed'[j + 1]
      <4>1. j \in 1..(n - 1) /\ j + 1 \in 1..(n - 1)
        BY <1>3
      <4>2. /\ freed'[j] = freed[j + 1] /\ freed[j + 1] # freed[1]
            /\ freed'[j + 1] = freed[(j + 1) + 1]
            /\ word[freed[j + 1]] = freed[(j + 1) + 1]
        BY <1>4, <3>1, <4>1
      <4> QED BY <1>3, <2>2, <4>2
    <3>5. Len(freed') = n - 1 /\ n - 1 # 0 /\ (n - 1) - 1 = n - 2
      BY <1>3, <1>8, <2>4
    <3> QED BY <3>2, <3>3, <3>4, <3>5 DEF FreeListIsFreed
  <2>5. n = 1 \/ n > 1
    <3>1. n \in Nat /\ 1 \in 1..n
      BY <1>3, <1>6, <1>10
    <3> HIDE DEF n
    <3> QED BY <3>1
  <2> QED BY <2>3, <2>4, <2>5
<1>11. CASE 1 < i /\ i < n
  <2>1. call.prev = freed[i - 1] /\ call.prev # NULL /\ freed[i] # tail
    <3>1. i - 1 \in 1..n /\ n \in 1..n
      BY <1>3, <1>11
    <3> QED BY <1>2, <1>3, <1>4, <1>11, <3>1 DEF WalkAt
  <2>2. /\ free' = free /\ tail' = tail
        /\ word' = [word EXCEPT ![freed[i - 1]] = word[freed[i]], ![freed[i]] = NULL]
    BY <1>1, <1>6, <2>1 DEF Unlink
  <2>3. free' = freed'[1]
    BY <1>3, <1>8, <1>11, <2>2
  <2>4. tail' = freed'[n - 1] /\ word'[freed'[n - 1]] = NULL
    <3>1. n - 1 \in 1..(n - 1) /\ (n - 1) + 1 = n /\ ~(n - 1 < i)
      BY <1>3, <1>11
    <3>2. freed'[n - 1] = freed[n]
      BY <1>8, <3>1
    <3>3. freed[n] # freed[i] /\ freed[n] # freed[i - 1] /\ freed[n] \in Carved
      BY <1>3, <1>11
    <3>4. word'[freed[n]] = word[freed[n]]
      BY ONLY <1>word, <2>2, <3>3
    <3> QED BY <1>3, <1>4, <1>11, <2>2, <3>2, <3>4
  <2>5. ASSUME NEW j \in 1..(n - 2) PROVE word'[freed'[j]] = freed'[j + 1]
    <3>1. j \in 1..(n - 1) /\ j + 1 \in 1..(n - 1) /\ j \in Int /\ i \in Int
      BY <1>3
    <3>2. CASE j < i - 1
      <4>1. freed'[j] = freed[j] /\ freed'[j + 1] = freed[j + 1] /\ word[freed[j]] = freed[j + 1]
        BY <1>4, <1>8, <3>1, <3>2
      <4>2. freed[j] # freed[i] /\ freed[j] # freed[i - 1]
        BY <1>3, <1>11, <3>1, <3>2
      <4>3. freed[j] \in Carved
        BY <1>3, <3>1
      <4>4. word'[freed[j]] = word[freed[j]]
        BY ONLY <1>word, <2>2, <4>2, <4>3
      <4> QED BY <4>1, <4>4
    <3>3. CASE j = i - 1
      <4>1. freed'[j] = freed[i - 1] /\ freed'[j + 1] = freed[i + 1] /\ word[freed[i]] = freed[i + 1]
        BY <1>3, <1>4, <1>8, <1>11, <3>1, <3>3
      <4>2. freed[i - 1] # freed[i] /\ freed[i - 1] \in Carved
        BY <1>3, <1>11
      <4>3. word \in [Carved -> Carved \cup {NULL, Data}]
        BY DEF CarefulInv, PoolInv, TypeOK
      <4> QED BY <2>2, <4>1, <4>2, <4>3
    <3>4. CASE j >= i
      <4>1. /\ freed'[j] = freed[j + 1] /\ freed'[j + 1] = freed[(j + 1) + 1]
            /\ word[freed[j + 1]] = freed[(j + 1) + 1]
        BY <1>4, <1>8, <3>1, <3>4
      <4>2. freed[j + 1] # freed[i] /\ freed[j + 1] # freed[i - 1]
        BY <1>3, <1>11, <3>1, <3>4
      <4>3. freed[j + 1] \in Carved
        BY <1>3, <3>1
      <4>4. word'[freed[j + 1]] = word[freed[j + 1]]
        BY ONLY <1>word, <2>2, <4>2, <4>3
      <4> QED BY <4>1, <4>4
    <3> QED BY <3>1, <3>2, <3>3, <3>4
  <2>6. Len(freed') = n - 1 /\ n - 1 # 0 /\ (n - 1) - 1 = n - 2
    BY <1>3, <1>8, <1>11
  <2>7. FreeListIsFreed'
    BY <2>3, <2>4, <2>5, <2>6 DEF FreeListIsFreed
  <2> QED BY <2>7
<1> QED BY <1>3, <1>6, <1>9, <1>10, <1>11

---------------------------------------------------------------------------
(* The invariant as far as it goes beyond that of MemoryPoolProofs *)
CarefulRest ==
    /\ FreeListIsFreed /\ NoDoubleHandOut /\ Conservation
    /\ RefusesOnlyWhenFull /\ WalkOnList
    /\ ChunksHoldALink /\ ScanKnows /\ GetterIsEmpty

(* A chunk just carved is nobody's yet. *)
LEMMA CarefulStartGet ==
    ASSUME CarefulInv, pc = "idle",
           NEW op \in {"get", "grow"}, NEW h \in Handles, NEW n \in Nat, n > 0,
           op = "get" => ~owns[h],
           SafeRequest(n), StartGet(op, h, n),
           UNCHANGED <<pool, ptr, owns, freed>>
    PROVE  CarefulRest'
<1> DEFINE size == AlignUp(n)
           new == mp + MetaSize
           request == [op |-> op, h |-> h, asked |-> n, size |-> size, prev |-> NULL, node |-> NULL]
<1>1. size \in Nat /\ n <= size /\ MinAlloc <= size
  BY AlignUpNat, AlignUpCovers
<1>2. CASE /\ MaxAlloc < n
           /\ pc' = "done" /\ call' = request
           /\ UNCHANGED state
  <2> HIDE DEF size
  <2>1. MaxAlloc \in Int
    BY PoolAssumption DEF MaxAlloc, MetaSize
  <2>2. ~(size <= MaxAlloc)
    BY <1>1, <1>2, <2>1
  <2>3. RefusesOnlyWhenFull'
    BY <1>2, <2>2 DEF RefusesOnlyWhenFull, MaxAlloc, MetaSize
  <2> QED BY <1>2, <2>3
          DEF CarefulInv, CarefulRest, state, FreeListIsFreed, NoDoubleHandOut, Conservation,
              WalkOnList, ChunksHoldALink, ScanKnows, GetterIsEmpty, Carved
<1>3. CASE /\ Fits(size)
           /\ mp' = new + size
           /\ header' = [c \in Carved \cup {new} |-> IF c = new THEN size ELSE header[c]]
           /\ word' = [c \in Carved \cup {new} |-> IF c = new THEN NULL ELSE word[c]]
           /\ pc' = "done" /\ call' = [request EXCEPT !.node = new]
           /\ UNCHANGED <<free, tail>>
  <2> HIDE DEF size
  <2>1. Carved' = Carved \cup {new}
    BY <1>3 DEF Carved
  <2>2. new \notin Carved
    <3>1. /\ mp \in Nat /\ Carved \subseteq Nat /\ header \in [Carved -> 0..MaxUint16]
          /\ \A c \in Carved : c + header[c] <= mp
      BY DEF CarefulInv, PoolInv, TypeOK, ChunksInPool
    <3>2. \A c \in Carved : header[c] \in Nat
      BY <3>1, MaxUint16Nat
    <3> QED BY <3>1, <3>2 DEF MetaSize
  <2>3. new # NULL
    <3>1. new \in Nat
      BY DEF CarefulInv, PoolInv, TypeOK, MetaSize
    <3> QED BY <3>1, ValuesAssumption
  <2> HIDE DEF new
  <2>4. /\ call'.node = new /\ call'.op = op /\ call'.h = h /\ call'.size = size
    BY <1>3
  <2>5. \A i \in 1..Len(freed) : freed[i] \in Carved
    BY OnTheList
  <2>6. \A g \in Handles : owns[g] => ptr[g] \in Carved
    BY DEF CarefulInv, PoolInv, CallOK
  <2>7. FreeListIsFreed'
    <3>1. \A i \in 1..Len(freed) : word'[freed[i]] = word[freed[i]]
      BY <1>3, <2>2, <2>5
    <3>2. Len(freed) \in Nat
      BY OnTheList
    <3>3. \A i \in 1..(Len(freed) - 1) : i \in 1..Len(freed)
      BY <3>2
    <3>4. Len(freed) > 0 => Len(freed) \in 1..Len(freed)
      BY <3>2
    <3> QED BY <1>3, <3>1, <3>3, <3>4 DEF CarefulInv, FreeListIsFreed
  <2>8. NoDoubleHandOut'
    BY <1>3, <2>2, <2>4, <2>5, <2>6 DEF CarefulInv, NoDoubleHandOut
  <2>9. Conservation'
    BY <1>3, <2>1, <2>4 DEF CarefulInv, Conservation
  <2>10. ChunksHoldALink'
    <3>1. \A c \in Carved : header'[c] = header[c]
      BY <1>3, <2>2
    <3>2. header'[new] = size
      BY <1>3
    <3> QED BY <1>1, <2>1, <3>1, <3>2 DEF CarefulInv, ChunksHoldALink
  <2>11. RefusesOnlyWhenFull' /\ WalkOnList' /\ ScanKnows' /\ GetterIsEmpty'
    BY <1>3, <2>3, <2>4 DEF RefusesOnlyWhenFull, WalkOnList, ScanKnows, GetterIsEmpty
  <2> QED BY <2>7, <2>8, <2>9, <2>10, <2>11 DEF CarefulRest
<1>4. CASE /\ n <= MaxAlloc /\ ~Fits(size)
           /\ pc' = "scan" /\ call' = [request EXCEPT !.node = free]
           /\ UNCHANGED state
  <2> HIDE DEF size
  <2>1. /\ call'.node = free /\ call'.prev = NULL /\ call'.op = op /\ call'.h = h
        /\ call'.size = size
    BY <1>4
  <2>2. UNCHANGED <<mp, free, tail, header, word>> /\ Carved' = Carved
    BY <1>4 DEF state, Carved
  <2>3. ~OnlyLastFits(size)
    <3>1. n \in Int /\ MaxAlloc \in Int
      BY PoolAssumption DEF MaxAlloc, MetaSize
    <3> QED BY <1>4, <3>1 DEF SafeRequest, size
  <2>4. WalkOnList'
    <3>1. Len(freed) \in Nat /\ free = IF Len(freed) = 0 THEN NULL ELSE freed[1]
      BY OnTheList
    <3>2. 1 \in 1..(Len(freed') + 1) /\ (1 <= Len(freed) <=> Len(freed) # 0)
      BY <3>1
    <3>3. WalkAt(1)'
      BY <2>1, <3>1, <3>2 DEF WalkAt
    <3> QED BY <3>2, <3>3 DEF WalkOnList
  <2>5. ScanKnows'
    BY <1>4, <2>1, <2>2, <2>3 DEF ScanKnows, Fits, OnlyLastFits, MetaSize, Top
  <2>6. GetterIsEmpty' /\ ChunksHoldALink' /\ RefusesOnlyWhenFull'
    BY <1>4, <2>1, <2>2
       DEF CarefulInv, GetterIsEmpty, ChunksHoldALink, RefusesOnlyWhenFull
  <2>7. FreeListIsFreed' /\ NoDoubleHandOut' /\ Conservation'
    BY <1>4, <2>2
       DEF CarefulInv, FreeListIsFreed, NoDoubleHandOut, Conservation
  <2> QED BY <2>4, <2>5, <2>6, <2>7 DEF CarefulRest
<1> QED BY <1>2, <1>3, <1>4 DEF StartGet

(* A chunk given back was on no list and belonged to one caller. *)
LEMMA CarefulDelete ==
    ASSUME CarefulInv, NEW h \in Handles, DeleteChunk(h) \/ GrowToNothing(h)
    PROVE  CarefulRest'
<1>1. /\ UNCHANGED <<pool, mp, header, pc, call>> /\ pc = "idle"
      /\ Recycle(ptr[h], word) /\ owns[h]
      /\ owns' = [owns EXCEPT ![h] = FALSE]
      /\ \A g \in Handles : g # h => ptr'[g] = ptr[g]
  BY NoStaleDeletes DEF DeleteChunk, GrowToNothing, CarefulInv, PoolInv, TypeOK
<1>2. /\ ptr[h] \in Carved /\ word \in [Carved -> Carved \cup {NULL, Data}]
      /\ owns \in [Handles -> BOOLEAN] /\ Len(freed) \in Nat
  BY <1>1, OnTheList DEF CarefulInv, PoolInv, TypeOK, CallOK
<1>3. ~GivenBack(ptr[h])
  BY <1>1 DEF CarefulInv, NoDoubleHandOut, GivenBack
<1>4. /\ Len(freed') = Len(freed) + 1
      /\ \A i \in 1..(Len(freed) + 1) :
            freed'[i] = IF i <= Len(freed) THEN freed[i] ELSE ptr[h]
      /\ FreeListIsFreed'
  BY <1>1, <1>2, <1>3, PushKeepsList
<1>5. \A g \in Handles : owns'[g] => g # h /\ owns[g] /\ ptr'[g] = ptr[g]
  BY <1>1, <1>2
<1>6. NoDoubleHandOut'
  <2>1. \A f, g \in Handles : owns'[f] /\ owns'[g] /\ ptr'[f] = ptr'[g] => f = g
    BY <1>5 DEF CarefulInv, NoDoubleHandOut
  <2>2. \A i, j \in 1..(Len(freed) + 1) : freed'[i] = freed'[j] => i = j
    BY <1>2, <1>3, <1>4 DEF CarefulInv, NoDoubleHandOut, GivenBack
  <2>3. \A g \in Handles, i \in 1..(Len(freed) + 1) : owns'[g] => ptr'[g] # freed'[i]
    BY <1>1, <1>2, <1>4, <1>5 DEF CarefulInv, NoDoubleHandOut
  <2> QED BY <1>1, <1>4, <2>1, <2>2, <2>3 DEF NoDoubleHandOut
<1>7. Conservation'
  <2> SUFFICES ASSUME NEW c \in Carved
               PROVE  \/ \E g \in Handles : owns'[g] /\ ptr'[g] = c
                      \/ \E i \in 1..Len(freed') : freed'[i] = c
    BY <1>1 DEF Conservation, Carved
  <2>1. CASE \E g \in Handles : owns[g] /\ ptr[g] = c /\ g # h
    BY <1>1, <1>2, <2>1
  <2>2. CASE ptr[h] = c
    <3>1. Len(freed) + 1 \in 1..Len(freed') /\ freed'[Len(freed) + 1] = c
      BY <1>2, <1>4, <2>2
    <3> QED BY <3>1
  <2>3. CASE \E i \in 1..Len(freed) : freed[i] = c
    <3>1. PICK i \in 1..Len(freed) : freed[i] = c
      BY <2>3
    <3>2. i \in 1..Len(freed') /\ freed'[i] = c
      BY <1>2, <1>4, <3>1
    <3> QED BY <3>2
  <2> QED BY <1>1, <2>1, <2>2, <2>3 DEF CarefulInv, Conservation
<1>8. RefusesOnlyWhenFull' /\ WalkOnList' /\ ChunksHoldALink' /\ ScanKnows' /\ GetterIsEmpty'
  BY <1>1 DEF CarefulInv, RefusesOnlyWhenFull, WalkOnList, ChunksHoldALink, ScanKnows,
              GetterIsEmpty, Carved
<1> QED BY <1>4, <1>6, <1>7, <1>8 DEF CarefulRest

(* The answer goes to the caller; a chunk that is swapped goes on the list. *)
LEMMA CarefulReturn ==
    ASSUME CarefulInv, ReturnGet \/ ReturnGrow
    PROVE  CarefulRest'
<1>1. /\ UNCHANGED <<pool, mp, header>> /\ pc = "done" /\ pc' = "idle"
      /\ call.h \in Handles /\ call.node \in Carved \cup {NULL}
      /\ call.op = "grow" => owns[call.h]
      /\ call.op = "get" => ~owns[call.h]
      /\ owns \in [Handles -> BOOLEAN] /\ ptr \in [Handles -> Carved \cup {NULL}]
      /\ Carved' = Carved
  BY DEF ReturnGet, ReturnGrow, CarefulInv, PoolInv, TypeOK, CallOK, GetterIsEmpty, Carved
<1>2. RefusesOnlyWhenFull' /\ WalkOnList' /\ ChunksHoldALink' /\ ScanKnows' /\ GetterIsEmpty'
  BY <1>1 DEF CarefulInv, RefusesOnlyWhenFull, WalkOnList, ChunksHoldALink, ScanKnows,
              GetterIsEmpty
<1>3. CASE ReturnGet
  <2>1. /\ UNCHANGED <<free, tail, word, freed>>
        /\ ptr' = [ptr EXCEPT ![call.h] = call.node]
        /\ owns' = [owns EXCEPT ![call.h] = call.node # NULL]
        /\ ~owns[call.h]
    BY <1>1, <1>3 DEF ReturnGet
  <2>2. FreeListIsFreed'
    BY <2>1 DEF CarefulInv, FreeListIsFreed
  <2>3. /\ \A g \in Handles : g # call.h => owns'[g] = owns[g] /\ ptr'[g] = ptr[g]
        /\ ptr'[call.h] = call.node
        /\ owns'[call.h] => call.node # NULL
    BY <1>1, <2>1
  <2>4. NoDoubleHandOut'
    BY <1>1, <2>1, <2>3 DEF CarefulInv, NoDoubleHandOut
  <2>5. Conservation'
    <3> SUFFICES ASSUME NEW c \in Carved
                 PROVE  \/ \E g \in Handles : owns'[g] /\ ptr'[g] = c
                        \/ \E i \in 1..Len(freed) : freed[i] = c
      BY <1>1, <2>1 DEF Conservation
    <3>1. CASE \E g \in Handles : owns[g] /\ ptr[g] = c
      BY <1>1, <2>1, <3>1
    <3>2. CASE call.node = c
      <4>1. c # NULL
        BY ValuesAssumption DEF CarefulInv, PoolInv, TypeOK
      <4>2. owns'[call.h] /\ ptr'[call.h] = c
        BY <1>1, <2>1, <3>2, <4>1
      <4> QED BY <1>1, <4>2
    <3> QED BY <3>1, <3>2 DEF CarefulInv, Conservation
  <2> QED BY <1>2, <2>2, <2>4, <2>5 DEF CarefulRest
<1>4. CASE ReturnGrow /\ call.node = NULL
  <2>1. UNCHANGED <<free, tail, word, ptr, freed, owns>>
    BY <1>4 DEF ReturnGrow
  <2>2. \A c \in Carved : c # NULL
    BY ValuesAssumption DEF CarefulInv, PoolInv, TypeOK
  <2>3. FreeListIsFreed' /\ NoDoubleHandOut'
    BY <1>1, <2>1 DEF CarefulInv, FreeListIsFreed, NoDoubleHandOut
  <2>4. Conservation'
    BY <1>1, <1>4, <2>1, <2>2 DEF CarefulInv, Conservation
  <2> QED BY <1>2, <2>3, <2>4 DEF CarefulRest
<1>5. CASE ReturnGrow /\ call.node # NULL
  <2> DEFINE old == ptr[call.h]
             copied == [word EXCEPT ![call.node] = word[old]]
             n == Len(freed)
  <2>1. /\ Recycle(old, copied) /\ UNCHANGED owns
        /\ ptr' = [ptr EXCEPT ![call.h] = call.node]
        /\ owns[call.h] /\ call.node \in Carved
    BY <1>1, <1>5 DEF ReturnGrow
  <2>2. /\ old \in Carved /\ old # call.node
        /\ \A i \in 1..n : freed[i] # old /\ freed[i] # call.node
        /\ \A g \in Handles : owns[g] => ptr[g] # call.node /\ (g # call.h => ptr[g] # old)
        /\ \A i, j \in 1..n : freed[i] = freed[j] => i = j
        /\ \A g \in Handles, i \in 1..n : owns[g] => ptr[g] # freed[i]
        /\ \A f, g \in Handles : owns[f] /\ owns[g] /\ ptr[f] = ptr[g] => f = g
    BY <1>1, <1>5, <2>1 DEF CarefulInv, PoolInv, CallOK, NoDoubleHandOut
  <2>3. n \in Nat /\ \A i \in 1..n : freed[i] \in Carved
    BY OnTheList
  <2>4. /\ copied \in [Carved -> Carved \cup {NULL, Data}]
        /\ \A i \in 1..n : copied[freed[i]] = word[freed[i]]
    <3>1. word \in [Carved -> Carved \cup {NULL, Data}]
      BY DEF CarefulInv, PoolInv, TypeOK
    <3> QED BY <2>1, <2>2, <2>3, <3>1
  <2>5. ~GivenBack(old)
    BY <2>2 DEF GivenBack
  <2> HIDE DEF old, copied
  <2>6. /\ Len(freed') = n + 1
        /\ \A i \in 1..(n + 1) : freed'[i] = IF i <= n THEN freed[i] ELSE old
        /\ FreeListIsFreed'
    BY <2>1, <2>2, <2>4, <2>5, PushKeepsList
  <2>7. /\ ptr'[call.h] = call.node
        /\ \A g \in Handles : g # call.h => ptr'[g] = ptr[g]
    BY <1>1, <2>1
  <2> HIDE DEF n
  <2>8. NoDoubleHandOut'
    <3>1. \A f, g \in Handles : owns'[f] /\ owns'[g] /\ ptr'[f] = ptr'[g] => f = g
      BY <2>1, <2>2, <2>7
    <3>2. \A i, j \in 1..(n + 1) : freed'[i] = freed'[j] => i = j
      BY <2>2, <2>3, <2>6
    <3>3. \A g \in Handles, i \in 1..(n + 1) : owns'[g] => ptr'[g] # freed'[i]
      BY <2>1, <2>2, <2>3, <2>6, <2>7
    <3> QED BY <1>1, <2>6, <3>1, <3>2, <3>3 DEF NoDoubleHandOut
  <2>9. Conservation'
    <3> SUFFICES ASSUME NEW c \in Carved
                 PROVE  \/ \E g \in Handles : owns'[g] /\ ptr'[g] = c
                        \/ \E i \in 1..(n + 1) : freed'[i] = c
      BY <1>1, <2>6 DEF Conservation
    <3>1. CASE \E g \in Handles : owns[g] /\ ptr[g] = c /\ g # call.h
      BY <2>1, <2>7, <3>1
    <3>2. CASE c = old
      <4>1. n + 1 \in 1..(n + 1) /\ freed'[n + 1] = c
        BY <2>3, <2>6, <3>2
      <4> QED BY <4>1
    <3>3. CASE \E i \in 1..n : freed[i] = c
      <4>1. PICK i \in 1..n : freed[i] = c
        BY <3>3
      <4>2. i \in 1..(n + 1) /\ freed'[i] = c
        BY <2>3, <2>6, <4>1
      <4> QED BY <4>2
    <3>4. CASE call.node = c
      BY <1>1, <2>1, <2>7, <3>4
    <3> QED BY <3>1, <3>2, <3>3, <3>4 DEF CarefulInv, Conservation, old, n
  <2> QED BY <1>2, <2>6, <2>8, <2>9 DEF CarefulRest
<1>6. ReturnGrow => call.op = "grow"
  BY DEF ReturnGrow
<1> QED BY <1>3, <1>4, <1>5

(* The walk stays on the list, and what it takes leaves it. *)
LEMMA CarefulScan ==
    ASSUME CarefulInv, ScanStep \/ ScanTake \/ ScanMiss \/ ScanWild
    PROVE  CarefulRest'
<1>1. /\ UNCHANGED <<pool, mp, header, ptr, owns>> /\ pc = "scan" /\ Carved' = Carved
      /\ ~Fits(call.size) /\ ~OnlyLastFits(call.size)
  BY DEF ScanStep, ScanTake, ScanMiss, ScanWild, Scanning, Carved, CarefulInv, ScanKnows
<1>2. /\ Len(freed) \in Nat
      /\ \A i \in 1..Len(freed) : freed[i] \in Carved /\ freed[i] \in Nat /\ freed[i] # NULL
  BY OnTheList
<1>3. PICK i \in 1..(Len(freed) + 1) : WalkAt(i)
  BY <1>1 DEF CarefulInv, WalkOnList
<1>4. ChunksHoldALink'
  BY <1>1 DEF CarefulInv, ChunksHoldALink
<1>5. CASE ScanStep
  <2>1. /\ call.node \in Carved /\ TooSmall(call.node)
        /\ UNCHANGED <<free, tail, word, freed, pc>>
        /\ call' = [call EXCEPT !.prev = call.node, !.node = word[call.node]]
    BY <1>5 DEF ScanStep
  <2>2. /\ call'.prev = call.node /\ call'.node = word[call.node] /\ call'.op = call.op
        /\ call'.h = call.h /\ call'.size = call.size
    BY <2>1 DEF CarefulInv, PoolInv, TypeOK
  <2>3. call.node # NULL
    BY <2>1, ValuesAssumption DEF CarefulInv, PoolInv, TypeOK
  <2>4. i \in 1..Len(freed) /\ call.node = freed[i]
    BY <1>2, <1>3, <2>3 DEF WalkAt
  <2>5. WalkAt(i + 1)'
    <3>1. word[freed[i]] = IF i + 1 <= Len(freed) THEN freed[i + 1] ELSE NULL
      <4>1. CASE i = Len(freed)
        BY <1>2, <2>4, <4>1 DEF CarefulInv, FreeListIsFreed
      <4>2. CASE i < Len(freed)
        BY <1>2, <2>4, <4>2 DEF CarefulInv, FreeListIsFreed
      <4> QED BY <1>2, <2>4, <4>1, <4>2
    <3>2. \A j \in 1..i : header[freed[j]] < call.size
      BY <1>2, <1>3, <2>1, <2>4 DEF WalkAt, TooSmall
    <3>3. i + 1 > 1 /\ (i + 1) - 1 = i
      BY <2>4
    <3> QED BY <1>1, <2>1, <2>2, <2>4, <3>1, <3>2, <3>3 DEF WalkAt
  <2>6. WalkOnList'
    <3>1. i + 1 \in 1..(Len(freed') + 1)
      BY <1>2, <2>1, <2>4
    <3> QED BY <2>5, <3>1 DEF WalkOnList
  <2>7. /\ FreeListIsFreed' /\ NoDoubleHandOut' /\ Conservation'
        /\ RefusesOnlyWhenFull' /\ GetterIsEmpty'
    BY <1>1, <2>1, <2>2
       DEF CarefulInv, FreeListIsFreed, NoDoubleHandOut, Conservation,
           RefusesOnlyWhenFull, GetterIsEmpty
  <2>8. ScanKnows'
    BY <1>1, <2>1, <2>2 DEF ScanKnows, Fits, OnlyLastFits, MetaSize, Top
  <2> QED BY <1>4, <2>6, <2>7, <2>8 DEF CarefulRest
<1>6. CASE ScanTake
  <2>1. pc' = "done" /\ UNCHANGED call /\ call.node \in Carved
    BY <1>6 DEF ScanTake
  <2>2. PICK k \in 1..Len(freed) :
              /\ call.node = freed[k]
              /\ Len(freed') = Len(freed) - 1
              /\ \A j \in 1..(Len(freed) - 1) :
                    freed'[j] = IF j < k THEN freed[j] ELSE freed[j + 1]
              /\ FreeListIsFreed'
    BY <1>6, TakeKeepsList
  <2>3. \A j \in 1..Len(freed') : \E m \in 1..Len(freed) :
              m # k /\ freed'[j] = freed[m] /\ m = IF j < k THEN j ELSE j + 1
    BY <1>2, <2>2
  <2>4. NoDoubleHandOut'
    <3>1. \A g, h \in Handles : owns'[g] /\ owns'[h] /\ ptr'[g] = ptr'[h] => g = h
      BY <1>1 DEF CarefulInv, NoDoubleHandOut
    <3>2. \A j, m \in 1..Len(freed') : freed'[j] = freed'[m] => j = m
      <4> SUFFICES ASSUME NEW j \in 1..Len(freed'), NEW m \in 1..Len(freed'),
                          freed'[j] = freed'[m]
                   PROVE  j = m
        OBVIOUS
      <4>1. PICK a \in 1..Len(freed) : freed'[j] = freed[a] /\ a = IF j < k THEN j ELSE j + 1
        BY <2>3
      <4>2. PICK b \in 1..Len(freed) : freed'[m] = freed[b] /\ b = IF m < k THEN m ELSE m + 1
        BY <2>3
      <4>3. a = b
        BY <4>1, <4>2 DEF CarefulInv, NoDoubleHandOut
      <4> QED BY <1>2, <2>2, <4>1, <4>2, <4>3
    <3>3. \A h \in Handles, j \in 1..Len(freed') : owns'[h] => ptr'[h] # freed'[j]
      BY <1>1, <2>3 DEF CarefulInv, NoDoubleHandOut
    <3>4. \A h \in Handles : owns'[h] => ptr'[h] # call'.node
      BY <1>1, <2>1, <2>2 DEF CarefulInv, NoDoubleHandOut
    <3>5. \A j \in 1..Len(freed') : freed'[j] # call'.node
      BY <2>1, <2>2, <2>3 DEF CarefulInv, NoDoubleHandOut
    <3> QED BY <3>1, <3>2, <3>3, <3>4, <3>5 DEF NoDoubleHandOut
  <2>5. Conservation'
    <3> SUFFICES ASSUME NEW c \in Carved
                 PROVE  \/ \E g \in Handles : owns'[g] /\ ptr'[g] = c
                        \/ \E j \in 1..Len(freed') : freed'[j] = c
                        \/ call'.node = c
      BY <1>1, <2>1 DEF Conservation
    <3>1. CASE \E g \in Handles : owns[g] /\ ptr[g] = c
      BY <1>1, <3>1
    <3>2. CASE \E j \in 1..Len(freed) : freed[j] = c
      <4>1. PICK j \in 1..Len(freed) : freed[j] = c
        BY <3>2
      <4>2. CASE j = k
        BY <2>1, <2>2, <4>1, <4>2
      <4>3. CASE j < k
        <5>1. j \in 1..Len(freed') /\ freed'[j] = c
          BY <1>2, <2>2, <4>1, <4>3
        <5> QED BY <5>1
      <4>4. CASE j > k
        <5>1. j - 1 \in 1..Len(freed') /\ (j - 1) + 1 = j /\ ~(j - 1 < k)
          BY <1>2, <2>2, <4>4
        <5>2. freed'[j - 1] = c
          BY <2>2, <4>1, <5>1
        <5> QED BY <5>1, <5>2
      <4> QED BY <1>2, <4>2, <4>3, <4>4
    <3> QED BY <1>1, <3>1, <3>2 DEF CarefulInv, Conservation
  <2>6. call.node # NULL
    BY <1>2, <2>2
  <2>7. RefusesOnlyWhenFull' /\ WalkOnList' /\ ScanKnows'
    BY <2>1, <2>6 DEF RefusesOnlyWhenFull, WalkOnList, ScanKnows
  <2>8. GetterIsEmpty'
    BY <1>1, <2>1 DEF CarefulInv, GetterIsEmpty
  <2> QED BY <1>4, <2>2, <2>4, <2>5, <2>7, <2>8 DEF CarefulRest
<1>7. CASE ScanMiss
  <2>1. /\ call.node = NULL /\ pc' = "done" /\ UNCHANGED <<free, tail, word, freed, call>>
    BY <1>7 DEF ScanMiss
  <2>2. i = Len(freed) + 1
    BY <1>2, <1>3, <2>1 DEF WalkAt
  <2>3. \A j \in 1..Len(freed) : header[freed[j]] < call.size
    BY <1>2, <1>3, <2>2 DEF WalkAt
  <2>4. RefusesOnlyWhenFull'
    BY <1>1, <2>1, <2>3 DEF RefusesOnlyWhenFull, Fits, MetaSize, Top
  <2>5. FreeListIsFreed' /\ NoDoubleHandOut' /\ Conservation'
    BY <1>1, <2>1 DEF CarefulInv, FreeListIsFreed, NoDoubleHandOut, Conservation
  <2>6. WalkOnList' /\ ScanKnows' /\ GetterIsEmpty'
    BY <1>1, <2>1 DEF CarefulInv, WalkOnList, ScanKnows, GetterIsEmpty
  <2> QED BY <1>4, <2>4, <2>5, <2>6 DEF CarefulRest
<1>8. CASE ScanWild
  <2>1. call.node = Data
    BY <1>8 DEF ScanWild
  <2> QED BY <1>2, <1>3, <2>1, ValuesAssumption DEF WalkAt
<1> QED BY <1>5, <1>6, <1>7, <1>8

(* Shrinking to no less than half clears bytes of the chunk itself only. *)
LEMMA CarefulShrink ==
    ASSUME CarefulInv, NEW h \in Handles, NEW n \in GrowSizes,
           GrowInPlace(h, n), SafeShrink(h, n)
    PROVE  /\ header' = header
           /\ \A x \in Carved : x # ptr[h] => word'[x] = word[x]
<1> DEFINE c == ptr[h]
           lo == c + GivenUp(h, n)
           hi == ClearedUpTo(h, n)
<1>1. /\ header' = [x \in Carved |-> ClearedHeader(x, lo, hi)]
      /\ word' = [x \in Carved |-> ClearedWord(x, lo, hi)]
      /\ owns[h] /\ n <= header[c] /\ header[c] <= 2 * n
  BY DEF GrowInPlace, SafeShrink
<1>2. /\ header \in [Carved -> 0..MaxUint16] /\ Carved \subseteq Nat /\ c \in Carved
      /\ \A x \in Carved : MinAlloc <= header[x]
      /\ \A x, y \in Carved : x < y => x + header[x] + MetaSize <= y
      /\ n \in 0..MaxUint16
  BY <1>1, SizesAssumption
     DEF CarefulInv, PoolInv, TypeOK, CallOK, ChunksInPool, ChunksHoldALink
<1>3. \A x \in Carved : header[x] \in Nat /\ x \in Nat
  BY <1>2, MaxUint16Nat
<1> HIDE DEF c
<1>4. n \in Nat /\ c \in Nat /\ header[c] \in Nat
  <2>1. n \in 0..MaxUint16
    BY <1>2
  <2>2. n \in Nat
    BY ONLY <2>1, MaxUint16Nat
  <2>3. c \in Carved
    BY <1>2
  <2> QED BY <1>3, <2>2, <2>3
<1>5. lo \in Nat /\ hi \in Nat /\ c <= lo /\ hi <= c + header[c]
  <2> DEFINE v == header[c]
  <2>1. lo = c + (v - n) /\ hi = c + 2 * (v - n)
    BY DEF GivenUp, ClearedUpTo, c
  <2>2. v \in Nat /\ n <= v /\ v <= 2 * n
    BY <1>1, <1>4 DEF c
  <2> HIDE DEF v, lo, hi
  <2>3. lo \in Nat /\ hi \in Nat /\ c <= lo /\ hi <= c + v
    BY ONLY <1>4, <2>1, <2>2
  <2> QED BY <2>3 DEF v
<1> HIDE DEF lo, hi
<1>6. ASSUME NEW x \in Carved PROVE x - 2 \notin lo..(hi - 1) /\ x - 1 \notin lo..(hi - 1)
  <2>1. CASE x <= c
    BY <1>3, <1>4, <1>5, <2>1
  <2>2. CASE c < x
    <3>1. c + header[c] + 2 <= x
      BY <1>2, <2>2 DEF MetaSize
    <3> QED BY <1>3, <1>4, <1>5, <3>1
  <2> QED BY <1>3, <1>4, <2>1, <2>2
<1>7. \A x \in Carved : ClearedHeader(x, lo, hi) = header[x]
  <2> SUFFICES ASSUME NEW x \in Carved PROVE ClearedHeader(x, lo, hi) = header[x]
    OBVIOUS
  <2> DEFINE v == header[x]
  <2>1. ClearedHeader(x, lo, hi) = (v % 256) + 256 * (v \div 256)
    BY <1>6 DEF ClearedHeader
  <2>2. v \in Nat
    BY <1>3
  <2> HIDE DEF v
  <2>3. v = (v % 256) + 256 * (v \div 256)
    BY <2>2
  <2> QED BY <2>1, <2>3 DEF v
<1>8. header' = header
  BY <1>1, <1>2, <1>7
<1>9. ASSUME NEW x \in Carved, x # c PROVE ClearedWord(x, lo, hi) = word[x]
  <2>1. CASE x < c
    <3>1. x + MinAlloc <= lo
      BY <1>2, <1>3, <1>4, <1>5, <2>1, PoolAssumption DEF MetaSize
    <3> QED BY <1>3, <1>5, <2>1, <3>1, PoolAssumption DEF ClearedWord
  <2>2. CASE c < x
    <3>1. hi <= x
      BY <1>2, <1>3, <1>4, <1>5, <2>2 DEF MetaSize
    <3> QED BY <1>3, <1>5, <3>1, PoolAssumption DEF ClearedWord
  <2> QED BY <1>3, <1>4, <1>9, <2>1, <2>2
<1> QED BY <1>1, <1>8, <1>9 DEF c

(* What a caller does inside its own chunk does not reach the list. *)
LEMMA CarefulOwnChunk ==
    ASSUME CarefulInv, NEW h \in Handles, owns[h], pc = "idle",
           \A x \in Carved : x # ptr[h] => word'[x] = word[x],
           UNCHANGED <<mp, free, tail, header, ptr, owns, freed, pc, call>>
    PROVE  CarefulRest'
<1>1. /\ Len(freed) \in Nat
      /\ \A i \in 1..Len(freed) : word'[freed[i]] = word[freed[i]]
  BY OnTheList DEF CarefulInv, NoDoubleHandOut
<1>2. \A i \in 1..(Len(freed) - 1) : i \in 1..Len(freed)
  BY <1>1
<1>3. Len(freed) > 0 => Len(freed) \in 1..Len(freed)
  BY <1>1
<1>4. FreeListIsFreed'
  BY <1>1, <1>2, <1>3 DEF CarefulInv, FreeListIsFreed
<1> QED BY <1>4 DEF CarefulInv, CarefulRest, NoDoubleHandOut, Conservation,
           RefusesOnlyWhenFull, WalkOnList, ChunksHoldALink, ScanKnows, GetterIsEmpty, Carved

(* Only the pool itself appears, or nothing happens. *)
LEMMA CarefulUnchanged ==
    ASSUME CarefulInv,
           UNCHANGED <<mp, free, tail, header, word, ptr, owns, freed, pc, call>>
    PROVE  CarefulRest'
<1>1. /\ FreeListIsFreed' /\ NoDoubleHandOut' /\ Conservation' /\ RefusesOnlyWhenFull'
      /\ ChunksHoldALink' /\ GetterIsEmpty'
  BY DEF CarefulInv, FreeListIsFreed, NoDoubleHandOut, Conservation,
         RefusesOnlyWhenFull, ChunksHoldALink, GetterIsEmpty, Carved, Fits, MetaSize, Top,
         MaxAlloc
<1>2. WalkOnList' /\ ScanKnows'
  BY DEF CarefulInv, WalkOnList, WalkAt, ScanKnows, Fits, OnlyLastFits, MetaSize, Top
<1> QED BY <1>1, <1>2 DEF CarefulRest

LEMMA CarefulCreateDelete ==
    ASSUME CarefulInv, CreatePool \/ DeletePool
    PROVE  CarefulRest'
<1>1. CASE CreatePool
  <2>1. UNCHANGED <<mp, free, tail, header, word, ptr, owns, freed, pc, call>>
    BY <1>1 DEF CreatePool
  <2> QED BY <2>1, CarefulUnchanged
<1>2. CASE DeletePool
  <2>1. /\ Carved' = {} /\ freed' = <<>> /\ pc' = "idle" /\ free' = NULL
        /\ \A h \in Handles : ~owns'[h]
    BY <1>2 DEF DeletePool, Carved, NoChunks
  <2>2. FreeListIsFreed' /\ NoDoubleHandOut' /\ Conservation'
    BY <2>1 DEF FreeListIsFreed, NoDoubleHandOut, Conservation
  <2>3. /\ RefusesOnlyWhenFull' /\ WalkOnList' /\ ChunksHoldALink' /\ ScanKnows'
        /\ GetterIsEmpty'
    BY <2>1 DEF RefusesOnlyWhenFull, WalkOnList, ChunksHoldALink, ScanKnows, GetterIsEmpty
  <2> QED BY <2>2, <2>3 DEF CarefulRest
<1> QED BY <1>1, <1>2

---------------------------------------------------------------------------
(* No copy of a careful caller leaves the block. *)
LEMMA NoCopyOutside == ASSUME CarefulInv PROVE ~CopyOutside
  BY DEF CarefulInv, CopyMeant, Answering, CopyOutside

(* What a growth may copy is settled when it is asked for: the call keeps  *)
(* its pointer and its size.                                               *)
LEMMA CopyStaysMeant == ASSUME CarefulInv, [CarefulNext]_vars PROVE CopyMeant'
<1>1. CASE UNCHANGED vars
  BY <1>1 DEF vars, CarefulInv, CopyMeant, Answering, CopyInBlock
<1>2. ASSUME pc' = "idle" PROVE CopyMeant'
  BY <1>2 DEF CopyMeant, Answering
<1>3. ASSUME NEW h, NEW n, Get(h, n) PROVE CopyMeant'
  <2>1. call'.op = "get"
    BY <1>3 DEF Get, StartGet
  <2> QED BY <2>1 DEF CopyMeant
<1>4. ASSUME NEW h, NEW n \in GrowSizes, GrowByMoving(h, n), SafeGrow(h, n) PROVE CopyMeant'
  <2>1. UNCHANGED ptr /\ StartGet("grow", h, n)
    BY <1>4 DEF GrowByMoving
  <2>2. call'.h = h /\ call'.asked = n
    BY <2>1 DEF StartGet
  <2>3. ptr[h] + n <= PoolSize => CopyInBlock'
    BY <2>1, <2>2 DEF CopyInBlock
  <2>4. CASE MaxAlloc < n
    <3>1. MaxAlloc \in Int /\ n \in Nat
      BY PoolAssumption, SizesAssumption, MaxUint16Nat DEF MaxAlloc, MetaSize
    <3>2. ~(n <= MaxAlloc)
      BY <2>4, <3>1
    <3>3. pc' = "done" /\ call'.node = NULL
      BY <2>1, <3>2 DEF StartGet
    <3> QED BY <3>3 DEF CopyMeant, Answering
  <2>5. CASE ptr[h] + n <= PoolSize
    BY <2>3, <2>5 DEF CopyMeant
  <2> QED BY <1>4, <2>4, <2>5 DEF SafeGrow
<1>5. ASSUME NEW h, NEW n, GrowInPlace(h, n) PROVE CopyMeant'
  BY <1>2, <1>5 DEF GrowInPlace
<1>6. ASSUME NEW h, GrowToNothing(h) \/ DeleteChunk(h) \/ Write(h) PROVE CopyMeant'
  BY <1>2, <1>6 DEF GrowToNothing, DeleteChunk, Write
<1>7. CASE CreatePool
  BY <1>7 DEF CreatePool, CarefulInv, CopyMeant, Answering, CopyInBlock
<1>8. CASE DeletePool \/ ReturnGet \/ ReturnGrow
  BY <1>2, <1>8 DEF DeletePool, ReturnGet, ReturnGrow
<1>9. CASE ScanStep \/ ScanTake \/ ScanMiss \/ ScanWild
  <2>1. pc = "scan" /\ UNCHANGED ptr
    BY <1>9 DEF ScanStep, ScanTake, ScanMiss, ScanWild, Scanning
  <2>2. call'.op = call.op /\ call'.h = call.h /\ call'.asked = call.asked
    BY <1>9 DEF ScanStep, ScanTake, ScanMiss, ScanWild, CarefulInv, PoolInv, TypeOK
  <2>3. CopyInBlock' = CopyInBlock
    BY <2>1, <2>2 DEF CopyInBlock
  <2> QED BY <2>1, <2>2, <2>3 DEF CarefulInv, CopyMeant
<1> QED BY <1>1, <1>3, <1>4, <1>5, <1>6, <1>7, <1>8, <1>9, NoCopyOutside DEF CarefulNext, Continue

LEMMA CarefulStep == CarefulInv /\ [CarefulNext]_vars => CarefulInv'
<1> SUFFICES ASSUME CarefulInv, [CarefulNext]_vars PROVE CarefulInv'
  OBVIOUS
<1>1. PoolInv'
  BY CarefulIsPool, NextInv DEF CarefulInv
<1>2. CASE UNCHANGED vars
  <2>1. UNCHANGED <<mp, free, tail, header, word, ptr, owns, freed, pc, call>>
    BY <1>2 DEF vars
  <2>2. CarefulRest'
    BY <2>1, CarefulUnchanged
  <2> QED BY <1>1, <2>2, CopyStaysMeant DEF CarefulInv, CarefulRest
<1>3. ASSUME CarefulNext PROVE CarefulRest'
  <2>1. CASE CreatePool \/ DeletePool
    BY <2>1, CarefulCreateDelete
  <2>2. ASSUME NEW h \in Handles, NEW n \in Sizes, SafeRequest(n), Get(h, n)
        PROVE  CarefulRest'
    <3>1. n \in Nat /\ n > 0
      BY SizesAssumption
    <3>2. pc = "idle" /\ ~owns[h] /\ StartGet("get", h, n) /\ UNCHANGED <<pool, ptr, owns, freed>>
      BY <2>2 DEF Get
    <3> QED BY <2>2, <3>1, <3>2, CarefulStartGet
  <2>3. ASSUME NEW h \in Handles, NEW n \in GrowSizes, SafeRequest(n), GrowByMoving(h, n)
        PROVE  CarefulRest'
    <3>1. /\ pc = "idle" /\ owns[h] /\ StartGet("grow", h, n) /\ header[ptr[h]] < n
          /\ UNCHANGED <<pool, ptr, owns, freed>>
      BY <2>3 DEF GrowByMoving
    <3>2. n \in Nat
      BY SizesAssumption, MaxUint16Nat
    <3>3. MinAlloc <= header[ptr[h]] /\ header[ptr[h]] \in 0..MaxUint16
      BY <3>1 DEF CarefulInv, PoolInv, TypeOK, CallOK, ChunksHoldALink
    <3>4. header[ptr[h]] \in Nat
      BY ONLY <3>3, MaxUint16Nat
    <3>5. n > 0
      BY <3>1, <3>2, <3>4
    <3> QED BY <2>3, <3>1, <3>2, <3>5, CarefulStartGet
  <2>4. ASSUME NEW h \in Handles, NEW n \in GrowSizes, GrowInPlace(h, n), SafeShrink(h, n)
        PROVE  CarefulRest'
    <3>1. header' = header /\ \A x \in Carved : x # ptr[h] => word'[x] = word[x]
      BY <2>4, CarefulShrink
    <3>2. /\ owns[h] /\ pc = "idle"
          /\ UNCHANGED <<mp, free, tail, ptr, owns, freed, pc, call>>
      BY <2>4 DEF GrowInPlace
    <3> QED BY <3>1, <3>2, CarefulOwnChunk
  <2>5. ASSUME NEW h \in Handles, GrowToNothing(h) \/ DeleteChunk(h)
        PROVE  CarefulRest'
    BY <2>5, CarefulDelete
  <2>6. ASSUME NEW h \in Handles, Write(h)
        PROVE  CarefulRest'
    <3>1. /\ owns[h] /\ pc = "idle" /\ word' = [word EXCEPT ![ptr[h]] = Data]
          /\ UNCHANGED <<mp, free, tail, header, ptr, owns, freed, pc, call>>
      BY <2>6 DEF Write
    <3>2. \A x \in Carved : x # ptr[h] => word'[x] = word[x]
      BY <3>1 DEF CarefulInv, PoolInv, TypeOK
    <3> QED BY <3>1, <3>2, CarefulOwnChunk
  <2>7. CASE Continue
    BY <2>7, CarefulScan, CarefulReturn, NoCopyOutside DEF Continue
  <2>8. ASSUME NEW h \in Handles,
               \/ \E n \in {m \in Sizes : SafeRequest(m)} : Get(h, n)
               \/ \E n \in {m \in GrowSizes : SafeRequest(m)} : GrowByMoving(h, n) /\ SafeGrow(h, n)
               \/ \E n \in GrowSizes : GrowInPlace(h, n) /\ SafeShrink(h, n)
               \/ GrowToNothing(h)
               \/ DeleteChunk(h)
               \/ Write(h)
        PROVE  CarefulRest'
    <3>1. CASE \E n \in {m \in Sizes : SafeRequest(m)} : Get(h, n)
      <4>1. PICK n \in Sizes : SafeRequest(n) /\ Get(h, n)
        BY <3>1
      <4> QED BY <2>2, <4>1
    <3>2. CASE \E n \in {m \in GrowSizes : SafeRequest(m)} : GrowByMoving(h, n) /\ SafeGrow(h, n)
      <4>1. PICK n \in GrowSizes : SafeRequest(n) /\ GrowByMoving(h, n)
        BY <3>2
      <4> QED BY <2>3, <4>1
    <3>3. CASE \E n \in GrowSizes : GrowInPlace(h, n) /\ SafeShrink(h, n)
      <4>1. PICK n \in GrowSizes : GrowInPlace(h, n) /\ SafeShrink(h, n)
        BY <3>3
      <4> QED BY <2>4, <4>1
    <3>4. CASE GrowToNothing(h) \/ DeleteChunk(h)
      BY <2>5, <3>4
    <3>5. CASE Write(h)
      BY <2>6, <3>5
    <3> QED BY <2>8, <3>1, <3>2, <3>3, <3>4, <3>5
  <2>9. CASE CreatePool \/ DeletePool \/ Continue
    BY <2>1, <2>7, <2>9
  <2> QED BY <1>3, <2>8, <2>9 DEF CarefulNext
<1> QED BY <1>1, <1>2, <1>3, CopyStaysMeant DEF CarefulInv, CarefulRest

LEMMA CarefulInvariant == CarefulSpec => []CarefulInv
  BY CarefulInit, CarefulStep, PTL DEF CarefulSpec

(* Under careful callers the free list holds exactly the chunks given back *)
(* and not handed out since, oldest first, ending at __tail__.             *)
THEOREM ListIsQueue == CarefulSpec => []FreeListIsFreed
<1>1. CarefulInv => FreeListIsFreed
  BY DEF CarefulInv
<1> QED BY <1>1, CarefulInvariant, PTL

(* Under careful callers no chunk is handed to two callers, and none in    *)
(* use is on the list.                                                     *)
THEOREM HandedOutOnce == CarefulSpec => []NoDoubleHandOut
<1>1. CarefulInv => NoDoubleHandOut
  BY DEF CarefulInv
<1> QED BY <1>1, CarefulInvariant, PTL

(* Under careful callers no chunk is lost.                                 *)
THEOREM NothingLost == CarefulSpec => []Conservation
<1>1. CarefulInv => Conservation
  BY DEF CarefulInv
<1> QED BY <1>1, CarefulInvariant, PTL

(* Under careful callers memory within the limit is refused only when no   *)
(* free byte range and no recycled chunk holds it.                         *)
THEOREM RefusalsJustified == CarefulSpec => []RefusesOnlyWhenFull
<1>1. CarefulInv => RefusesOnlyWhenFull
  BY DEF CarefulInv
<1> QED BY <1>1, CarefulInvariant, PTL

(* Under careful callers the walk never leaves the list.                   *)
THEOREM WalkStays == CarefulSpec => []WalkOnList
<1>1. CarefulInv => WalkOnList
  BY DEF CarefulInv
<1> QED BY <1>1, CarefulInvariant, PTL

---------------------------------------------------------------------------
(* The pool implements ChunkQueue: carving, walking the list and linking   *)
(* chunks amount to a queue served first fit.                              *)

(* What the mapping needs besides CarefulInv: a call runs in a pool, and   *)
(* asks for a size that callers ask for                                    *)
CallMeant ==
    /\ pc # "idle" => pool = "open"
    /\ pc = "scan" => call.size \in {AlignUp(n) : n \in Sizes \cup GrowSizes}

(* The abstract queue and what callers hold *)
QueueNow == IF Answering /\ call.op = "grow" THEN Append(freed, ptr[call.h]) ELSE freed
HeldNow == [h \in Handles |-> IF Answering /\ call.h = h THEN call.node
                              ELSE IF owns[h] THEN ptr[h] ELSE NULL]

---------------------------------------------------------------------------
LEMMA MeantStep == CarefulInv /\ CallMeant /\ [CarefulNext]_vars => CallMeant'
<1> SUFFICES ASSUME CarefulInv, CallMeant, [CarefulNext]_vars PROVE CallMeant'
  OBVIOUS
<1>1. CASE UNCHANGED vars
  BY <1>1 DEF vars, CallMeant
<1>2. ASSUME NEW op, NEW h, NEW n \in Sizes \cup GrowSizes,
             pool = "open", pool' = pool, StartGet(op, h, n)
      PROVE  CallMeant'
  BY <1>2 DEF StartGet, CallMeant
<1>3. CASE CreatePool \/ DeletePool
  BY <1>3 DEF CreatePool, DeletePool, CallMeant
<1>4. CASE Continue
  <2>1. pool' = pool /\ (pc' = "scan" => ScanStep)
    BY <1>4 DEF Continue, ScanStep, ScanTake, ScanMiss, ScanWild, ReturnGet, ReturnGrow,
               CopyOutside
  <2>2. pc # "idle"
    BY <1>4 DEF Continue, ScanStep, ScanTake, ScanMiss, ScanWild, Scanning, ReturnGet, ReturnGrow,
               CopyOutside
  <2>3. ASSUME ScanStep PROVE pc = "scan" /\ call'.size = call.size
    <3>1. call' = [call EXCEPT !.prev = call.node, !.node = word[call.node]] /\ pc = "scan"
      BY <2>3 DEF ScanStep, Scanning
    <3> QED BY <3>1 DEF CarefulInv, PoolInv, TypeOK
  <2> QED BY <2>1, <2>2, <2>3 DEF CallMeant
<1>5. ASSUME NEW h \in Handles,
             \/ \E n \in GrowSizes : GrowInPlace(h, n)
             \/ GrowToNothing(h) \/ DeleteChunk(h) \/ Write(h)
      PROVE  CallMeant'
  BY <1>5 DEF GrowInPlace, GrowToNothing, DeleteChunk, Write, CallMeant
<1>6. ASSUME NEW h \in Handles,
             \/ \E n \in {m \in Sizes : SafeRequest(m)} : Get(h, n)
             \/ \E n \in {m \in GrowSizes : SafeRequest(m)} : GrowByMoving(h, n)
      PROVE  CallMeant'
  BY <1>2, <1>6 DEF Get, GrowByMoving
<1> QED BY <1>1, <1>3, <1>4, <1>5, <1>6 DEF CarefulNext

LEMMA MeantAlways == CarefulSpec => []CallMeant
<1>1. Init => CallMeant
  BY DEF Init, CallMeant
<1> QED BY <1>1, MeantStep, CarefulInvariant, PTL DEF CarefulSpec

(* Nothing callers could tell changes *)
LEMMA Silent ==
    ASSUME pool' = pool, header' = header, QueueNow' = QueueNow, HeldNow' = HeldNow
    PROVE  UNCHANGED Queue!vars
<1> QED BY DEF Queue!vars, QueueNow, HeldNow

(* What the answer of a running call changes for its caller *)
LEMMA AnswerHeld ==
    ASSUME NEW h \in Handles, call'.h = h, call'.node # NULL, pc' = "done", pc # "done",
           UNCHANGED <<ptr, owns>>
    PROVE  HeldNow' = [HeldNow EXCEPT ![h] = call'.node]
<1>1. Answering' /\ ~Answering
  BY DEF Answering
<1> QED BY <1>1 DEF HeldNow

(* A call that has not answered, or answers nothing, shows nothing *)
LEMMA NotAnswering ==
    ASSUME ~Answering, ~Answering', UNCHANGED <<pool, header, ptr, owns, freed>>
    PROVE  UNCHANGED Queue!vars
<1>1. QueueNow' = QueueNow /\ HeldNow' = HeldNow
  BY DEF QueueNow, HeldNow
<1> QED BY <1>1, Silent

---------------------------------------------------------------------------
(* The steps *)

LEMMA SameHands ==
    ASSUME CarefulInv, CallMeant
    PROVE  /\ Queue!vars = <<pool = "open", header, QueueNow, HeldNow>>
           /\ \A h \in Handles : ~Answering => HeldNow[h] = IF owns[h] THEN ptr[h] ELSE NULL
           /\ ~Answering => QueueNow = freed
           /\ \A h \in Handles : owns[h] => ptr[h] \in Carved /\ ptr[h] # NULL
<1>1. \A h \in Handles : owns[h] => ptr[h] \in Carved /\ ptr[h] # NULL
  BY ValuesAssumption DEF CarefulInv, PoolInv, CallOK, TypeOK
<1> QED BY <1>1 DEF Queue!vars, QueueNow, HeldNow

(* A chunk is carved: the caller gets it, and a caller that grows gives    *)
(* the old one back                                                        *)
LEMMA CarveStep ==
    ASSUME CarefulInv, CallMeant, pool = "open", pc = "idle",
           NEW h \in Handles, NEW n \in Sizes \cup GrowSizes, NEW op \in {"get", "grow"},
           op = "get" <=> ~owns[h],
           StartGet(op, h, n), UNCHANGED <<pool, ptr, owns, freed>>
    PROVE  [Queue!Next]_(Queue!vars)
<1> DEFINE size == AlignUp(n)
           new == mp + MetaSize
<1>1. ~Answering
  BY DEF Answering
<1>2. \/ UNCHANGED <<header>> /\ ~Answering'
      \/ /\ mp + size + MetaSize <= Top
         /\ header' = [c \in Carved \cup {new} |-> IF c = new THEN size ELSE header[c]]
         /\ pc' = "done" /\ call'.op = op /\ call'.h = h /\ call'.node = new
  <2> HIDE DEF size
  <2> QED BY DEF StartGet, Answering, Fits, state, size
<1>3. CASE UNCHANGED header /\ ~Answering'
  BY <1>1, <1>3, NotAnswering
<1>4. CASE /\ mp + size + MetaSize <= Top
           /\ header' = [c \in Carved \cup {new} |-> IF c = new THEN size ELSE header[c]]
           /\ pc' = "done" /\ call'.op = op /\ call'.h = h /\ call'.node = new
  <2>1. size \in Nat /\ size \in {AlignUp(m) : m \in Sizes \cup GrowSizes}
    <3>1. n \in Nat
      BY SizesAssumption, MaxUint16Nat
    <3> QED BY <3>1, AlignUpNat
  <2> HIDE DEF size
  <2>2. new \in Nat /\ new \in HeaderSize..Top /\ new \notin Carved /\ new # NULL
    <3>1. /\ mp \in Nat /\ HeaderSize <= mp /\ Carved \subseteq Nat
          /\ header \in [Carved -> 0..MaxUint16]
          /\ \A c \in Carved : c + header[c] <= mp
      BY DEF CarefulInv, PoolInv, TypeOK, ChunksInPool
    <3>2. \A c \in Carved : header[c] \in Nat
      BY <3>1, MaxUint16Nat
    <3>3. new \in Nat /\ new \in HeaderSize..Top /\ new \notin Carved
      BY <1>4, <2>1, <3>1, <3>2, PoolAssumption DEF MetaSize, Top
    <3> QED BY <3>3, ValuesAssumption
  <2> HIDE DEF new
  <2>3. Answering' /\ HeldNow' = [HeldNow EXCEPT ![h] = new]
    <3>1. pc' = "done" /\ pc # "done" /\ call'.h = h /\ call'.node = new
      BY <1>4
    <3> QED BY <2>2, <3>1, AnswerHeld DEF Answering
  <2>4. HeldNow[h] = IF owns[h] THEN ptr[h] ELSE NULL
    BY <1>1, SameHands
  <2>5. QueueNow = freed /\ freed \in Seq(Carved)
    BY <1>1, SameHands DEF CarefulInv, PoolInv, TypeOK
  <2>6. CASE op = "get"
    <3>1. QueueNow' = QueueNow \o <<>>
      BY <1>4, <2>5, <2>6 DEF QueueNow
    <3>2. Queue!Carve(h, size, <<>>)
      BY <1>4, <2>2, <2>3, <3>1 DEF Queue!Carve, Queue!Made, QueueNow, HeldNow, Carved
    <3>3. Queue!Get(h)
      BY <2>1, <2>4, <2>6, <3>2 DEF Queue!Get, Queue!Serve, HeldNow
    <3> QED BY <3>3 DEF Queue!Next
  <2>7. CASE op = "grow"
    <3>1. HeldNow[h] = ptr[h] /\ ptr[h] # NULL /\ ptr[h] \in Carved
      BY <2>4, <2>7, SameHands
    <3>2. QueueNow' = QueueNow \o <<HeldNow[h]>>
      <4>1. QueueNow' = Append(freed, ptr[h])
        BY <1>4, <2>3, <2>7 DEF QueueNow
      <4> QED BY <2>5, <3>1, <4>1
    <3>3. Queue!Carve(h, size, <<HeldNow[h]>>)
      BY <1>4, <2>2, <2>3, <3>2 DEF Queue!Carve, Queue!Made, QueueNow, HeldNow, Carved
    <3>4. Queue!Swap(h)
      BY <2>1, <3>1, <3>3 DEF Queue!Swap, Queue!Serve, HeldNow
    <3> QED BY <3>4 DEF Queue!Next
  <2> QED BY <2>6, <2>7
<1> QED BY <1>2, <1>3, <1>4

(* A chunk of the queue goes to a caller, in the terms of ChunkQueue *)
LEMMA ReuseMeans ==
    ASSUME NEW h, NEW n, NEW back, NEW i \in 1..Len(QueueNow), Queue!FirstFit(n, i),
           QueueNow' = RemoveAt(QueueNow, i) \o back,
           HeldNow' = [HeldNow EXCEPT ![h] = QueueNow[i]], header' = header
    PROVE  Queue!Reuse(h, n, back)
<1>1. RemoveAt(QueueNow, i) = Queue!RemoveAt(QueueNow, i)
  BY Zenon DEF RemoveAt, Queue!RemoveAt
<1>2. \E j \in 1..Len(QueueNow) :
         /\ Queue!FirstFit(n, j)
         /\ QueueNow' = Queue!RemoveAt(QueueNow, j) \o back
         /\ HeldNow' = [HeldNow EXCEPT ![h] = QueueNow[j]]
         /\ UNCHANGED header
  BY <1>1, Zenon
<1> QED BY ONLY <1>2 DEF Queue!Reuse, QueueNow, HeldNow

(* A recycled chunk is found: it is the oldest one that is large enough *)
LEMMA TakeStep ==
    ASSUME CarefulInv, CallMeant, ScanTake
    PROVE  [Queue!Next]_(Queue!vars)
<1> DEFINE h == call.h
           n == Len(freed)
<1>1. /\ pc = "scan" /\ pc' = "done" /\ call.node \in Carved /\ call.node # NULL
      /\ ~TooSmall(call.node) /\ Withdraw(call.node)
      /\ UNCHANGED <<pool, header, ptr, owns, call>>
      /\ h \in Handles /\ call.op \in {"get", "grow"}
      /\ call.op = "grow" => owns[h]
      /\ call.op = "get" => ~owns[h]
      /\ pool = "open" /\ call.size \in {AlignUp(k) : k \in Sizes \cup GrowSizes}
  BY ValuesAssumption
     DEF ScanTake, Scanning, CarefulInv, PoolInv, TypeOK, CallOK, GetterIsEmpty, CallMeant
<1>2. PICK i \in 1..(n + 1) : WalkAt(i)
  BY <1>1 DEF CarefulInv, WalkOnList
<1>3. /\ n \in Nat /\ freed \in Seq(Carved)
      /\ \A j, k \in 1..n : freed[j] = freed[k] => j = k
  BY OnTheList DEF CarefulInv, NoDoubleHandOut
<1>4. i \in 1..n /\ call.node = freed[i] /\ \A j \in 1..(i - 1) : header[freed[j]] < call.size
  BY <1>1, <1>2, <1>3 DEF WalkAt
<1>5. freed' = RemoveAt(freed, i)
  <2>1. ASSUME NEW k \in 1..n, freed[k] = call.node PROVE k = i
    BY <1>3, <1>4, <2>1
  <2>2. GivenBack(call.node)
    BY <1>4 DEF GivenBack
  <2> QED BY <1>1, <2>1, <2>2 DEF Withdraw
<1>6. header[freed[i]] >= call.size
  <2>1. header[freed[i]] \in 0..MaxUint16 /\ call.size \in Nat
    BY <1>1, <1>4 DEF CarefulInv, PoolInv, TypeOK
  <2>2. header[freed[i]] \in Nat
    BY ONLY <2>1, MaxUint16Nat
  <2> QED BY <1>1, <1>4, <2>1, <2>2 DEF TooSmall
<1>7. ~Answering /\ Answering'
  BY <1>1 DEF Answering
<1>8. HeldNow[h] = (IF owns[h] THEN ptr[h] ELSE NULL) /\ QueueNow = freed
  BY <1>1, <1>7, SameHands
<1>9. HeldNow' = [HeldNow EXCEPT ![h] = QueueNow[i]]
  BY <1>1, <1>4, <1>8, AnswerHeld
<1>10. Queue!FirstFit(call.size, i)
  BY <1>4, <1>6, <1>8 DEF Queue!FirstFit, QueueNow
<1>11. RemoveAt(freed, i) \in Seq(Carved)
  BY <1>3, <1>4, Removed
<1>12. CASE call.op = "get"
  <2>1. QueueNow' = RemoveAt(QueueNow, i) \o <<>>
    <3>1. QueueNow' = RemoveAt(freed, i)
      BY <1>1, <1>5, <1>12 DEF QueueNow
    <3> QED BY <1>8, <1>11, <3>1, ConcatEmptySeq
  <2>2. Queue!Reuse(h, call.size, <<>>)
    BY <1>1, <1>4, <1>8, <1>9, <1>10, <2>1, ReuseMeans
  <2>3. Queue!Get(h)
    BY <1>1, <1>8, <1>12, <2>2 DEF Queue!Get, Queue!Serve, HeldNow
  <2> QED BY <1>1, <2>3 DEF Queue!Next
<1>13. CASE call.op = "grow"
  <2>1. HeldNow[h] = ptr[h] /\ ptr[h] # NULL /\ ptr[h] \in Carved
    BY <1>1, <1>8, <1>13, SameHands
  <2>2. QueueNow' = RemoveAt(QueueNow, i) \o <<HeldNow[h]>>
    <3>1. QueueNow' = Append(RemoveAt(freed, i), ptr[h])
      BY <1>1, <1>5, <1>7, <1>13 DEF QueueNow
    <3> QED BY <1>8, <1>11, <2>1, <3>1, AppendIsConcat
  <2>3. Queue!Reuse(h, call.size, <<HeldNow[h]>>)
    <3>1. PICK back : back = <<HeldNow[h]>>
      OBVIOUS
    <3>2. /\ i \in 1..Len(QueueNow) /\ QueueNow' = RemoveAt(QueueNow, i) \o back
          /\ header' = header
      BY <1>1, <1>4, <1>8, <2>2, <3>1
    <3>3. Queue!Reuse(h, call.size, back)
      BY <1>9, <1>10, <3>2, ReuseMeans
    <3> QED BY <3>1, <3>3 DEF Queue!Reuse
  <2>4. Queue!Swap(h)
    BY <1>1, <2>1, <2>3 DEF Queue!Swap, Queue!Serve, HeldNow
  <2> QED BY <1>1, <2>4 DEF Queue!Next
<1> QED BY <1>1, <1>12, <1>13

(* A chunk in use is on no list, so that recycling it puts it at the end *)
LEMMA UsedIsAppended ==
    ASSUME CarefulInv, NEW h \in Handles, owns[h], NEW w, Recycle(ptr[h], w)
    PROVE  freed' = Append(freed, ptr[h])
<1>1. ~GivenBack(ptr[h])
  BY DEF GivenBack, CarefulInv, NoDoubleHandOut
<1> QED BY <1>1 DEF Recycle

(* The call returns: its caller is told what it already holds *)
LEMMA ReturnStep ==
    ASSUME CarefulInv, CallMeant, ReturnGet \/ ReturnGrow
    PROVE  UNCHANGED Queue!vars
<1>1. /\ UNCHANGED <<pool, header>> /\ pc = "done" /\ pc' = "idle"
      /\ call.h \in Handles
      /\ call.op = "grow" => owns[call.h]
      /\ call.op = "get" => ~owns[call.h]
      /\ owns \in [Handles -> BOOLEAN] /\ ptr \in [Handles -> Carved \cup {NULL}]
  BY DEF ReturnGet, ReturnGrow, CarefulInv, PoolInv, TypeOK, CallOK, GetterIsEmpty
<1>2. ~Answering' /\ (Answering <=> call.node # NULL)
  BY <1>1 DEF Answering
<1>3. CASE ReturnGet
  <2>1. /\ freed' = freed /\ call.op = "get"
        /\ ptr' = [ptr EXCEPT ![call.h] = call.node]
        /\ owns' = [owns EXCEPT ![call.h] = call.node # NULL]
    BY <1>3 DEF ReturnGet
  <2>2. QueueNow' = QueueNow
    BY <1>2, <2>1 DEF QueueNow
  <2>3. HeldNow' = HeldNow
    BY <1>1, <1>2, <2>1 DEF HeldNow
  <2> QED BY <1>1, <2>2, <2>3, Silent
<1>4. CASE ReturnGrow /\ call.node = NULL
  <2>1. UNCHANGED <<ptr, freed, owns>>
    BY <1>4 DEF ReturnGrow
  <2> QED BY <1>1, <1>2, <1>4, <2>1, NotAnswering
<1>5. CASE ReturnGrow /\ call.node # NULL
  <2>1. /\ Recycle(ptr[call.h], [word EXCEPT ![call.node] = word[ptr[call.h]]])
        /\ owns' = owns /\ call.op = "grow" /\ owns[call.h]
        /\ ptr' = [ptr EXCEPT ![call.h] = call.node]
    BY <1>1, <1>5 DEF ReturnGrow
  <2>2. freed' = Append(freed, ptr[call.h])
    BY <1>1, <2>1, UsedIsAppended
  <2>3. QueueNow' = QueueNow
    BY <1>2, <1>5, <2>1, <2>2 DEF QueueNow
  <2>4. HeldNow' = HeldNow
    BY <1>1, <1>2, <1>5, <2>1 DEF HeldNow
  <2> QED BY <1>1, <2>3, <2>4, Silent
<1> QED BY <1>3, <1>4, <1>5

(* A chunk is given back *)
LEMMA PutStep ==
    ASSUME CarefulInv, CallMeant, NEW h \in Handles, DeleteChunk(h) \/ GrowToNothing(h)
    PROVE  [Queue!Next]_(Queue!vars)
<1>1. /\ UNCHANGED <<pool, header, pc, call>> /\ pc = "idle" /\ pool = "open"
      /\ Recycle(ptr[h], word) /\ owns[h]
      /\ owns' = [owns EXCEPT ![h] = FALSE]
      /\ \A g \in Handles : g # h => ptr'[g] = ptr[g]
      /\ owns \in [Handles -> BOOLEAN]
  BY NoStaleDeletes DEF DeleteChunk, GrowToNothing, CarefulInv, PoolInv, TypeOK
<1>2. ~Answering /\ ~Answering'
  BY <1>1 DEF Answering
<1>3. HeldNow[h] = ptr[h] /\ ptr[h] # NULL /\ QueueNow = freed
  BY <1>1, <1>2, SameHands
<1>4. QueueNow' = Append(QueueNow, HeldNow[h])
  BY <1>1, <1>2, <1>3, UsedIsAppended DEF QueueNow
<1>5. HeldNow' = [HeldNow EXCEPT ![h] = NULL]
  BY <1>1, <1>2 DEF HeldNow
<1>6. Queue!Put(h)
  BY <1>1, <1>3, <1>4, <1>5 DEF Queue!Put, QueueNow, HeldNow
<1> QED BY <1>6 DEF Queue!Next

(* The pool itself comes and goes *)
LEMMA PoolStep ==
    ASSUME CarefulInv, CallMeant, CreatePool \/ DeletePool
    PROVE  [Queue!Next]_(Queue!vars)
<1>1. CASE CreatePool
  <2>1. QueueNow' = QueueNow /\ HeldNow' = HeldNow /\ header' = header
    BY <1>1 DEF CreatePool, QueueNow, HeldNow, Answering
  <2>2. pool' = pool => UNCHANGED Queue!vars
    BY <2>1, Silent
  <2>3. pool' # pool => Queue!Open
    BY <1>1, <2>1 DEF CreatePool, Queue!Open, QueueNow, HeldNow
  <2> QED BY <2>2, <2>3 DEF Queue!Next
<1>2. CASE DeletePool
  <2>1. /\ pool = "open" /\ pool' = "none" /\ pc' = "idle"
        /\ header' = [c \in {} |-> 0] /\ freed' = <<>>
        /\ owns' = [h \in Handles |-> FALSE]
    BY <1>2 DEF DeletePool, NoChunks
  <2>2. ~Answering'
    BY <2>1 DEF Answering
  <2>3. QueueNow' = <<>> /\ HeldNow' = [h \in Handles |-> NULL]
    BY <2>1, <2>2 DEF QueueNow, HeldNow
  <2>4. Queue!Close
    BY <2>1, <2>3 DEF Queue!Close, QueueNow, HeldNow
  <2> QED BY <2>4 DEF Queue!Next
<1> QED BY <1>1, <1>2

LEMMA QueueStep ==
    CarefulInv /\ CallMeant /\ [CarefulNext]_vars => [Queue!Next]_(Queue!vars)
<1> SUFFICES ASSUME CarefulInv, CallMeant, [CarefulNext]_vars
             PROVE  [Queue!Next]_(Queue!vars)
  OBVIOUS
<1>1. CASE UNCHANGED vars
  <2>1. pool' = pool /\ header' = header /\ QueueNow' = QueueNow /\ HeldNow' = HeldNow
    BY <1>1 DEF vars, QueueNow, HeldNow, Answering
  <2> QED BY <2>1, Silent
<1>2. CASE CreatePool \/ DeletePool
  BY <1>2, PoolStep
<1>3. ASSUME NEW h \in Handles, NEW n \in Sizes, Get(h, n)
      PROVE  [Queue!Next]_(Queue!vars)
  <2>1. /\ pool = "open" /\ pc = "idle" /\ ~owns[h] /\ StartGet("get", h, n)
        /\ UNCHANGED <<pool, ptr, owns, freed>>
    BY <1>3 DEF Get
  <2> QED BY <2>1, CarveStep
<1>4. ASSUME NEW h \in Handles, NEW n \in GrowSizes, GrowByMoving(h, n)
      PROVE  [Queue!Next]_(Queue!vars)
  <2>1. /\ pool = "open" /\ pc = "idle" /\ owns[h] /\ StartGet("grow", h, n)
        /\ UNCHANGED <<pool, ptr, owns, freed>>
    BY <1>4 DEF GrowByMoving
  <2> QED BY <2>1, CarveStep
<1>5. ASSUME NEW h \in Handles, NEW n \in GrowSizes, GrowInPlace(h, n), SafeShrink(h, n)
      PROVE  [Queue!Next]_(Queue!vars)
  <2>1. header' = header /\ pc = "idle" /\ UNCHANGED <<pool, ptr, owns, freed, pc, call>>
    BY <1>5, CarefulShrink DEF GrowInPlace
  <2>2. ~Answering /\ ~Answering'
    BY <2>1 DEF Answering
  <2> QED BY <2>1, <2>2, NotAnswering
<1>6. ASSUME NEW h \in Handles, Write(h)
      PROVE  [Queue!Next]_(Queue!vars)
  <2>1. header' = header /\ pc = "idle" /\ UNCHANGED <<pool, ptr, owns, freed, pc, call>>
    BY <1>6 DEF Write
  <2>2. ~Answering /\ ~Answering'
    BY <2>1 DEF Answering
  <2> QED BY <2>1, <2>2, NotAnswering
<1>7. CASE Continue
  <2>1. CASE ScanStep
    <3>1. pc = "scan" /\ UNCHANGED <<pool, header, ptr, owns, freed, pc>>
      BY <2>1 DEF ScanStep, Scanning
    <3>2. ~Answering /\ ~Answering'
      BY <3>1 DEF Answering
    <3> QED BY <3>1, <3>2, NotAnswering
  <2>2. CASE ScanMiss
    <3>1. /\ pc = "scan" /\ call.node = NULL
          /\ UNCHANGED <<pool, header, ptr, owns, freed, call>>
      BY <2>2 DEF ScanMiss, Scanning
    <3>2. ~Answering /\ ~Answering'
      BY <3>1 DEF Answering
    <3> QED BY <3>1, <3>2, NotAnswering
  <2>3. CASE ScanWild
    <3>1. pc = "scan" /\ pc' = "wild" /\ UNCHANGED <<pool, header, ptr, owns, freed>>
      BY <2>3 DEF ScanWild, Scanning
    <3>2. ~Answering /\ ~Answering'
      BY <3>1 DEF Answering
    <3> QED BY <3>1, <3>2, NotAnswering
  <2> QED BY <1>7, <2>1, <2>2, <2>3, TakeStep, ReturnStep, NoCopyOutside DEF Continue
<1>8. ASSUME NEW h \in Handles, GrowToNothing(h) \/ DeleteChunk(h)
      PROVE  [Queue!Next]_(Queue!vars)
  BY <1>8, PutStep
<1> QED BY <1>1, <1>2, <1>3, <1>4, <1>5, <1>6, <1>7, <1>8, Zenon DEF CarefulNext

(* Under careful callers the pool is the queue of ChunkQueue: no request   *)
(* is served but by a new chunk or the oldest large enough                 *)
(* (client.c:386-523), whatever sizes and callers there are.               *)
THEOREM PoolIsQueue == CarefulSpec => ImplementsQueue
<1>1. Init => Queue!Init
  <2> SUFFICES ASSUME Init PROVE Queue!Init
    OBVIOUS
  <2>1. /\ pool = "none" /\ header = [c \in {} |-> 0] /\ freed = <<>> /\ pc = "idle"
        /\ owns = [h \in Handles |-> FALSE]
    BY DEF Init, NoChunks
  <2>2. ~Answering
    BY <2>1 DEF Answering
  <2>3. QueueNow = <<>> /\ HeldNow = [h \in Handles |-> NULL]
    BY <2>1, <2>2 DEF QueueNow, HeldNow
  <2> QED BY <2>1, <2>3 DEF Queue!Init, QueueNow, HeldNow
<1>2. CarefulInv /\ CallMeant /\ [CarefulNext]_vars => [Queue!Next]_(Queue!vars)
  BY QueueStep
<1> QED BY <1>1, <1>2, CarefulInvariant, MeantAlways, PTL
    DEF CarefulSpec, ImplementsQueue, Queue!Spec

---------------------------------------------------------------------------
(* Callers who ask for one capacity, and shrink a chunk to no less than    *)
(* half of it, as webdriverObject does with its tables (client.c:552-563). *)
OneCapacity(cap) ==
    /\ \A n \in Sizes : AlignUp(n) = cap
    /\ \A n \in GrowSizes : n = 0 \/ (n <= cap /\ cap <= 2 * n)

AllAlike(cap) == \A c \in Carved : header[c] = cap

(* Where all chunks are alike, never only the last of them is large enough,*)
(* so every step of such a caller is a careful one.                        *)
LEMMA OneSizeStep ==
    ASSUME NEW cap, OneCapacity(cap), CarefulInv, AllAlike(cap), [Next]_vars
    PROVE  [CarefulNext]_vars /\ AllAlike(cap)'
<1>1. /\ header \in [Carved -> 0..MaxUint16]
      /\ \A c \in Carved : header[c] = cap /\ header[c] \in Nat
      /\ \A h \in Handles : owns[h] => ptr[h] \in Carved
  <2>1. header \in [Carved -> 0..MaxUint16] /\ \A h \in Handles : owns[h] => ptr[h] \in Carved
    BY DEF CarefulInv, PoolInv, TypeOK, CallOK
  <2> QED BY <2>1, MaxUint16Nat DEF AllAlike
<1>2. ASSUME NEW n \in Sizes PROVE SafeRequest(n)
  <2>1. AlignUp(n) = cap
    BY DEF OneCapacity
  <2>2. ~OnlyLastFits(cap)
    <3> SUFFICES ASSUME OnlyLastFits(cap) PROVE FALSE
      OBVIOUS
    <3> DEFINE last == Len(freed)
    <3>1. last \in Nat /\ \A i \in 1..last : freed[i] \in Carved
      BY OnTheList
    <3>2. last > 1 /\ \A i \in 1..(last - 1) : header[freed[i]] < cap
      BY DEF OnlyLastFits
    <3>3. 1 \in 1..last /\ 1 \in 1..(last - 1)
      BY <3>1, <3>2
    <3>4. header[freed[1]] < cap /\ header[freed[1]] = cap /\ header[freed[1]] \in Nat
      BY <1>1, <3>1, <3>2, <3>3
    <3> QED BY <3>4
  <2> QED BY <2>1, <2>2 DEF SafeRequest
<1>3. ASSUME header' = header PROVE AllAlike(cap)'
  BY <1>3 DEF AllAlike, Carved
<1>4. CASE UNCHANGED vars
  BY <1>3, <1>4 DEF vars
<1>5. CASE CreatePool
  BY <1>3, <1>5 DEF CreatePool, CarefulNext
<1>6. CASE DeletePool
  <2>1. Carved' = {}
    BY <1>6 DEF DeletePool, Carved, NoChunks
  <2> QED BY <1>6, <2>1 DEF CarefulNext, AllAlike
<1>7. ASSUME NEW h \in Handles, NEW n \in Sizes, Get(h, n)
      PROVE  CarefulNext /\ AllAlike(cap)'
  <2>1. CarefulNext
    BY <1>2, <1>7 DEF CarefulNext
  <2>2. \/ header' = header
        \/ header' = [c \in Carved \cup {mp + MetaSize} |->
                         IF c = mp + MetaSize THEN AlignUp(n) ELSE header[c]]
    BY <1>7 DEF Get, StartGet, state
  <2>3. AlignUp(n) = cap
    BY DEF OneCapacity
  <2>4. AllAlike(cap)'
    BY <1>3, <2>2, <2>3 DEF AllAlike, Carved
  <2> QED BY <2>1, <2>4
<1>8. ASSUME NEW h \in Handles, NEW n \in GrowSizes, GrowByMoving(h, n) PROVE FALSE
  <2>1. ptr[h] \in Carved /\ header[ptr[h]] < n
    BY <1>1, <1>8 DEF GrowByMoving
  <2>2. n \in Nat /\ header[ptr[h]] = cap /\ cap \in Nat /\ (n = 0 \/ n <= cap)
    BY <1>1, <2>1, SizesAssumption, MaxUint16Nat DEF OneCapacity
  <2> QED BY <2>1, <2>2
<1>9. ASSUME NEW h \in Handles, NEW n \in GrowSizes, GrowInPlace(h, n)
      PROVE  CarefulNext /\ AllAlike(cap)'
  <2>1. SafeShrink(h, n)
    <3>1. n # 0 /\ ptr[h] \in Carved
      BY <1>1, <1>9 DEF GrowInPlace
    <3> QED BY <1>1, <3>1 DEF SafeShrink, OneCapacity
  <2>2. header' = header
    BY <1>9, <2>1, CarefulShrink
  <2> QED BY <1>3, <1>9, <2>1, <2>2 DEF CarefulNext
<1>10. ASSUME NEW h \in Handles, GrowToNothing(h) \/ DeleteChunk(h) \/ Write(h)
       PROVE  CarefulNext /\ AllAlike(cap)'
  <2>1. header' = header
    BY <1>10 DEF GrowToNothing, DeleteChunk, Write
  <2> QED BY <1>3, <1>10, <2>1 DEF CarefulNext
<1>11. CASE Continue
  <2>1. header' = header
    BY <1>11 DEF Continue, ScanStep, ScanTake, ScanMiss, ScanWild, ReturnGet, ReturnGrow,
                CopyOutside
  <2> QED BY <1>3, <1>11, <2>1 DEF CarefulNext
<1>12. ASSUME NEW h \in Handles, NEW n \in GrowSizes, ShrinkOutside(h, n) PROVE FALSE
  <2>1. ptr[h] \in Carved /\ n # 0 /\ ClearedUpTo(h, n) > PoolSize
    BY <1>1, <1>12 DEF ShrinkOutside
  <2>2. /\ ptr[h] \in Nat /\ mp \in Nat /\ n \in Nat
        /\ header[ptr[h]] = cap /\ cap \in Nat /\ cap <= 2 * n
        /\ ptr[h] + header[ptr[h]] <= mp /\ mp <= Top
    <3>1. n \in 0..MaxUint16 /\ cap <= 2 * n
      BY <2>1, SizesAssumption DEF OneCapacity
    <3>2. n \in Nat
      BY ONLY <3>1, MaxUint16Nat
    <3>3. header[ptr[h]] = cap /\ cap \in Nat
      BY <1>1, <2>1
    <3>4. ptr[h] \in Nat /\ mp \in Nat /\ ptr[h] + header[ptr[h]] <= mp /\ mp <= Top
      BY <2>1 DEF CarefulInv, PoolInv, TypeOK, ChunksInPool
    <3> QED BY <3>1, <3>2, <3>3, <3>4
  <2>3. ClearedUpTo(h, n) = ptr[h] + 2 * (cap - n)
    BY <2>2 DEF ClearedUpTo, GivenUp
  <2> DEFINE c == ptr[h]
  <2>4. c \in Nat /\ c + cap <= mp /\ c + 2 * (cap - n) > PoolSize
    BY <2>1, <2>2, <2>3
  <2> HIDE DEF c
  <2> QED BY ONLY <2>2, <2>4, PoolAssumption DEF Top
<1>13. ASSUME NEW h \in Handles,
              \/ \E n \in Sizes : Get(h, n)
              \/ \E n \in GrowSizes : GrowInPlace(h, n) \/ ShrinkOutside(h, n) \/ GrowByMoving(h, n)
              \/ GrowToNothing(h) \/ DeleteChunk(h) \/ Write(h)
       PROVE  CarefulNext /\ AllAlike(cap)'
  BY <1>7, <1>8, <1>9, <1>10, <1>12, <1>13, Zenon
<1> QED BY <1>4, <1>5, <1>6, <1>11, <1>13, Zenon DEF Next

(* Callers who ask for one capacity need no discipline: whatever they do   *)
(* with their own chunks is careful (client.c:552, 397-398).               *)
THEOREM OneSizeIsCareful ==
    ASSUME NEW CONSTANT cap, OneCapacity(cap) PROVE Spec => CarefulSpec
<1>1. Init => AllAlike(cap)
  BY DEF Init, AllAlike, Carved, NoChunks
<1>2. CarefulInv /\ AllAlike(cap) /\ [Next]_vars => [CarefulNext]_vars /\ AllAlike(cap)'
  BY OneSizeStep
<1>3. CarefulInv /\ [CarefulNext]_vars => CarefulInv'
  BY CarefulStep
<1> QED BY <1>1, <1>2, <1>3, CarefulInit, PTL DEF Spec, CarefulSpec

(* For them the pool is the queue of ChunkQueue as it stands.              *)
THEOREM OneSizeIsQueue ==
    ASSUME NEW CONSTANT cap, OneCapacity(cap) PROVE Spec => ImplementsQueue
  BY OneSizeIsCareful, PoolIsQueue, PTL
=============================================================================
