-------------------------- MODULE MemoryPoolProofs --------------------------
(***************************************************************************)
(* What holds of the memory pool whatever its callers do: types, the       *)
(* layout of the chunks, the answers of webdriverMemoryPoolGet, what a new *)
(* pool serves, that the list never leads back to itself, and that a walk  *)
(* over it comes to its end.                                               *)
(***************************************************************************)
EXTENDS MemoryPool, SequenceTheorems, FiniteSetTheorems, WellFoundedInduction, TLAPS

(* What the running call carries from one step to the next *)
CallOK ==
    /\ \A h \in Handles : owns[h] => ptr[h] \in Carved
    /\ pc \in {"scan", "done"} => /\ call.op \in {"get", "grow"} /\ call.h \in Handles
                                  /\ call.op = "grow" => owns[call.h]
    /\ pc = "done" => call.node # Data
    /\ pc = "idle" => call = NoCall
    /\ pc = "scan" /\ (call.prev # NULL \/ call.node # NULL) => free # NULL

PoolInv == TypeOK /\ CallOK /\ ChunksInPool /\ TailWritable /\ AnswerFits

---------------------------------------------------------------------------
(* Rounding up gives a natural number (client.c:450). *)
LEMMA AlignUpNat == ASSUME NEW n \in Nat PROVE AlignUp(n) \in Nat
<1> DEFINE sum == n + MinAlloc - 1
           q == sum \div MinAlloc
<1>1. sum \in Nat BY PoolAssumption
<1>2. q \in Nat
  <2> HIDE DEF sum
  <2> QED BY <1>1, PoolAssumption
<1>3. q * MinAlloc \in Nat
  <2> HIDE DEF q
  <2> QED BY <1>2, PoolAssumption
<1> QED BY <1>3 DEF AlignUp

(* A new pool serves every size within the limit, if the limit leaves room *)
(* for rounding up, as client.c:363 does and client.h:110 does not: the    *)
(* guard of webdriverMemoryPoolGet (446) then implies pool_firstFit's.     *)
THEOREM LimitFits ==
    ASSUME MinAlloc <= Spare + 1, NEW n \in Nat, n <= MaxAlloc, mp = HeaderSize
    PROVE  Fits(AlignUp(n))
<1> DEFINE sum == n + MinAlloc - 1
           q == sum \div MinAlloc
           r == sum % MinAlloc
<1>1. sum \in Nat
  BY PoolAssumption
<1>2. /\ sum = (q * MinAlloc) + r /\ r \in Nat /\ q \in Nat
  <2> HIDE DEF sum
  <2>1. sum = MinAlloc * (sum \div MinAlloc) + (sum % MinAlloc)
        /\ 0 <= sum % MinAlloc /\ sum % MinAlloc \in Int
        /\ sum \div MinAlloc \in Nat
    BY <1>1, PoolAssumption
  <2> QED BY <2>1, PoolAssumption
<1>3. AlignUp(n) = q * MinAlloc
  BY DEF AlignUp
<1> HIDE DEF q, r
<1>4. q * MinAlloc \in Nat /\ q * MinAlloc <= sum
  <2>1. q * MinAlloc \in Nat
    BY <1>2, PoolAssumption
  <2> DEFINE a == q * MinAlloc
  <2>2. a \in Nat /\ sum = a + r
    BY <1>2, <2>1
  <2> HIDE DEF a, sum
  <2>3. a <= sum
    BY <1>1, <1>2, <2>2
  <2> QED BY <2>1, <2>3 DEF a
<1>5. AlignUp(n) \in Nat /\ AlignUp(n) <= n + MinAlloc - 1
  BY <1>3, <1>4
<1> QED BY <1>5, PoolAssumption DEF Fits, MaxAlloc, Top, MetaSize

LEMMA MaxUint16Nat == MaxUint16 \in Nat
  BY DEF MaxUint16

(* Clearing bytes of a capacity never enlarges it (client.c:509). *)
LEMMA ClearedHeaderBound ==
    ASSUME NEW c, header[c] \in 0..MaxUint16, NEW lo, NEW hi
    PROVE  ClearedHeader(c, lo, hi) \in 0..header[c]
<1> DEFINE v == header[c]
           low == IF c - 2 \in lo..(hi - 1) THEN 0 ELSE v % 256
           high == IF c - 1 \in lo..(hi - 1) THEN 0 ELSE v \div 256
<1>1. v \in Nat BY MaxUint16Nat
<1>2. v % 256 \in Nat /\ v \div 256 \in Nat /\ v = 256 * (v \div 256) + (v % 256)
  <2> HIDE DEF v
  <2> QED BY <1>1
<1>3. ClearedHeader(c, lo, hi) = low + 256 * high
  BY DEF ClearedHeader
<1>4. low \in 0..(v % 256) /\ high \in 0..(v \div 256)
  <2> HIDE DEF v
  <2> QED BY <1>2
<1> HIDE DEF low, high, v
<1>5. low + 256 * high \in 0..v
  BY <1>1, <1>2, <1>4
<1> QED BY <1>3, <1>5 DEF v

---------------------------------------------------------------------------
LEMMA InitInv == Init => PoolInv
<1> SUFFICES ASSUME Init PROVE PoolInv
  OBVIOUS
<1>1. Carved = {}
  BY DEF Init, Carved, NoChunks
<1>2. TypeOK
  BY <1>1, PoolAssumption, ValuesAssumption DEF Init, TypeOK, Carved, NoChunks, NoCall
<1>3. CallOK /\ TailWritable /\ AnswerFits
  BY DEF Init, CallOK, TailWritable, AnswerFits
<1>4. ChunksInPool
  BY <1>1, PoolAssumption DEF Init, ChunksInPool, Top, MetaSize
<1> QED BY <1>2, <1>3, <1>4 DEF PoolInv

---------------------------------------------------------------------------
(* Carving adds one chunk at the end of those there are; every other way a *)
(* webdriverMemoryPoolGet starts leaves the pool as it is.                 *)
LEMMA CarveLayout ==
    ASSUME PoolInv, NEW size \in Nat, Fits(size),
           mp' = mp + MetaSize + size,
           header' = [c \in Carved \cup {mp + MetaSize} |->
                         IF c = mp + MetaSize THEN size ELSE header[c]]
    PROVE  /\ mp' \in Nat
           /\ Carved' = Carved \cup {mp + MetaSize}
           /\ mp + MetaSize \in Nat
           /\ header' \in [Carved' -> 0..MaxUint16]
           /\ header'[mp + MetaSize] = size
           /\ ChunksInPool'
<1> USE PoolAssumption, MaxUint16Nat
<1>1. /\ mp \in Nat /\ Carved \subseteq Nat /\ header \in [Carved -> 0..MaxUint16]
      /\ mp <= Top /\ HeaderSize <= mp
      /\ \A c \in Carved : HeaderSize + MetaSize <= c /\ c + header[c] <= mp
      /\ \A c, d \in Carved : c < d => c + header[c] + MetaSize <= d
  BY DEF PoolInv, TypeOK, ChunksInPool
<1>2. \A c \in Carved : header[c] \in Nat
  BY <1>1
<1>3. mp + MetaSize + size <= Top /\ MetaSize \in Nat /\ Top \in Nat
  BY <1>1 DEF Fits, MetaSize, Top
<1>4. Carved' = Carved \cup {mp + MetaSize}
  BY DEF Carved
<1>5. size <= MaxUint16
  BY <1>1, <1>3 DEF Top, MetaSize
<1>6. header' \in [Carved' -> 0..MaxUint16] /\ header'[mp + MetaSize] = size
  <2>1. size \in 0..MaxUint16
    BY <1>5
  <2> QED BY <1>1, <1>4, <2>1
<1>7. ChunksInPool'
  <2>1. \A c \in Carved : c # mp + MetaSize /\ header'[c] = header[c]
    BY <1>1, <1>2 DEF MetaSize
  <2>2. \A c \in Carved' : HeaderSize + MetaSize <= c /\ c + header'[c] <= mp'
    BY <1>1, <1>2, <1>4, <1>6, <2>1 DEF MetaSize
  <2>3. \A c, d \in Carved' : c < d => c + header'[c] + MetaSize <= d
    BY <1>1, <1>2, <1>4, <1>6, <2>1 DEF MetaSize
  <2>4. HeaderSize <= mp' /\ mp' <= Top
    BY <1>1, <1>3
  <2> QED BY <2>2, <2>3, <2>4 DEF ChunksInPool, Top, MetaSize
<1> QED BY <1>1, <1>3, <1>4, <1>6, <1>7

LEMMA StartGetInv ==
    ASSUME PoolInv, pc = "idle",
           NEW op \in {"get", "grow"}, NEW h \in Handles, NEW n \in Nat,
           op = "grow" => owns[h],
           StartGet(op, h, n),
           UNCHANGED <<pool, ptr, owns, freed>>
    PROVE  PoolInv'
<1> DEFINE size == AlignUp(n)
           new == mp + MetaSize
           request == [op |-> op, h |-> h, asked |-> n, size |-> size, prev |-> NULL, node |-> NULL]
<1>1. size \in Nat BY AlignUpNat
<1>2. CASE /\ MaxAlloc < n
           /\ pc' = "done" /\ call' = request
           /\ UNCHANGED state
  BY <1>1, <1>2, ValuesAssumption
     DEF PoolInv, TypeOK, CallOK, ChunksInPool, TailWritable, AnswerFits, state, Carved
<1>3. CASE /\ Fits(size)
           /\ mp' = new + size
           /\ header' = [c \in Carved \cup {new} |-> IF c = new THEN size ELSE header[c]]
           /\ word' = [c \in Carved \cup {new} |-> IF c = new THEN NULL ELSE word[c]]
           /\ pc' = "done" /\ call' = [request EXCEPT !.node = new]
           /\ UNCHANGED <<free, tail>>
  <2> HIDE DEF size
  <2>1. /\ mp' \in Nat
        /\ Carved' = Carved \cup {new}
        /\ new \in Nat
        /\ header' \in [Carved' -> 0..MaxUint16]
        /\ header'[new] = size
        /\ ChunksInPool'
    BY <1>1, <1>3, CarveLayout
  <2> HIDE DEF new
  <2>2. call' = [op |-> op, h |-> h, asked |-> n, size |-> size, prev |-> NULL, node |-> new]
    BY <1>3
  <2>3. TypeOK'
    <3>1. word' \in [Carved' -> Carved' \cup {NULL, Data}]
      BY <1>3, <2>1 DEF PoolInv, TypeOK
    <3>2. Carved' \subseteq Nat
      BY <2>1 DEF PoolInv, TypeOK
    <3>3. freed' \in Seq(Carved')
      BY <2>1 DEF PoolInv, TypeOK
    <3>4. call' \in [op : {"none", "get", "grow"}, h : Handles \cup {NULL}, asked : Nat, size : Nat,
                     prev : Carved' \cup {NULL}, node : Carved' \cup {NULL, Data}]
      BY <1>1, <2>1, <2>2
    <3>5. /\ pool' \in {"none", "open"} /\ pc' \in {"idle", "scan", "done", "wild"}
          /\ free' \in Carved' \cup {NULL, Data} /\ tail' \in Carved' \cup {NULL}
          /\ ptr' \in [Handles -> Carved' \cup {NULL}] /\ owns' \in [Handles -> BOOLEAN]
      BY <1>3, <2>1 DEF PoolInv, TypeOK
    <3> QED BY <2>1, <3>1, <3>2, <3>3, <3>4, <3>5 DEF TypeOK
  <2>4. CallOK' /\ TailWritable' /\ AnswerFits'
    BY <1>1, <1>3, <2>1, <2>2, ValuesAssumption
       DEF PoolInv, CallOK, TailWritable, AnswerFits
  <2> QED BY <2>1, <2>3, <2>4 DEF PoolInv
<1>4. CASE /\ pc' = "scan" /\ call' = [request EXCEPT !.node = free]
           /\ UNCHANGED state
  <2> HIDE DEF size
  <2>1. call' = [op |-> op, h |-> h, asked |-> n, size |-> size, prev |-> NULL, node |-> free]
    BY <1>4
  <2> QED BY <1>1, <1>4, <2>1, ValuesAssumption
             DEF PoolInv, TypeOK, CallOK, ChunksInPool, TailWritable, AnswerFits, state, Carved
<1> QED BY <1>2, <1>3, <1>4 DEF StartGet

(* Putting a chunk on the list keeps every link a link. *)
LEMMA RecycleTyped ==
    ASSUME PoolInv, NEW c \in Carved, NEW w \in [Carved -> Carved \cup {NULL, Data}],
           Recycle(c, w), header' = header
    PROVE  /\ free' \in Carved \cup {NULL, Data}
           /\ tail' \in Carved
           /\ word' \in [Carved -> Carved \cup {NULL, Data}]
           /\ freed' \in Seq(Carved)
<1>1. free' \in Carved \cup {NULL, Data} /\ tail' \in Carved
  BY DEF Recycle, PoolInv, TypeOK
<1>2. word' \in [Carved -> Carved \cup {NULL, Data}]
  BY DEF Recycle, PoolInv, TypeOK, TailWritable
<1>3. freed' \in Seq(Carved)
  BY DEF Recycle, PoolInv, TypeOK
<1> QED BY <1>1, <1>2, <1>3

(* Clearing part of a chunk keeps the chunks where they are. *)
LEMMA GrowInPlaceInv ==
    ASSUME PoolInv, NEW h \in Handles, NEW n \in GrowSizes, GrowInPlace(h, n)
    PROVE  PoolInv'
<1> DEFINE lo == ptr[h] + GivenUp(h, n)
           hi == ClearedUpTo(h, n)
<1>1. /\ header' = [c \in Carved |-> ClearedHeader(c, lo, hi)]
      /\ word' = [c \in Carved |-> ClearedWord(c, lo, hi)]
      /\ pc = "idle"
      /\ UNCHANGED <<pool, mp, free, tail, ptr, owns, freed, pc, call>>
  BY DEF GrowInPlace
<1> HIDE DEF lo, hi
<1>2. Carved' = Carved
  BY <1>1 DEF Carved
<1>3. \A c \in Carved : header'[c] \in 0..header[c]
  BY <1>1, ClearedHeaderBound DEF PoolInv, TypeOK
<1>4. header' \in [Carved -> 0..MaxUint16]
  <2>1. \A c \in Carved : header'[c] \in 0..MaxUint16
    BY <1>3, MaxUint16Nat DEF PoolInv, TypeOK
  <2> QED BY <1>1, <2>1
<1>5. word' \in [Carved -> Carved \cup {NULL, Data}]
  <2>1. \A c \in Carved : word'[c] \in Carved \cup {NULL, Data}
    BY <1>1 DEF PoolInv, TypeOK, ClearedWord
  <2> QED BY <1>1, <2>1
<1>6. TypeOK'
  BY <1>1, <1>2, <1>4, <1>5 DEF PoolInv, TypeOK
<1>7. ChunksInPool'
  <2>1. /\ mp \in Nat /\ Carved \subseteq Nat
        /\ \A c \in Carved : header[c] \in Nat /\ header'[c] \in Nat
    BY <1>3, MaxUint16Nat DEF PoolInv, TypeOK
  <2> QED BY <1>1, <1>2, <1>3, <2>1, PoolAssumption DEF PoolInv, ChunksInPool, MetaSize, Top
<1>8. CallOK' /\ TailWritable' /\ AnswerFits'
  BY <1>1, <1>2 DEF PoolInv, CallOK, TailWritable, AnswerFits
<1> QED BY <1>6, <1>7, <1>8 DEF PoolInv

(* Taking one element out of a sequence leaves a sequence over the same    *)
(* set, in the same order.                                                 *)
LEMMA Removed ==
    ASSUME NEW S, NEW s \in Seq(S), NEW i \in 1..Len(s)
    PROVE  /\ RemoveAt(s, i) \in Seq(S)
           /\ Len(RemoveAt(s, i)) = Len(s) - 1
           /\ \A j \in 1..(Len(s) - 1) :
                 RemoveAt(s, i)[j] = IF j < i THEN s[j] ELSE s[j + 1]
<1> DEFINE before == SubSeq(s, 1, i - 1)
           after == SubSeq(s, i + 1, Len(s))
<1>1. /\ before \in Seq(S) /\ Len(before) = i - 1
      /\ \A j \in 1..(i - 1) : before[j] = s[j]
  BY SubSeqProperties
<1>2. /\ after \in Seq(S) /\ Len(after) = Len(s) - i
      /\ \A j \in 1..(Len(s) - i) : after[j] = s[i + j]
  BY SubSeqProperties
<1> HIDE DEF before, after
<1>3. RemoveAt(s, i) = before \o after
  BY DEF RemoveAt, before, after
<1>4. \A j \in 1..(Len(s) - 1) :
         (before \o after)[j] = IF j < i THEN s[j] ELSE s[j + 1]
  <2> SUFFICES ASSUME NEW j \in 1..(Len(s) - 1)
               PROVE  (before \o after)[j] = IF j < i THEN s[j] ELSE s[j + 1]
    OBVIOUS
  <2>1. CASE j < i
    BY <1>1, <1>2, <2>1, ConcatProperties
  <2>2. CASE i <= j
    <3>1. (before \o after)[j] = after[j - (i - 1)]
      BY <1>1, <1>2, <2>2, ConcatProperties
    <3>2. j - (i - 1) \in 1..(Len(s) - i) /\ i + (j - (i - 1)) = j + 1
      BY <2>2
    <3>3. after[j - (i - 1)] = s[j + 1]
      BY <1>2, <3>2
    <3> QED BY <2>2, <3>1, <3>3
  <2>3. j < i \/ i <= j
    <3>1. i \in Int /\ j \in Int
      BY LenProperties
    <3> QED BY <3>1
  <2> QED BY <2>1, <2>2, <2>3
<1>5. before \o after \in Seq(S) /\ Len(before \o after) = Len(before) + Len(after)
  <2>1. before \in Seq(S) /\ after \in Seq(S)
    BY <1>1, <1>2
  <2> QED BY ONLY <2>1, ConcatProperties
<1>6. Len(before) + Len(after) = Len(s) - 1
  BY <1>1, <1>2, LenProperties
<1> QED BY <1>3, <1>4, <1>5, <1>6

(* What a step that leaves the layout and the call alone has to show. *)
LEMMA SameLayout ==
    ASSUME PoolInv, UNCHANGED <<mp, header>>
    PROVE  ChunksInPool' /\ Carved' = Carved
  BY DEF PoolInv, ChunksInPool, Carved, Top, MetaSize

LEMMA DeleteInv ==
    ASSUME PoolInv, NEW h \in Handles, DeleteChunk(h) \/ GrowToNothing(h)
    PROVE  PoolInv'
<1>1. ptr[h] \in Carved
  BY DEF PoolInv, TypeOK, CallOK, DeleteChunk, GrowToNothing
<1>2. /\ UNCHANGED <<pool, mp, header, pc, call>> /\ pc = "idle"
      /\ Recycle(ptr[h], word)
      /\ ptr' \in {ptr, [ptr EXCEPT ![h] = NULL]}
      /\ owns' = [owns EXCEPT ![h] = FALSE]
  BY DEF DeleteChunk, GrowToNothing, PoolInv, TypeOK
<1>3. ChunksInPool' /\ Carved' = Carved
  BY <1>2, SameLayout
<1>4. /\ free' \in Carved \cup {NULL, Data} /\ tail' \in Carved
      /\ word' \in [Carved -> Carved \cup {NULL, Data}] /\ freed' \in Seq(Carved)
  BY <1>1, <1>2, RecycleTyped DEF PoolInv, TypeOK
<1>5. ptr' \in [Handles -> Carved \cup {NULL}]
  BY <1>2 DEF PoolInv, TypeOK
<1>6. TypeOK'
  BY <1>2, <1>3, <1>4, <1>5 DEF PoolInv, TypeOK
<1>7. CallOK' /\ TailWritable' /\ AnswerFits'
  BY <1>2, <1>3, <1>4 DEF PoolInv, CallOK, TailWritable, AnswerFits, TypeOK
<1> QED BY <1>3, <1>6, <1>7 DEF PoolInv

LEMMA ScanInv ==
    ASSUME PoolInv, ScanStep \/ ScanTake \/ ScanMiss \/ ScanWild
    PROVE  PoolInv'
<1>1. /\ UNCHANGED <<pool, mp, header, ptr, owns>> /\ pc = "scan"
  BY DEF ScanStep, ScanTake, ScanMiss, ScanWild, Scanning
<1>2. ChunksInPool' /\ Carved' = Carved
  BY <1>1, SameLayout
<1>3. CASE ScanStep
  <2>1. /\ call.node \in Carved /\ UNCHANGED <<free, tail, word, freed, pc>>
        /\ call' = [call EXCEPT !.prev = call.node, !.node = word[call.node]]
    BY <1>3 DEF ScanStep
  <2>2. call' = [op |-> call.op, h |-> call.h, asked |-> call.asked, size |-> call.size,
                 prev |-> call.node, node |-> word[call.node]]
    BY <2>1 DEF PoolInv, TypeOK
  <2>3. TypeOK'
    BY <1>1, <1>2, <2>1, <2>2 DEF PoolInv, TypeOK
  <2>4. CallOK' /\ TailWritable' /\ AnswerFits'
    BY <1>1, <1>2, <2>1, <2>2, ValuesAssumption
       DEF PoolInv, TypeOK, CallOK, TailWritable, AnswerFits
  <2> QED BY <1>2, <2>3, <2>4 DEF PoolInv
<1>4. CASE ScanTake
  <2>1. /\ call.node \in Carved /\ ~TooSmall(call.node) /\ Unlink(call.node)
        /\ Withdraw(call.node)
        /\ pc' = "done" /\ UNCHANGED call
    BY <1>4 DEF ScanTake
  <2>2. free # NULL /\ tail \in Carved
    BY <1>1, <2>1, ValuesAssumption DEF PoolInv, TypeOK, CallOK, TailWritable
  <2>3. /\ free' \in Carved \cup {NULL, Data} /\ tail' \in Carved
        /\ word' \in [Carved -> Carved \cup {NULL, Data}]
    BY <2>1, <2>2 DEF Unlink, PoolInv, TypeOK
  <2>4. freed' \in Seq(Carved)
    BY <2>1, Removed DEF PoolInv, TypeOK, Withdraw
  <2>5. TypeOK'
    BY <1>1, <1>2, <2>1, <2>3, <2>4 DEF PoolInv, TypeOK
  <2>6. CallOK'
    BY <1>1, <1>2, <2>1, ValuesAssumption DEF PoolInv, TypeOK, CallOK
  <2>7. TailWritable'
    BY <1>2, <2>3 DEF TailWritable
  <2>8. AnswerFits'
    <3>1. header[call.node] \in Nat /\ call.size \in Nat
      <4>1. header \in [Carved -> 0..MaxUint16] /\ call.size \in Nat
        BY DEF PoolInv, TypeOK
      <4> QED BY <2>1, <4>1, MaxUint16Nat
    <3>2. call.size <= header[call.node]
      BY <2>1, <3>1 DEF TooSmall
    <3> QED BY <1>1, <2>1, <3>2 DEF AnswerFits
  <2> QED BY <1>2, <2>5, <2>6, <2>7, <2>8 DEF PoolInv
<1>5. CASE ScanMiss \/ ScanWild
  <2>1. /\ UNCHANGED <<free, tail, word, freed, call>>
        /\ (pc' = "done" /\ call.node = NULL) \/ pc' = "wild"
    BY <1>5 DEF ScanMiss, ScanWild
  <2>2. TypeOK'
    BY <1>1, <1>2, <2>1 DEF PoolInv, TypeOK
  <2>3. CallOK' /\ TailWritable' /\ AnswerFits'
    BY <1>1, <1>2, <2>1, ValuesAssumption DEF PoolInv, CallOK, TailWritable, AnswerFits
  <2> QED BY <1>2, <2>2, <2>3 DEF PoolInv
<1> QED BY <1>3, <1>4, <1>5

LEMMA ReturnInv ==
    ASSUME PoolInv, ReturnGet \/ ReturnGrow
    PROVE  PoolInv'
<1>1. /\ UNCHANGED <<pool, mp, header>> /\ pc = "done" /\ pc' = "idle" /\ call' = NoCall
      /\ call.h \in Handles /\ call.node \in Carved \cup {NULL}
      /\ call.op = "grow" => owns[call.h]
  BY DEF ReturnGet, ReturnGrow, PoolInv, TypeOK, CallOK
<1>2. ChunksInPool' /\ Carved' = Carved
  BY <1>1, SameLayout
<1>3. call' \in [op : {"none", "get", "grow"}, h : Handles \cup {NULL}, asked : Nat, size : Nat,
                 prev : Carved \cup {NULL}, node : Carved \cup {NULL, Data}]
  BY <1>1 DEF NoCall
<1>4. CASE ReturnGet
  <2>1. /\ UNCHANGED <<free, tail, word, freed>>
        /\ ptr' = [ptr EXCEPT ![call.h] = call.node]
        /\ owns' = [owns EXCEPT ![call.h] = call.node # NULL]
    BY <1>4 DEF ReturnGet
  <2>2. owns' \in [Handles -> BOOLEAN]
    <3>1. (call.node # NULL) \in BOOLEAN
      OBVIOUS
    <3> QED BY <1>1, <2>1, <3>1 DEF PoolInv, TypeOK
  <2>3. TypeOK'
    BY <1>1, <1>2, <1>3, <2>1, <2>2 DEF PoolInv, TypeOK
  <2>4. CallOK'
    BY <1>1, <1>2, <2>1 DEF PoolInv, TypeOK, CallOK
  <2>5. TailWritable' /\ AnswerFits'
    BY <1>1, <1>2, <2>1 DEF PoolInv, TailWritable, AnswerFits
  <2> QED BY <1>2, <2>3, <2>4, <2>5 DEF PoolInv
<1>5. CASE ReturnGrow /\ call.node = NULL
  <2>1. UNCHANGED <<free, tail, word, ptr, freed, owns>>
    BY <1>5 DEF ReturnGrow
  <2> QED BY <1>1, <1>2, <1>3, <2>1
          DEF PoolInv, TypeOK, CallOK, TailWritable, AnswerFits
<1>6. CASE ReturnGrow /\ call.node # NULL
  <2> DEFINE old == ptr[call.h]
             copied == [word EXCEPT ![call.node] = word[old]]
  <2>1. /\ Recycle(old, copied) /\ UNCHANGED owns
        /\ ptr' = [ptr EXCEPT ![call.h] = call.node]
        /\ owns[call.h]
    BY <1>1, <1>6 DEF ReturnGrow
  <2>2. old \in Carved /\ call.node \in Carved
    BY <1>1, <1>6, <2>1 DEF PoolInv, CallOK
  <2>3. copied \in [Carved -> Carved \cup {NULL, Data}]
    BY <2>2 DEF PoolInv, TypeOK
  <2> HIDE DEF old, copied
  <2>4. /\ free' \in Carved \cup {NULL, Data} /\ tail' \in Carved
        /\ word' \in [Carved -> Carved \cup {NULL, Data}] /\ freed' \in Seq(Carved)
    BY <1>1, <2>1, <2>2, <2>3, RecycleTyped
  <2>5. TypeOK'
    BY <1>1, <1>2, <1>3, <2>1, <2>2, <2>4 DEF PoolInv, TypeOK
  <2>6. CallOK' /\ TailWritable' /\ AnswerFits'
    BY <1>1, <1>2, <2>1, <2>2, <2>4
       DEF PoolInv, TypeOK, CallOK, TailWritable, AnswerFits
  <2> QED BY <1>2, <2>5, <2>6 DEF PoolInv
<1>7. ReturnGrow => call.op = "grow"
  BY DEF ReturnGrow
<1> QED BY <1>4, <1>5, <1>6

(* Steps into undefined behaviour leave the pool as it is. *)
LEMMA UndefinedInv ==
    ASSUME PoolInv, CopyOutside \/ \E h \in Handles, n \in GrowSizes : ShrinkOutside(h, n)
    PROVE  PoolInv'
<1>1. /\ UNCHANGED <<pool, mp, free, tail, header, word, ptr, owns, freed, call>>
      /\ pc' = "wild"
  BY DEF CopyOutside, ShrinkOutside
<1>2. ChunksInPool' /\ Carved' = Carved
  BY <1>1, SameLayout
<1> QED BY <1>1, <1>2 DEF PoolInv, TypeOK, CallOK, TailWritable, AnswerFits

LEMMA WriteInv ==
    ASSUME PoolInv, NEW h \in Handles, Write(h)
    PROVE  PoolInv'
<1>1. ChunksInPool' /\ Carved' = Carved
  BY SameLayout DEF Write
<1>2. word' \in [Carved -> Carved \cup {NULL, Data}]
  BY DEF Write, PoolInv, TypeOK
<1> QED BY <1>1, <1>2 DEF Write, PoolInv, TypeOK, CallOK, TailWritable, AnswerFits

LEMMA DeletedInv == ASSUME PoolInv, DeletePool PROVE PoolInv'
<1>1. Carved' = {} /\ word' = [c \in {} |-> 0] /\ header' = [c \in {} |-> 0]
  BY DEF DeletePool, Carved, NoChunks
<1>2. TypeOK'
  BY <1>1, PoolAssumption, ValuesAssumption DEF DeletePool, PoolInv, TypeOK, CallOK, NoCall
<1>3. CallOK' /\ TailWritable' /\ AnswerFits'
  BY DEF DeletePool, PoolInv, CallOK, TailWritable, AnswerFits
<1>4. ChunksInPool'
  BY <1>1, PoolAssumption DEF DeletePool, ChunksInPool, Top, MetaSize
<1> QED BY <1>2, <1>3, <1>4 DEF PoolInv

---------------------------------------------------------------------------
LEMMA NextInv == PoolInv /\ [Next]_vars => PoolInv'
<1> SUFFICES ASSUME PoolInv, [Next]_vars PROVE PoolInv'
  OBVIOUS
<1>1. CASE UNCHANGED vars
  BY <1>1 DEF vars, PoolInv, TypeOK, CallOK, ChunksInPool, TailWritable, AnswerFits,
              Carved, Top, MetaSize
<1>2. CASE CreatePool
  <2>1. ChunksInPool' /\ Carved' = Carved
    BY <1>2, SameLayout DEF CreatePool
  <2> QED BY <1>2, <2>1 DEF CreatePool, PoolInv, TypeOK, CallOK, TailWritable, AnswerFits
<1>3. CASE DeletePool
  BY <1>3, DeletedInv
<1>4. ASSUME NEW h \in Handles, NEW n \in Sizes, Get(h, n) PROVE PoolInv'
  BY <1>4, StartGetInv, SizesAssumption DEF Get
<1>5. ASSUME NEW h \in Handles, NEW n \in GrowSizes, GrowInPlace(h, n) PROVE PoolInv'
  BY <1>5, GrowInPlaceInv
<1>6. ASSUME NEW h \in Handles, NEW n \in GrowSizes, GrowByMoving(h, n) PROVE PoolInv'
  <2>1. n \in Nat
    BY SizesAssumption, MaxUint16Nat
  <2> QED BY <1>6, <2>1, StartGetInv DEF GrowByMoving
<1>7. ASSUME NEW h \in Handles, GrowToNothing(h) \/ DeleteChunk(h) PROVE PoolInv'
  BY <1>7, DeleteInv
<1>8. ASSUME NEW h \in Handles, Write(h) PROVE PoolInv'
  BY <1>8, WriteInv
<1>9. CASE Continue
  BY <1>9, ScanInv, ReturnInv, UndefinedInv DEF Continue
<1>10. ASSUME NEW h \in Handles, NEW n \in GrowSizes, ShrinkOutside(h, n) PROVE PoolInv'
  BY <1>10, UndefinedInv
<1> QED BY <1>1, <1>2, <1>3, <1>4, <1>5, <1>6, <1>7, <1>8, <1>9, <1>10 DEF Next

(* The types of all variables are kept by every step, under any callers:   *)
(* every link the code follows is a chunk's address, NULL or bytes of a    *)
(* caller (client.c:386-523).                                              *)
THEOREM TypeCorrect == Spec => []TypeOK
<1>1. PoolInv => TypeOK
  BY DEF PoolInv
<1> QED BY <1>1, InitInv, NextInv, PTL DEF Spec

(* For every pool size and every use of the pool, also with deletions      *)
(* through stale pointers and after the list went wrong, the chunks lie    *)
(* inside the block and do not overlap.                                    *)
THEOREM Layout == Spec => []ChunksInPool
<1>1. PoolInv => ChunksInPool
  BY DEF PoolInv
<1> QED BY <1>1, InitInv, NextInv, PTL DEF Spec

(* Every chunk handed out has the capacity asked for. *)
THEOREM AnswersFit == Spec => []AnswerFits
<1>1. PoolInv => AnswerFits
  BY DEF PoolInv
<1> QED BY <1>1, InitInv, NextInv, PTL DEF Spec

(* The copy into a larger chunk above the old one stays inside the block.  *)
THEOREM CopyInside == Spec => []CopyStaysInBlock
<1>1. PoolInv => CopyStaysInBlock
  <2> SUFFICES ASSUME PoolInv, pc = "done", call.op = "grow", call.node # NULL,
                      ptr[call.h] < call.node
               PROVE  ptr[call.h] + call.size <= PoolSize
    BY DEF CopyStaysInBlock
  <2>1. /\ call.node \in Carved /\ call.node \in Nat /\ ptr[call.h] \in Nat
        /\ header[call.node] \in Nat /\ call.size \in Nat /\ mp \in Nat
    <3>1. /\ Carved \subseteq Nat /\ header \in [Carved -> 0..MaxUint16] /\ mp \in Nat
          /\ call.size \in Nat
      BY DEF PoolInv, TypeOK
    <3>2. call.node \in Carved /\ ptr[call.h] \in Carved
      BY DEF PoolInv, TypeOK, CallOK
    <3>3. call.node \in Nat /\ ptr[call.h] \in Nat
      BY <3>1, <3>2
    <3>4. header[call.node] \in 0..MaxUint16
      BY <3>1, <3>2
    <3>5. header[call.node] \in Nat
      BY ONLY <3>4, MaxUint16Nat
    <3> QED BY <3>1, <3>2, <3>3, <3>5
  <2>2. call.size <= header[call.node] /\ call.node + header[call.node] <= mp /\ mp <= Top
    BY <2>1 DEF PoolInv, AnswerFits, ChunksInPool
  <2> QED BY <2>1, <2>2, PoolAssumption DEF Top
<1> QED BY <1>1, InitInv, NextInv, PTL DEF Spec

---------------------------------------------------------------------------
(* Nothing is carved exactly where carving starts, and then no call walks  *)
(* the list: it was served or it was refused.                              *)
NewPoolInv ==
    /\ Carved = {} => mp = HeaderSize
    /\ pc = "scan" => Carved # {}
    /\ MaxAllocServed

LEMMA NewPoolStart ==
    ASSUME MinAlloc <= Spare + 1, PoolInv, NewPoolInv,
           NEW op \in {"get", "grow"}, NEW h \in Handles, NEW n \in Nat,
           op = "get" => n \in Sizes, op = "grow" => Carved # {},
           StartGet(op, h, n)
    PROVE  NewPoolInv'
<1> DEFINE size == AlignUp(n)
           new == mp + MetaSize
           request == [op |-> op, h |-> h, asked |-> n, size |-> size, prev |-> NULL, node |-> NULL]
<1>1. CASE /\ MaxAlloc < n
           /\ pc' = "done" /\ call' = request
           /\ UNCHANGED state
  <2>1. call'.size = size /\ Carved' = Carved /\ mp' = mp
    BY <1>1 DEF state, Carved
  <2> HIDE DEF size
  <2>2. Carved = {} => n \in Sizes
    OBVIOUS
  <2>3. MaxAllocServed'
    <3> SUFFICES ASSUME Carved' = {}
                 PROVE  \E m \in Sizes : MaxAlloc < m /\ call'.size = AlignUp(m)
      BY DEF MaxAllocServed, MaxAlloc, AlignUp, MetaSize
    <3> QED BY <1>1, <2>1, <2>2 DEF size
  <2> QED BY <1>1, <2>1, <2>3 DEF NewPoolInv
<1>2. CASE /\ header' = [c \in Carved \cup {new} |-> IF c = new THEN size ELSE header[c]]
           /\ pc' = "done"
  <2>1. Carved' # {}
    BY <1>2 DEF Carved
  <2> QED BY <1>2, <2>1 DEF NewPoolInv, MaxAllocServed
<1>3. CASE /\ n <= MaxAlloc /\ ~Fits(size)
           /\ pc' = "scan"
           /\ UNCHANGED state
  <2>1. mp # HeaderSize
    BY <1>3, LimitFits
  <2>2. Carved' = Carved /\ mp' = mp
    BY <1>3 DEF state, Carved
  <2> QED BY <1>3, <2>1, <2>2 DEF NewPoolInv, MaxAllocServed
<1> QED BY <1>1, <1>2, <1>3 DEF StartGet

LEMMA NewPoolNext ==
    ASSUME MinAlloc <= Spare + 1, PoolInv, NewPoolInv, [Next]_vars PROVE NewPoolInv'
<1>1. ASSUME NEW h \in Handles, NEW n \in Sizes, Get(h, n) PROVE NewPoolInv'
  BY <1>1, NewPoolStart, SizesAssumption DEF Get
<1>2. ASSUME NEW h \in Handles, NEW n \in GrowSizes, GrowByMoving(h, n) PROVE NewPoolInv'
  <2>1. n \in Nat /\ Carved # {} /\ StartGet("grow", h, n)
    BY <1>2, SizesAssumption, MaxUint16Nat DEF GrowByMoving, PoolInv, CallOK
  <2> QED BY <2>1, NewPoolStart
<1>3. ASSUME Carved' = Carved, mp' = mp, pc' = pc, call' = call PROVE NewPoolInv'
  BY <1>3 DEF NewPoolInv, MaxAllocServed, MaxAlloc, AlignUp, MetaSize
<1>4. CASE UNCHANGED vars \/ CreatePool
  BY <1>3, <1>4 DEF vars, CreatePool, Carved
<1>5. CASE DeletePool
  <2>1. pc' = "idle" /\ mp' = HeaderSize
    BY <1>5 DEF DeletePool
  <2> QED BY <2>1 DEF NewPoolInv, MaxAllocServed
<1>6. ASSUME NEW h \in Handles, NEW n \in GrowSizes, GrowInPlace(h, n) PROVE NewPoolInv'
  BY <1>3, <1>6 DEF GrowInPlace, Carved
<1>7. ASSUME NEW h \in Handles, GrowToNothing(h) \/ DeleteChunk(h) \/ Write(h)
      PROVE  NewPoolInv'
  BY <1>3, <1>7 DEF GrowToNothing, DeleteChunk, Write, Carved
<1>8. CASE Continue
  <2>1. UNCHANGED <<mp, header>>
    BY <1>8 DEF Continue, ScanStep, ScanTake, ScanMiss, ScanWild, ReturnGet, ReturnGrow,
               CopyOutside
  <2>2. \/ pc = "scan"
        \/ pc' \in {"idle", "wild"}
    BY <1>8 DEF Continue, ScanStep, ScanTake, ScanMiss, ScanWild, ReturnGet, ReturnGrow,
               CopyOutside, Scanning
  <2> QED BY <2>1, <2>2 DEF NewPoolInv, MaxAllocServed, Carved
<1>9. ASSUME NEW h \in Handles, NEW n \in GrowSizes, ShrinkOutside(h, n) PROVE NewPoolInv'
  <2>1. pc' = "wild" /\ UNCHANGED <<mp, header>>
    BY <1>9 DEF ShrinkOutside
  <2> QED BY <2>1 DEF NewPoolInv, MaxAllocServed, Carved
<1> QED BY <1>1, <1>2, <1>4, <1>5, <1>6, <1>7, <1>8, <1>9 DEF Next

(* With the rounding spared for, as client.c:363 does, a new pool serves   *)
(* every size up to the limit, whatever the size of the block and of a     *)
(* pointer.                                                                *)
THEOREM LimitServed ==
    ASSUME MinAlloc <= Spare + 1 PROVE Spec => []MaxAllocServed
<1>1. Init => NewPoolInv
  BY DEF Init, NewPoolInv, MaxAllocServed
<1>2. PoolInv /\ NewPoolInv /\ [Next]_vars => NewPoolInv'
  BY NewPoolNext
<1>3. NewPoolInv => MaxAllocServed
  BY DEF NewPoolInv
<1> QED BY <1>1, <1>2, <1>3, InitInv, NextInv, PTL DEF Spec
---------------------------------------------------------------------------
(* The list as the links have it, which need not be what was given back:   *)
(* a caller may give a chunk back twice, and the code hands out the last   *)
(* of several without cutting the link to it.  The chunks that can be      *)
(* reached from the head still are a path, each once, that ends in NULL or *)
(* in bytes of a caller.                                                   *)
IsPath(n, list, first, link) ==
    /\ n \in Nat /\ list \in [1..n -> DOMAIN link]
    /\ \A i, j \in 1..n : list[i] = list[j] => i = j
    /\ n # 0 => first = list[1]
    /\ n = 0 => first \in {NULL, Data}
    /\ \A i \in 1..n : IF i = n THEN link[list[i]] \in {NULL, Data}
                       ELSE link[list[i]] = list[i + 1]

(* A walk is at a chunk of the path, with its predecessor in hand; and a   *)
(* chunk found that is still on the path is its end, behind the tail.      *)
CallOnPath(n, list) ==
    /\ pc = "scan" /\ call.node \in Carved =>
          \E k \in 1..n : /\ call.node = list[k]
                          /\ call.prev = IF k = 1 THEN NULL ELSE list[k - 1]
    /\ pc = "done" => \A k \in 1..n : list[k] = call.node =>
                          k = n /\ k > 1 /\ list[k - 1] = tail

PathInv == \E n, list : IsPath(n, list, free, word) /\ CallOnPath(n, list)

(* A set of natural numbers that is not empty has a least one. *)
LEMMA LeastNumber ==
    ASSUME NEW S, S \subseteq Nat, S # {}
    PROVE  \E k \in S : \A i \in S : k <= i
<1>1. PICK k \in S : \A i \in S : ~(<<i, k>> \in OpToRel(<, Nat))
  BY NatLessThanWellFounded, WFMin
<1>2. ASSUME NEW i \in S PROVE k <= i
  <2>1. i \in Nat /\ k \in Nat
    OBVIOUS
  <2>2. i < k => <<i, k>> \in OpToRel(<, Nat)
    BY <2>1, Zenon DEF OpToRel
  <2>3. ~(i < k)
    BY <1>1, <2>2, Zenon
  <2> QED BY <2>1, <2>3
<1> QED BY <1>2

(* A path ends, so that no chunk on it is on a circle of links. *)
LEMMA NoCircle ==
    ASSUME NEW n, NEW list, NEW first, IsPath(n, list, first, word), Carved \subseteq Nat,
           DOMAIN word = Carved, NEW k \in 1..n
    PROVE  ~Circle(list[k])
<1> SUFFICES ASSUME NEW S \in SUBSET Carved, list[k] \in S, \A d \in S : word[d] \in S
             PROVE  FALSE
  BY DEF Circle
<1> DEFINE T == {i \in 1..n : list[n + 1 - i] \in S}
<1>1. n \in Nat
  BY DEF IsPath
<1>2. n + 1 - k \in T
  BY <1>1
<1>3. PICK p \in T : \A i \in T : p <= i
  <2>1. T \subseteq Nat
    BY <1>1
  <2> HIDE DEF T
  <2> QED BY <1>2, <2>1, LeastNumber
<1>4. p \in 1..n /\ list[n + 1 - p] \in S /\ n + 1 - p \in 1..n
  BY <1>1
<1>5. word[list[n + 1 - p]] \in S
  BY <1>4
<1> HIDE DEF T
<1>6. CASE p = 1
  <2>1. n + 1 - p = n
    BY <1>1, <1>6
  <2>2. word[list[n]] \in {NULL, Data}
    BY <1>4, <2>1 DEF IsPath
  <2> QED BY <1>5, <2>1, <2>2, ValuesAssumption
<1>7. CASE p # 1
  <2>1. n + 1 - p # n /\ (n + 1 - p) + 1 = n + 1 - (p - 1) /\ p - 1 \in 1..n
    BY <1>1, <1>4, <1>7
  <2>2. list[n + 1 - (p - 1)] \in S
    BY <1>4, <1>5, <2>1 DEF IsPath
  <2>3. p - 1 \in T
    BY <2>1, <2>2 DEF T
  <2>4. p <= p - 1
    BY <1>3, <2>3
  <2> QED BY <1>1, <1>4, <2>4
<1> QED BY <1>6, <1>7

(* Links that are cut shorten the path to the first of them. *)
LEMMA CutPath ==
    ASSUME NEW n, NEW list, NEW first, NEW link, NEW cut, IsPath(n, list, first, link),
           DOMAIN link \subseteq Nat, DOMAIN cut = DOMAIN link,
           \A i \in 1..n : cut[list[i]] # link[list[i]] => cut[list[i]] \in {NULL, Data}
    PROVE  \E m \in 0..n : /\ IsPath(m, [i \in 1..m |-> list[i]], first, cut)
                           /\ \A i \in 1..n : cut[list[i]] \in {NULL, Data} => m <= i
<1>1. n \in Nat
  BY DEF IsPath
<1>2. CASE n = 0
  <2>1. IsPath(0, [i \in 1..0 |-> list[i]], first, cut)
    BY <1>2 DEF IsPath
  <2> QED BY <1>2, <2>1
<1>3. CASE n # 0
  <2> DEFINE T == {i \in 1..n : cut[list[i]] \in {NULL, Data}}
  <2>1. n \in T
    BY <1>1, <1>3 DEF IsPath
  <2>2. PICK m \in T : \A i \in T : m <= i
    <3>1. T \subseteq Nat /\ T # {}
      BY <1>1, <2>1
    <3> HIDE DEF T
    <3> QED BY <3>1, LeastNumber
  <2>3. m \in 1..n /\ cut[list[m]] \in {NULL, Data}
    OBVIOUS
  <2> DEFINE short == [i \in 1..m |-> list[i]]
  <2>4. ASSUME NEW i \in 1..m, i # m
        PROVE  cut[list[i]] = list[i + 1]
    <3>1. i \in 1..n /\ i # n /\ ~(m <= i)
      BY <1>1, <2>3, <2>4
    <3>2. i \notin T
      BY <2>2, <3>1
    <3>3. cut[list[i]] = link[list[i]]
      BY <3>1, <3>2
    <3> QED BY <3>1, <3>3 DEF IsPath
  <2>5. IsPath(m, short, first, cut)
    <3>1. m \in Nat /\ m # 0 /\ 1..m \subseteq 1..n /\ 1 \in 1..m
      BY <1>1, <2>3
    <3>2. short \in [1..m -> DOMAIN cut] /\ \A i \in 1..m : short[i] = list[i]
      BY <3>1 DEF IsPath
    <3>3. \A i, j \in 1..m : short[i] = short[j] => i = j
      BY <3>1, <3>2 DEF IsPath
    <3>4. first = short[1]
      BY <1>3, <3>1, <3>2 DEF IsPath
    <3>5. ASSUME NEW i \in 1..m
          PROVE  IF i = m THEN cut[short[i]] \in {NULL, Data} ELSE cut[short[i]] = short[i + 1]
      <4>1. i # m => i + 1 \in 1..m
        BY <3>1
      <4> QED BY <2>3, <2>4, <3>2, <4>1
    <3> HIDE DEF short
    <3> QED BY <3>1, <3>2, <3>3, <3>4, <3>5 DEF IsPath
  <2>6. m \in 0..n
    BY <1>1, <2>3
  <2> QED BY <2>2, <2>5, <2>6
<1> QED BY <1>2, <1>3

(* Giving back a chunk c, wherever it is: the path ends with it.  Of the   *)
(* links only those before the tail have to be right, as the tail's is set *)
(* (client.c:471).                                                         *)
LEMMA RecyclePath ==
    ASSUME NEW n \in Nat, NEW D, D \subseteq Nat, NEW list \in [1..n -> D],
           \A i, j \in 1..n : list[i] = list[j] => i = j,
           n = 0 => free \in {NULL, Data},
           n # 0 => free = list[1],
           NEW w \in [D -> D \cup {NULL, Data}],
           \A i \in 1..n : \/ list[i] = tail
                           \/ IF i = n THEN w[list[i]] \in {NULL, Data}
                              ELSE w[list[i]] = list[i + 1],
           free # NULL => tail \in D,
           NEW c \in D, Recycle(c, w)
    PROVE  \E m, longer : IsPath(m, longer, free', word')
<1>1. /\ free' = IF free = NULL THEN c ELSE free
      /\ word' = IF free = NULL THEN [w EXCEPT ![c] = NULL]
                 ELSE [w EXCEPT ![tail] = c, ![c] = NULL]
  BY DEF Recycle
<1>2. NULL \notin D /\ Data \notin D /\ NULL # Data
  BY ValuesAssumption
<1>3. CASE free = NULL
  <2> DEFINE one == [i \in 1..1 |-> c]
  <2>1. free' = c /\ word' = [w EXCEPT ![c] = NULL]
    BY <1>1, <1>3
  <2>2. DOMAIN word' = D /\ word'[c] = NULL
    BY <2>1
  <2>3. one \in [1..1 -> D] /\ one[1] = c
    OBVIOUS
  <2>4. IsPath(1, one, free', word')
    <3> HIDE DEF one
    <3> QED BY <2>1, <2>2, <2>3 DEF IsPath
  <2> QED BY <2>4
<1>4. CASE free # NULL /\ n = 0
  <2>1. free' \in {NULL, Data}
    BY <1>1, <1>4
  <2>2. IsPath(0, [i \in 1..0 |-> c], free', word')
    BY <2>1 DEF IsPath
  <2> QED BY <2>2
<1>5. CASE free # NULL /\ n # 0
  <2>1. /\ free' = list[1] /\ tail \in D
        /\ word' = [w EXCEPT ![tail] = c, ![c] = NULL]
    BY <1>1, <1>5
  <2>2. /\ DOMAIN word' = D /\ word'[c] = NULL
        /\ tail # c => word'[tail] = c
        /\ \A d \in D : d # c /\ d # tail => word'[d] = w[d]
    BY <2>1
  <2> DEFINE T == {i \in 1..n : list[i] \in {tail, c}}
  <2>3. CASE T = {}
    <3>1. \A i \in 1..n : list[i] # tail /\ list[i] # c /\ list[i] \in D
      BY <2>3
    <3>2. \A i \in 1..n : word'[list[i]] = w[list[i]]
      BY <2>2, <3>1
    <3>3. \A i \in 1..n : IF i = n THEN word'[list[i]] \in {NULL, Data}
                          ELSE word'[list[i]] = list[i + 1]
      BY <3>1, <3>2
    <3>4. IsPath(n, list, free', word')
      BY <1>5, <2>1, <2>2, <3>3 DEF IsPath
    <3> QED BY <3>4
  <2>4. CASE T # {}
    <3>1. PICK p \in T : \A i \in T : p <= i
      <4>1. T \subseteq Nat
        OBVIOUS
      <4> HIDE DEF T
      <4> QED BY <2>4, <4>1, LeastNumber
    <3>2. p \in 1..n /\ list[p] \in {tail, c}
      OBVIOUS
    <3>3. ASSUME NEW i \in 1..p, i # p
          PROVE  /\ i \in 1..n /\ i + 1 \in 1..p
                 /\ word'[list[i]] = list[i + 1]
      <4>1. i \in 1..n /\ i # n /\ ~(p <= i) /\ i + 1 \in 1..p
        BY <3>2, <3>3
      <4>2. i \notin T
        BY <3>1, <4>1
      <4>3. list[i] # tail /\ list[i] # c /\ list[i] \in D
        BY <4>1, <4>2
      <4>4. word'[list[i]] = w[list[i]] /\ w[list[i]] = list[i + 1]
        BY <2>2, <4>1, <4>3
      <4> QED BY <4>1, <4>4
    <3> HIDE DEF T
    <3>4. CASE list[p] = c
      <4> DEFINE short == [i \in 1..p |-> list[i]]
      <4>1. p \in Nat /\ p # 0 /\ 1..p \subseteq 1..n /\ 1 \in 1..p
        BY <3>2
      <4>2. short \in [1..p -> D] /\ \A i \in 1..p : short[i] = list[i]
        BY <4>1
      <4>3. \A i, j \in 1..p : short[i] = short[j] => i = j
        BY <4>1, <4>2
      <4>4. free' = short[1]
        BY <2>1, <4>1, <4>2
      <4>5. ASSUME NEW i \in 1..p
            PROVE  IF i = p THEN word'[short[i]] \in {NULL, Data}
                   ELSE word'[short[i]] = short[i + 1]
        <5>1. CASE i = p
          BY <2>2, <3>4, <4>2, <5>1
        <5>2. CASE i # p
          BY <3>3, <4>2, <5>2
        <5> QED BY <5>1, <5>2
      <4> HIDE DEF short
      <4>6. IsPath(p, short, free', word')
        BY <2>2, <4>1, <4>2, <4>3, <4>4, <4>5 DEF IsPath
      <4> QED BY <4>6
    <3>5. CASE list[p] # c
      <4> DEFINE m == p + 1
                 longer == [i \in 1..m |-> IF i = m THEN c ELSE list[i]]
      <4>1. /\ m \in Nat /\ m # 0 /\ 1..p \subseteq 1..n /\ 1 \in 1..p /\ 1 \in 1..m /\ 1 # m
            /\ \A i \in 1..m : i # m => i \in 1..p
        BY <3>2
      <4>2. list[p] = tail /\ tail # c
        BY <3>2, <3>5
      <4>3. \A i \in 1..p : list[i] # c
        <5> SUFFICES ASSUME NEW i \in 1..p, list[i] = c PROVE FALSE
          OBVIOUS
        <5>1. i # p /\ i \in 1..n
          BY <3>5, <4>1
        <5>2. i \in T
          BY <5>1 DEF T
        <5> QED BY <3>1, <3>2, <5>1, <5>2
      <4>4. /\ longer \in [1..m -> D] /\ longer[m] = c
            /\ \A i \in 1..p : longer[i] = list[i] /\ i # m /\ i \in 1..m
        BY <3>2, <4>1
      <4> HIDE DEF longer
      <4>5. \A i, j \in 1..m : longer[i] = longer[j] => i = j
        <5> SUFFICES ASSUME NEW i \in 1..m, NEW j \in 1..m, longer[i] = longer[j]
                     PROVE  i = j
          OBVIOUS
        <5>1. CASE i = m /\ j # m
          BY <4>1, <4>3, <4>4, <5>1
        <5>2. CASE i # m /\ j = m
          BY <4>1, <4>3, <4>4, <5>2
        <5>3. CASE i # m /\ j # m
          BY <4>1, <4>4, <5>3
        <5> QED BY <5>1, <5>2, <5>3
      <4>6. free' = longer[1]
        BY <2>1, <4>1, <4>4
      <4>7. ASSUME NEW i \in 1..m
            PROVE  IF i = m THEN word'[longer[i]] \in {NULL, Data}
                   ELSE word'[longer[i]] = longer[i + 1]
        <5>1. CASE i = m
          BY <2>2, <4>4, <5>1
        <5>2. CASE i = p
          BY <2>2, <4>1, <4>2, <4>4, <5>2
        <5>3. CASE i # m /\ i # p
          <6>1. i \in 1..p
            BY <4>1, <5>3
          <6> QED BY <3>3, <4>4, <5>3, <6>1
        <5> QED BY <5>1, <5>2, <5>3
      <4>8. IsPath(m, longer, free', word')
        BY <2>2, <4>1, <4>4, <4>5, <4>6, <4>7 DEF IsPath
      <4> QED BY <4>8
    <3> QED BY <3>4, <3>5
  <2> QED BY <2>3, <2>4
<1> QED BY <1>3, <1>4, <1>5

(* A chunk taken out of the path: the links close over it, or it becomes   *)
(* the path's end, behind the tail, when it was the tail (client.c:398).   *)
LEMMA TakePath ==
    ASSUME PoolInv, PathInv, ScanTake
    PROVE  PathInv'
<1> DEFINE c == call.node
<1>1. /\ pc = "scan" /\ c \in Carved /\ Unlink(c) /\ pc' = "done"
      /\ UNCHANGED <<header, call>>
  BY DEF ScanTake, Scanning
<1>2. PICK n, list : IsPath(n, list, free, word) /\ CallOnPath(n, list)
  BY DEF PathInv
<1>3. /\ Carved \subseteq Nat /\ DOMAIN word = Carved
      /\ word \in [Carved -> Carved \cup {NULL, Data}]
      /\ NULL \notin Carved /\ Data \notin Carved
  BY ValuesAssumption DEF PoolInv, TypeOK
<1>4. PICK k \in 1..n : c = list[k] /\ call.prev = IF k = 1 THEN NULL ELSE list[k - 1]
  BY <1>1, <1>2 DEF CallOnPath
<1>5. /\ n \in Nat /\ n # 0 /\ list \in [1..n -> Carved]
      /\ \A i, j \in 1..n : list[i] = list[j] => i = j
      /\ free = list[1]
      /\ \A i \in 1..n : IF i = n THEN word[list[i]] \in {NULL, Data}
                         ELSE word[list[i]] = list[i + 1]
  BY <1>2, <1>3, <1>4 DEF IsPath
<1>6. /\ word' \in [Carved -> Carved \cup {NULL, Data}] /\ word'[c] = NULL
      /\ DOMAIN word' = Carved
  BY <1>1, <1>3 DEF Unlink, PoolInv, TypeOK
<1>7. k \in Nat /\ k # 0 /\ k <= n
  BY <1>5
<1>8. call.prev = NULL <=> k = 1
  BY <1>3, <1>4, <1>5, <1>7
<1> HIDE DEF c
<1>9. ASSUME NEW m \in Nat, NEW left \in [1..m -> Carved], \A i \in 1..m : left[i] # c
      PROVE  CallOnPath(m, left)'
  BY <1>1, <1>9 DEF CallOnPath, c
<1>10. CASE call.prev # NULL /\ c = tail
  <2> DEFINE short == [i \in 1..k |-> list[i]]
  <2>1. free' = free /\ tail' = list[k - 1] /\ word' = [word EXCEPT ![c] = NULL]
    BY <1>1, <1>4, <1>8, <1>10 DEF Unlink, c
  <2>2. 1..k \subseteq 1..n /\ 1 \in 1..k /\ k \in 1..k /\ k - 1 \in 1..k /\ k > 1
    BY <1>5, <1>7, <1>8, <1>10
  <2>3. short \in [1..k -> Carved] /\ \A i \in 1..k : short[i] = list[i]
    BY <1>5, <2>2
  <2>4. \A i, j \in 1..k : short[i] = short[j] => i = j
    BY <1>5, <2>2, <2>3
  <2> HIDE DEF short
  <2>5. ASSUME NEW i \in 1..k
        PROVE  IF i = k THEN word'[short[i]] \in {NULL, Data}
               ELSE word'[short[i]] = short[i + 1]
    <3>1. CASE i = k
      BY <1>4, <1>6, <2>3, <3>1
    <3>2. CASE i # k
      <4>1. i \in 1..n /\ i # n /\ i + 1 \in 1..k
        BY <1>5, <1>7, <3>2
      <4>2. list[i] # c /\ list[i] \in Carved /\ word[list[i]] = list[i + 1]
        BY <1>4, <1>5, <3>2, <4>1
      <4> QED BY <1>3, <2>1, <2>3, <3>2, <4>1, <4>2
    <3> QED BY <3>1, <3>2
  <2>6. IsPath(k, short, free', word')
    BY <1>5, <1>6, <1>7, <2>1, <2>2, <2>3, <2>4, <2>5 DEF IsPath
  <2>7. CallOnPath(k, short)'
    <3>1. \A i \in 1..k : short[i] = c => i = k
      BY <1>4, <1>7, <2>2, <2>3, <2>4
    <3>2. short[k - 1] = tail'
      BY <2>1, <2>2, <2>3
    <3> QED BY <1>1, <2>2, <3>1, <3>2 DEF CallOnPath, c
  <2> QED BY <2>6, <2>7 DEF PathInv
<1>11. CASE ~(call.prev # NULL /\ c = tail)
  <2> DEFINE m == n - 1
             left == [i \in 1..m |-> IF i < k THEN list[i] ELSE list[i + 1]]
  <2>1. /\ m \in Nat /\ m + 1 = n
        /\ \A i \in 1..m : i \in 1..n /\ i + 1 \in 1..n /\ i # n
    BY <1>5
  <2>2. /\ left \in [1..m -> Carved]
        /\ \A i \in 1..m : left[i] = IF i < k THEN list[i] ELSE list[i + 1]
    BY <1>5, <2>1
  <2> HIDE DEF left
  <2>3. \A i \in 1..m : left[i] # c
    <3> SUFFICES ASSUME NEW i \in 1..m PROVE left[i] # c
      OBVIOUS
    <3>1. CASE i < k
      BY <1>4, <1>5, <1>7, <2>1, <2>2, <3>1
    <3>2. CASE ~(i < k)
      BY <1>4, <1>5, <1>7, <2>1, <2>2, <3>2
    <3> QED BY <3>1, <3>2
  <2>4. \A i, j \in 1..m : left[i] = left[j] => i = j
    <3> SUFFICES ASSUME NEW i \in 1..m, NEW j \in 1..m, left[i] = left[j] PROVE i = j
      OBVIOUS
    <3> DEFINE at(l) == IF l < k THEN l ELSE l + 1
    <3>1. at(i) \in 1..n /\ at(j) \in 1..n
      BY <1>7, <2>1
    <3>2. left[i] = list[at(i)] /\ left[j] = list[at(j)]
      BY <2>2
    <3>3. at(i) = at(j)
      <4> HIDE DEF at
      <4> QED BY <1>5, <3>1, <3>2
    <3> QED BY <1>7, <2>1, <3>3
  <2>5. CallOnPath(m, left)'
    BY <1>9, <2>1, <2>2, <2>3
  <2>6. CASE k = 1
    <3>1. free' = word[c] /\ word' = [word EXCEPT ![c] = NULL]
      BY <1>1, <1>8, <2>6 DEF Unlink, c
    <3>2. \A i \in 1..m : left[i] = list[i + 1]
      BY <2>2, <2>6
    <3>3. \A i \in 1..m : word'[left[i]] = word[list[i + 1]]
      BY <1>3, <2>2, <2>3, <3>1, <3>2
    <3>4. \A i \in 1..m : IF i = m THEN word'[left[i]] \in {NULL, Data}
                          ELSE word'[left[i]] = left[i + 1]
      <4> SUFFICES ASSUME NEW i \in 1..m
                   PROVE  IF i = m THEN word'[left[i]] \in {NULL, Data}
                          ELSE word'[left[i]] = left[i + 1]
        OBVIOUS
      <4>1. CASE i = m
        BY <1>5, <2>1, <3>3, <4>1
      <4>2. CASE i # m
        <5>1. i + 1 \in 1..m /\ i + 1 # n
          BY <2>1, <4>2
        <5> QED BY <1>5, <2>1, <3>2, <3>3, <4>2, <5>1
      <4> QED BY <4>1, <4>2
    <3>5. m = 0 => free' \in {NULL, Data}
      BY <1>4, <1>5, <2>1, <2>6, <3>1
    <3>6. m # 0 => free' = left[1]
      <4> SUFFICES ASSUME m # 0 PROVE free' = left[1]
        OBVIOUS
      <4>1. 1 \in 1..m /\ 1 # n /\ 1 \in 1..n
        BY <2>1
      <4>2. word[list[1]] = list[2]
        BY <1>5, <4>1
      <4> QED BY <1>4, <2>6, <3>1, <3>2, <4>1, <4>2
    <3>7. IsPath(m, left, free', word')
      BY <1>6, <2>1, <2>2, <2>4, <3>4, <3>5, <3>6 DEF IsPath
    <3> QED BY <2>5, <3>7 DEF PathInv
  <2>7. CASE k # 1
    <3>1. /\ free' = free /\ call.prev = list[k - 1]
          /\ word' = [word EXCEPT ![list[k - 1]] = word[c], ![c] = NULL]
      BY <1>1, <1>4, <1>8, <1>11, <2>7 DEF Unlink, c
    <3>2. /\ k - 1 \in 1..m /\ k - 1 \in 1..n /\ left[k - 1] = list[k - 1]
          /\ list[k - 1] # c /\ list[k - 1] \in Carved
      BY <1>4, <1>5, <1>7, <2>1, <2>2, <2>7
    <3>3. word'[list[k - 1]] = word[c]
      BY <1>3, <3>1, <3>2
    <3>4. ASSUME NEW i \in 1..m
          PROVE  IF i = m THEN word'[left[i]] \in {NULL, Data}
                 ELSE word'[left[i]] = left[i + 1]
      <4>1. CASE i = k - 1
        <5>1. word'[left[i]] = word[list[k]]
          BY <1>4, <3>2, <3>3, <4>1
        <5>2. CASE i = m
          BY <1>5, <1>7, <2>1, <4>1, <5>1, <5>2
        <5>3. CASE i # m
          <6>1. left[i + 1] = list[k + 1] /\ k # n
            BY <1>7, <2>1, <2>2, <4>1, <5>3
          <6> QED BY <1>4, <1>5, <5>1, <5>3, <6>1
        <5> QED BY <5>2, <5>3
      <4>2. CASE i # k - 1
        <5>1. left[i] # list[k - 1] /\ left[i] # c /\ left[i] \in Carved
          BY <2>2, <2>3, <2>4, <3>2, <4>2
        <5>2. word'[left[i]] = word[left[i]]
          BY <1>3, <3>1, <5>1
        <5>3. CASE i < k
          <6>1. left[i] = list[i] /\ i + 1 < k /\ i + 1 \in 1..m /\ i # m
            BY <1>7, <2>1, <2>2, <4>2, <5>3
          <6>2. left[i + 1] = list[i + 1]
            BY <2>2, <6>1
          <6> QED BY <1>5, <2>1, <5>2, <6>1, <6>2
        <5>4. CASE ~(i < k)
          <6>1. left[i] = list[i + 1] /\ i + 1 \in 1..n
            BY <2>1, <2>2, <5>4
          <6>2. CASE i = m
            BY <1>5, <2>1, <5>2, <6>1, <6>2
          <6>3. CASE i # m
            <7>1. i + 1 \in 1..m /\ i + 1 # n /\ ~(i + 1 < k) /\ (i + 1) + 1 = i + 2
              BY <1>7, <2>1, <5>4, <6>3
            <7>2. left[i + 1] = list[(i + 1) + 1] /\ word[list[i + 1]] = list[(i + 1) + 1]
              BY <1>5, <2>2, <6>1, <7>1
            <7> QED BY <5>2, <6>1, <6>3, <7>2
          <6> QED BY <6>2, <6>3
        <5> QED BY <5>3, <5>4
      <4> QED BY <4>1, <4>2
    <3>5. m # 0 /\ free' = left[1]
      BY <1>5, <1>7, <2>1, <2>2, <2>7, <3>1
    <3>6. IsPath(m, left, free', word')
      BY <1>6, <2>1, <2>2, <2>4, <3>4, <3>5 DEF IsPath
    <3> QED BY <2>5, <3>6 DEF PathInv
  <2> QED BY <2>6, <2>7
<1> QED BY <1>10, <1>11

LEMMA PathInit == Init => PathInv
<1> SUFFICES ASSUME Init PROVE PathInv
  OBVIOUS
<1>1. IsPath(0, [i \in 1..0 |-> NULL], free, word)
  BY DEF Init, IsPath, NoChunks
<1>2. CallOnPath(0, [i \in 1..0 |-> NULL])
  BY DEF Init, CallOnPath
<1> QED BY <1>1, <1>2 DEF PathInv

LEMMA PathNext == PoolInv /\ PathInv /\ [Next]_vars => PathInv'
<1> SUFFICES ASSUME PoolInv, PathInv, [Next]_vars PROVE PathInv'
  OBVIOUS
<1>1. PICK n, list : IsPath(n, list, free, word) /\ CallOnPath(n, list)
  BY DEF PathInv
<1>2. /\ Carved \subseteq Nat /\ DOMAIN word = Carved
      /\ word \in [Carved -> Carved \cup {NULL, Data}]
      /\ NULL \notin Carved /\ Data \notin Carved
      /\ free \in Carved \cup {NULL, Data}
      /\ free # NULL => tail \in Carved
  BY ValuesAssumption DEF PoolInv, TypeOK, TailWritable
<1>3. /\ n \in Nat /\ list \in [1..n -> Carved]
      /\ \A i, j \in 1..n : list[i] = list[j] => i = j
      /\ n # 0 => free = list[1]
      /\ n = 0 => free \in {NULL, Data}
      /\ \A i \in 1..n : IF i = n THEN word[list[i]] \in {NULL, Data}
                         ELSE word[list[i]] = list[i + 1]
  BY <1>1, <1>2 DEF IsPath
(* Where no call runs, the path alone counts *)
<1>4. ASSUME pc' = "idle", NEW m, NEW other, IsPath(m, other, free', word') PROVE PathInv'
  <2>1. CallOnPath(m, other)'
    BY <1>4 DEF CallOnPath
  <2> QED BY <1>4, <2>1 DEF PathInv
<1>5. ASSUME UNCHANGED <<free, tail, word, header, pc, call>> PROVE PathInv'
  <2>1. IsPath(n, list, free', word') /\ CallOnPath(n, list)'
    BY <1>1, <1>5 DEF CallOnPath, Carved
  <2> QED BY <2>1 DEF PathInv
<1>6. CASE UNCHANGED vars \/ CreatePool
  BY <1>5, <1>6 DEF vars, CreatePool
<1>7. CASE DeletePool
  <2>1. pc' = "idle" /\ free' = NULL /\ DOMAIN word' = {}
    BY <1>7 DEF DeletePool, NoChunks
  <2>2. IsPath(0, [i \in 1..0 |-> NULL], free', word')
    BY <2>1 DEF IsPath
  <2> QED BY <1>4, <2>1, <2>2
<1>8. ASSUME NEW op, NEW h, NEW m \in Nat, StartGet(op, h, m) PROVE PathInv'
  <2> DEFINE size == AlignUp(m)
             new == mp + MetaSize
             request == [op |-> op, h |-> h, asked |-> m, size |-> size, prev |-> NULL, node |-> NULL]
  <2>1. CASE pc' = "done" /\ call' = request /\ UNCHANGED state
    <3>1. call'.node = NULL
      BY <2>1
    <3>2. IsPath(n, list, free', word') /\ CallOnPath(n, list)'
      BY <1>1, <1>2, <1>3, <2>1, <3>1 DEF state, CallOnPath
    <3> QED BY <3>2 DEF PathInv
  <2>2. CASE /\ word' = [c \in Carved \cup {new} |-> IF c = new THEN NULL ELSE word[c]]
             /\ pc' = "done" /\ call' = [request EXCEPT !.node = new]
             /\ UNCHANGED <<free, tail>>
    <3>1. new \notin Carved
      <4>1. mp \in Nat /\ \A c \in Carved : c \in Nat /\ header[c] \in Nat /\ c + header[c] <= mp
        <5>1. header \in [Carved -> 0..MaxUint16] /\ mp \in Nat
          BY DEF PoolInv, TypeOK
        <5> QED BY <1>2, <5>1, MaxUint16Nat DEF PoolInv, ChunksInPool
      <4> QED BY <4>1 DEF MetaSize
    <3>2. call'.node = new
      BY <2>2
    <3>3. DOMAIN word' = Carved \cup {new} /\ \A c \in Carved : word'[c] = word[c]
      BY <2>2, <3>1
    <3> HIDE DEF new
    <3>4. IsPath(n, list, free', word')
      BY <1>3, <2>2, <3>3 DEF IsPath
    <3>5. CallOnPath(n, list)'
      BY <1>3, <2>2, <3>1, <3>2 DEF CallOnPath
    <3> QED BY <3>4, <3>5 DEF PathInv
  <2>3. CASE pc' = "scan" /\ call' = [request EXCEPT !.node = free] /\ UNCHANGED state
    <3>1. call'.node = free /\ call'.prev = NULL
      BY <2>3
    <3>2. UNCHANGED <<free, word, header>>
      BY <2>3 DEF state
    <3>3. CallOnPath(n, list)'
      <4>1. free \in Carved => n # 0 /\ 1 \in 1..n /\ free = list[1]
        BY <1>2, <1>3
      <4> QED BY <2>3, <3>1, <3>2, <4>1 DEF CallOnPath, Carved
    <3> QED BY <1>1, <3>2, <3>3 DEF PathInv
  <2> QED BY <1>8, <2>1, <2>2, <2>3 DEF StartGet
<1>9. ASSUME NEW h \in Handles, NEW m \in Sizes, Get(h, m) PROVE PathInv'
  BY <1>8, <1>9, SizesAssumption DEF Get
<1>10. ASSUME NEW h \in Handles, NEW m \in GrowSizes, GrowByMoving(h, m) PROVE PathInv'
  BY <1>8, <1>10, SizesAssumption, MaxUint16Nat DEF GrowByMoving
(* Words that become bytes of a caller, or zero *)
<1>11. ASSUME pc' = "idle", free' = free, DOMAIN word' = Carved,
              \A c \in Carved : word'[c] # word[c] => word'[c] \in {NULL, Data}
       PROVE  PathInv'
  <2>1. \E m \in 0..n : IsPath(m, [i \in 1..m |-> list[i]], free, word')
    <3>1. \A i \in 1..n : word'[list[i]] # word[list[i]] => word'[list[i]] \in {NULL, Data}
      BY <1>3, <1>11
    <3> QED BY <1>1, <1>2, <1>11, <3>1, CutPath
  <2> QED BY <1>4, <1>11, <2>1
<1>12. ASSUME NEW h \in Handles, NEW m \in GrowSizes, GrowInPlace(h, m) PROVE PathInv'
  <2> DEFINE lo == ptr[h] + GivenUp(h, m)
             hi == ClearedUpTo(h, m)
  <2>1. /\ pc' = "idle" /\ free' = free
        /\ word' = [c \in Carved |-> ClearedWord(c, lo, hi)]
    BY <1>12 DEF GrowInPlace
  <2> HIDE DEF lo, hi
  <2>2. \A c \in Carved : word'[c] # word[c] => word'[c] \in {NULL, Data}
    BY <2>1 DEF ClearedWord
  <2> QED BY <1>11, <2>1, <2>2
<1>13. ASSUME NEW h \in Handles, Write(h) PROVE PathInv'
  <2>1. pc' = "idle" /\ free' = free /\ word' = [word EXCEPT ![ptr[h]] = Data]
    BY <1>13 DEF Write
  <2>2. DOMAIN word' = Carved /\ \A c \in Carved : word'[c] # word[c] => word'[c] = Data
    BY <1>2, <2>1
  <2> QED BY <1>11, <2>1, <2>2
<1>14. ASSUME NEW h \in Handles, GrowToNothing(h) \/ DeleteChunk(h) PROVE PathInv'
  <2>1. pc' = "idle" /\ Recycle(ptr[h], word) /\ ptr[h] \in Carved
    BY <1>14 DEF GrowToNothing, DeleteChunk, PoolInv, CallOK, TypeOK
  <2>2. \A i \in 1..n : \/ list[i] = tail
                         \/ IF i = n THEN word[list[i]] \in {NULL, Data}
                            ELSE word[list[i]] = list[i + 1]
    BY <1>3, Zenon
  <2>3. \E m, other : IsPath(m, other, free', word')
    BY <1>2, <1>3, <2>1, <2>2, RecyclePath, Zenon
  <2> QED BY <1>4, <2>1, <2>3
<1>15. CASE ScanStep
  <2>1. /\ pc = "scan" /\ call.node \in Carved
        /\ call' = [call EXCEPT !.prev = call.node, !.node = word[call.node]]
        /\ UNCHANGED <<free, word, tail, header, pc>>
    BY <1>15 DEF ScanStep, Scanning
  <2>2. call'.prev = call.node /\ call'.node = word[call.node]
    BY <2>1 DEF PoolInv, TypeOK
  <2>3. PICK k \in 1..n : call.node = list[k]
    BY <1>1, <2>1 DEF CallOnPath
  <2>4. call'.node \in Carved => k + 1 \in 1..n /\ k + 1 # 1 /\ (k + 1) - 1 = k
                                 /\ call'.node = list[k + 1]
    <3>1. CASE k = n
      BY <1>2, <1>3, <2>2, <2>3, <3>1
    <3>2. CASE k # n
      BY <1>3, <2>2, <2>3, <3>2
    <3> QED BY <3>1, <3>2
  <2>5. CallOnPath(n, list)'
    BY <2>1, <2>2, <2>3, <2>4 DEF CallOnPath, Carved
  <2> QED BY <1>1, <2>1, <2>5 DEF PathInv
<1>16. CASE ScanTake
  BY <1>16, TakePath
<1>17. CASE ScanMiss \/ ScanWild
  <2>1. /\ UNCHANGED <<free, word, tail, call>>
        /\ \/ pc' = "done" /\ call.node = NULL
           \/ pc' = "wild"
    BY <1>17 DEF ScanMiss, ScanWild
  <2>2. CallOnPath(n, list)'
    BY <1>2, <1>3, <2>1 DEF CallOnPath
  <2> QED BY <1>1, <2>1, <2>2 DEF PathInv
<1>18. CASE ReturnGet
  <2>1. pc' = "idle" /\ UNCHANGED <<free, word>>
    BY <1>18 DEF ReturnGet
  <2> QED BY <1>1, <1>4, <2>1
<1>19. CASE ReturnGrow /\ call.node = NULL
  <2>1. pc' = "idle" /\ UNCHANGED <<free, word>>
    BY <1>19 DEF ReturnGrow
  <2> QED BY <1>1, <1>4, <2>1
<1>20. CASE ReturnGrow /\ call.node # NULL
  <2> DEFINE old == ptr[call.h]
             node == call.node
             copied == [word EXCEPT ![node] = word[old]]
  <2>1. pc = "done" /\ pc' = "idle" /\ Recycle(old, copied)
    BY <1>20 DEF ReturnGrow
  <2>2. old \in Carved /\ node \in Carved
    BY <1>20, <2>1 DEF ReturnGrow, PoolInv, CallOK, TypeOK
  <2>3. /\ copied \in [Carved -> Carved \cup {NULL, Data}]
        /\ \A c \in Carved : c # node => copied[c] = word[c]
    BY <1>2, <2>2
  <2>4. \A k \in 1..n : list[k] = node => k = n /\ k > 1 /\ list[k - 1] = tail
    BY <1>1, <2>1 DEF CallOnPath
  <2> HIDE DEF old, node, copied
  <2>5. CASE \A k \in 1..n : list[k] # node
    <3>1. \A i \in 1..n : copied[list[i]] = word[list[i]]
      BY <1>3, <2>3, <2>5
    <3>2. \A i \in 1..n : \/ list[i] = tail
                           \/ IF i = n THEN copied[list[i]] \in {NULL, Data}
                              ELSE copied[list[i]] = list[i + 1]
      BY <1>3, <3>1
    <3>3. \E m, other : IsPath(m, other, free', word')
      BY <1>2, <1>3, <2>1, <2>2, <2>3, <3>2, RecyclePath, Zenon
    <3> QED BY <1>4, <2>1, <3>3
  <2>6. CASE \E k \in 1..n : list[k] = node
    <3> DEFINE m == n - 1
               short == [i \in 1..m |-> list[i]]
    <3>1. n > 1 /\ list[n] = node /\ list[n - 1] = tail
      BY <2>4, <2>6
    <3>2. /\ m \in Nat /\ m # 0 /\ 1 \in 1..m
          /\ \A i \in 1..m : i \in 1..n /\ i # n /\ (i # m => i + 1 \in 1..m)
      BY <1>3, <3>1
    <3>3. short \in [1..m -> Carved] /\ \A i \in 1..m : short[i] = list[i]
      BY <1>3, <3>2
    <3>4. \A i, j \in 1..m : short[i] = short[j] => i = j
      BY <1>3, <3>2, <3>3
    <3>5. short[m] = tail /\ free = short[1]
      BY <1>3, <3>1, <3>2, <3>3
    <3> HIDE DEF short
    <3>6. \A i \in 1..m : \/ short[i] = tail
                          \/ IF i = m THEN copied[short[i]] \in {NULL, Data}
                             ELSE copied[short[i]] = short[i + 1]
      <4> SUFFICES ASSUME NEW i \in 1..m, i # m PROVE copied[short[i]] = short[i + 1]
        BY <3>5
      <4>1. list[i] # node /\ list[i] \in Carved /\ word[list[i]] = list[i + 1]
        BY <1>3, <3>1, <3>2
      <4> QED BY <2>3, <3>2, <3>3, <4>1
    <3>7. (m = 0 => free \in {NULL, Data}) /\ (m # 0 => free = short[1])
      BY <3>2, <3>5
    <3>8. m \in Nat
      BY <3>2
    <3> HIDE DEF m
    <3>9. \E l, other : IsPath(l, other, free', word')
      BY ONLY <1>2, <2>1, <2>2, <2>3, <3>3, <3>4, <3>6, <3>7, <3>8, RecyclePath, Zenon
    <3> QED BY <1>4, <2>1, <3>9
  <2> QED BY <2>5, <2>6
<1>21. ASSUME pc' = "wild", UNCHANGED <<free, word>> PROVE PathInv'
  <2>1. CallOnPath(n, list)'
    BY <1>21 DEF CallOnPath
  <2> QED BY <1>1, <1>21, <2>1 DEF PathInv
<1>22. CASE CopyOutside
  BY <1>21, <1>22 DEF CopyOutside
<1>23. ASSUME NEW h \in Handles, NEW m \in GrowSizes, ShrinkOutside(h, m) PROVE PathInv'
  BY <1>21, <1>23 DEF ShrinkOutside
<1> QED BY <1>6, <1>7, <1>9, <1>10, <1>12, <1>13, <1>14, <1>15, <1>16, <1>17, <1>18, <1>19,
           <1>20, <1>22, <1>23 DEF Next, Continue

LEMMA PathIsUsable == PoolInv /\ PathInv => ListUsable
<1> SUFFICES ASSUME PoolInv, PathInv PROVE ListUsable
  OBVIOUS
<1>1. PICK n, list : IsPath(n, list, free, word) /\ CallOnPath(n, list)
  BY DEF PathInv
<1>2. /\ Carved \subseteq Nat /\ DOMAIN word = Carved
      /\ NULL \notin Carved /\ Data \notin Carved
  BY ValuesAssumption DEF PoolInv, TypeOK
<1>3. \A k \in 1..n : ~Circle(list[k])
  BY <1>1, <1>2, NoCircle
<1>4. \A c : Circle(c) => c \in Carved
  BY DEF Circle
<1>5. ~Circle(free)
  <2>1. n # 0 => 1 \in 1..n /\ free = list[1]
    BY <1>1 DEF IsPath
  <2>2. n = 0 => free \notin Carved
    BY <1>1, <1>2 DEF IsPath
  <2> QED BY <1>3, <1>4, <2>1, <2>2
<1>6. Scanning => ~Circle(call.node)
  BY <1>1, <1>3, <1>4 DEF Scanning, CallOnPath
<1> QED BY <1>5, <1>6 DEF ListUsable, PoolInv

(* Whatever the callers do, also when they give chunks back twice and are  *)
(* handed a chunk that another has: the tail of a list that is not empty   *)
(* is a chunk, and following the links never leads back                    *)
(* (client.c:389, 397-398, 466-472).                                       *)
THEOREM ListStaysUsable == Spec => []ListUsable
<1>1. PoolInv /\ PathInv /\ [Next]_vars => PathInv'
  BY PathNext
<1> QED BY <1>1, InitInv, NextInv, PathInit, PathIsUsable, PTL DEF Spec

---------------------------------------------------------------------------
(* The chunks that a walk from c on may come to: those in every set with c *)
(* that the links do not lead out of                                       *)
LinksStay(S) == \A d \in S : word[d] \in Carved => word[d] \in S
Ahead(c) == {d \in Carved : /\ c \in Carved
                            /\ \A S \in SUBSET Carved : c \in S /\ LinksStay(S) => d \in S}

(* A chunk that is on no circle is not ahead of the one it links to. *)
LEMMA LinkLeavesBehind ==
    ASSUME word \in [Carved -> Carved \cup {NULL, Data}], NULL \notin Carved, Data \notin Carved,
           NEW c \in Carved, ~Circle(c)
    PROVE  /\ c \in Ahead(c) /\ c \notin Ahead(word[c])
           /\ Ahead(word[c]) \subseteq Ahead(c)
<1>1. c \in Ahead(c)
  BY DEF Ahead
<1>2. Ahead(word[c]) \subseteq Ahead(c)
  BY DEF Ahead, LinksStay
<1>3. ASSUME c \in Ahead(word[c]) PROVE FALSE
  <2> DEFINE U == {e \in Carved : c \in Ahead(e)}
  <2>1. c \in U
    BY <1>1
  <2>2. ASSUME NEW e \in U PROVE word[e] \in U
    <3>1. CASE e = c
      BY <1>3, <3>1 DEF Ahead
    <3>2. CASE e # c
      <4>1. word[e] \in Carved
        <5>1. word[e] \notin Carved => LinksStay({e})
          BY DEF LinksStay
        <5> QED BY <3>2, <5>1 DEF Ahead
      <4>2. ASSUME NEW S \in SUBSET Carved, word[e] \in S, LinksStay(S) PROVE c \in S
        <5>1. LinksStay(S \cup {e}) /\ S \cup {e} \in SUBSET Carved
          BY <4>2 DEF LinksStay
        <5>2. c \in S \cup {e}
          BY <5>1 DEF Ahead
        <5> QED BY <3>2, <5>2
      <4> QED BY <4>1, <4>2 DEF Ahead
    <3> QED BY <3>1, <3>2
  <2>3. U \in SUBSET Carved
    OBVIOUS
  <2> HIDE DEF U
  <2> QED BY <2>1, <2>2, <2>3 DEF Circle
<1> QED BY <1>1, <1>2, <1>3

StepsToChunk == Cardinality(Ahead(call.node))

CloserToChunk ==
    Scanning => /\ StepsToChunk \in Nat
                /\ \/ pc' \in {"done", "wild"}
                   \/ Scanning' /\ StepsToChunk' \in Nat /\ StepsToChunk' < StepsToChunk

LEMMA ChunksFinite == PoolInv => IsFiniteSet(Carved)
<1> SUFFICES ASSUME PoolInv PROVE IsFiniteSet(Carved)
  OBVIOUS
<1>1. Carved \in SUBSET Nat /\ mp \in Nat
  BY DEF PoolInv, TypeOK
<1>2. \A c \in Carved : c <= mp
  <2>1. header \in [Carved -> 0..MaxUint16] /\ \A c \in Carved : c + header[c] <= mp
    BY DEF PoolInv, TypeOK, ChunksInPool
  <2> QED BY <1>1, <2>1, MaxUint16Nat
<1> QED BY <1>1, <1>2, FS_BoundedSetOfNaturals

(* Only a pool that is there has calls. *)
CallsNeedPool == pc # "idle" => pool = "open"

LEMMA CallsKeepPool == CallsNeedPool /\ [Next]_vars => CallsNeedPool'
<1> SUFFICES ASSUME CallsNeedPool, [Next]_vars PROVE CallsNeedPool'
  OBVIOUS
<1>1. CASE UNCHANGED vars
  BY <1>1 DEF vars, CallsNeedPool
<1>2. CASE CreatePool \/ DeletePool
  BY <1>2 DEF CreatePool, DeletePool, CallsNeedPool
<1>3. ASSUME NEW h, NEW n, Get(h, n) \/ GrowByMoving(h, n) \/ GrowInPlace(h, n)
                               \/ ShrinkOutside(h, n)
      PROVE  CallsNeedPool'
  BY <1>3 DEF Get, GrowByMoving, StartGet, GrowInPlace, ShrinkOutside, state, CallsNeedPool
<1>4. ASSUME NEW h, GrowToNothing(h) \/ DeleteChunk(h) \/ Write(h) PROVE CallsNeedPool'
  BY <1>4 DEF GrowToNothing, DeleteChunk, Write, CallsNeedPool
<1>5. CASE Continue
  BY <1>5 DEF Continue, ScanStep, ScanTake, ScanMiss, ScanWild, ReturnGet, ReturnGrow,
              CopyOutside, Scanning, CallsNeedPool
<1> QED BY <1>1, <1>2, <1>3, <1>4, <1>5 DEF Next

(* Every turn of the loop over the list leaves fewer chunks ahead, or is   *)
(* the last, whatever the callers did before (client.c:386-401).           *)
THEOREM WalkDescends == Spec => [][CloserToChunk]_vars
<1>1. PoolInv /\ ListUsable /\ CallsNeedPool /\ [Next]_vars => [CloserToChunk]_vars
  <2> SUFFICES ASSUME PoolInv, ListUsable, CallsNeedPool, Next, Scanning
               PROVE  /\ StepsToChunk \in Nat
                      /\ \/ pc' \in {"done", "wild"}
                         \/ /\ Scanning' /\ StepsToChunk' \in Nat
                            /\ StepsToChunk' < StepsToChunk
    BY DEF CloserToChunk
  <2>1. IsFiniteSet(Carved)
    BY ChunksFinite
  <2>2. \A c : IsFiniteSet(Ahead(c)) /\ Cardinality(Ahead(c)) \in Nat
    <3> TAKE c
    <3>1. Ahead(c) \in SUBSET Carved
      BY DEF Ahead
    <3> QED BY <2>1, <3>1, FS_Subset, FS_CardinalityType
  <2>3. StepsToChunk \in Nat
    BY <2>2 DEF StepsToChunk
  <2>4. CASE ScanStep
    <3>1. /\ call.node \in Carved /\ ~Circle(call.node) /\ Scanning'
          /\ call' = [call EXCEPT !.prev = call.node, !.node = word[call.node]]
          /\ UNCHANGED <<header, word>>
      BY <2>4 DEF ScanStep, ListUsable, Scanning
    <3>2. call'.node = word[call.node]
      BY <3>1 DEF PoolInv, CallOK, Scanning
    <3>3. /\ word \in [Carved -> Carved \cup {NULL, Data}]
          /\ NULL \notin Carved /\ Data \notin Carved
      BY ValuesAssumption DEF PoolInv, TypeOK
    <3>4. StepsToChunk' = Cardinality(Ahead(word[call.node]))
      BY <3>1, <3>2 DEF StepsToChunk, Ahead, LinksStay, Carved
    <3>5. /\ call.node \in Ahead(call.node) /\ call.node \notin Ahead(word[call.node])
          /\ Ahead(word[call.node]) \subseteq Ahead(call.node)
      BY <3>1, <3>3, LinkLeavesBehind
    <3>6. /\ Cardinality(Ahead(word[call.node])) <= Cardinality(Ahead(call.node))
          /\ Cardinality(Ahead(word[call.node])) # Cardinality(Ahead(call.node))
      BY <2>2, <3>5, FS_Subset
    <3> QED BY <2>2, <3>1, <3>4, <3>6 DEF StepsToChunk
  <2>5. CASE ScanTake \/ ScanMiss \/ ScanWild
    BY <2>3, <2>5 DEF ScanTake, ScanMiss, ScanWild
  <2>6. \A h : /\ \A n : ~Get(h, n) /\ ~GrowInPlace(h, n) /\ ~ShrinkOutside(h, n)
                        /\ ~GrowByMoving(h, n)
               /\ ~GrowToNothing(h) /\ ~DeleteChunk(h)
               /\ ~Write(h)
    BY DEF Scanning, Get, GrowInPlace, ShrinkOutside, GrowByMoving, StartGet, GrowToNothing, DeleteChunk, Write
  <2>7. ~CreatePool /\ ~DeletePool /\ ~ReturnGet /\ ~ReturnGrow /\ ~CopyOutside
    BY DEF Scanning, CallsNeedPool, CreatePool, DeletePool, ReturnGet, ReturnGrow, CopyOutside
  <2> QED BY <2>4, <2>5, <2>6, <2>7 DEF Next, Continue
<1>2. Init => CallsNeedPool
  BY DEF Init, CallsNeedPool
<1> QED BY <1>1, <1>2, CallsKeepPool, InitInv, NextInv, ListStaysUsable, PTL DEF Spec
=============================================================================
