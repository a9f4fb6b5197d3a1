---------------------------- MODULE VectorProofs ----------------------------
(***************************************************************************)
(* Vectors are stacks of bounded depth, for every capacity and every item; *)
(* and the bytes of a block hold its items, for every width of the         *)
(* arithmetic.                                                             *)
(***************************************************************************)
EXTENDS Vector, VectorBlock, SequenceTheorems, TLAPS

Cell == Items \cup {Zero}

(* The first k items of a sequence. *)
LEMMA FirstItems ==
    ASSUME NEW s \in Seq(Cell), NEW k \in 0..Len(s)
    PROVE  /\ SubSeq(s, 1, k) \in Seq(Cell)
           /\ Len(SubSeq(s, 1, k)) = k
           /\ \A i \in 1..k : SubSeq(s, 1, k)[i] = s[i]
<1>1. Len(s) \in Nat /\ k \in Nat
  BY LenProperties
<1>2. \A i \in 1..k : s[i] \in Cell
  BY <1>1, ElementOfSeq
<1>3. /\ SubSeq(s, 1, k) \in Seq(Cell)
      /\ Len(SubSeq(s, 1, k)) = IF 1 <= k THEN k - 1 + 1 ELSE 0
      /\ \A i \in 1..(k - 1 + 1) : SubSeq(s, 1, k)[i] = s[1 + i - 1]
  BY <1>1, <1>2, SubSeqProperties
<1> QED BY <1>1, <1>3

(* A new vector's cells. *)
LEMMA NewCells ==
    ASSUME NEW n \in Nat
    PROVE  LET new == [i \in 1..n |-> Zero]
           IN new \in Seq(Cell) /\ Len(new) = n
<1> DEFINE new == [i \in 1..n |-> Zero]
<1>1. new \in [1..n -> Cell]
  BY DEF Cell
<1>2. new \in Seq(Cell)
  BY <1>1, SeqDef
<1>3. DOMAIN new = 1..Len(new) /\ Len(new) \in Nat
  BY <1>2, LenProperties
<1>4. DOMAIN new = 1..n
  OBVIOUS
<1>5. Len(new) = n
  <2> HIDE DEF new
  <2> DEFINE k == Len(new)
  <2>1. k \in Nat /\ 1..n = 1..k
    BY <1>3, <1>4
  <2> HIDE DEF k
  <2>2. \A i \in Nat : i \in 1..n <=> i \in 1..k
    BY <2>1
  <2>3. k = n
    BY ONLY <2>1, <2>2, n \in Nat
  <2> QED BY <2>3 DEF k
<1> QED BY <1>2, <1>5

---------------------------------------------------------------------------
(* The use stays within the capacity, and the capacity within the largest  *)
(* asked for (v_base.h:133-153, 206-241).                                  *)
LEMMA TypeStep == ASSUME TypeOK, [Next]_vars PROVE TypeOK'
<1> USE DEF TypeOK, Fail, vector
<1>1. cells \in Seq(Cell) /\ Len(cells) \in Nat /\ used \in 0..Len(cells) /\ used \in Nat
  BY LenProperties DEF Cell, cap
<1>2. ASSUME NEW n \in Caps, Create(n) PROVE TypeOK'
  <2>1. n \in Nat /\ n <= MaxBound
    BY CapsAssumption
  <2>2. CASE Fail("aborted")
    BY <1>2, <2>2 DEF cap
  <2>3. CASE cells' = [i \in 1..n |-> Zero] /\ used' = 0 /\ there' = TRUE /\ UNCHANGED state
    <3>1. cells' \in Seq(Cell) /\ Len(cells') = n
      BY <2>1, <2>3, NewCells
    <3> QED BY <2>1, <2>3, <3>1 DEF cap, Cell
  <2> QED BY <1>2, <2>2, <2>3 DEF Create
<1>3. ASSUME NEW n \in Caps, Shrink(n) PROVE TypeOK'
  <2>1. n \in Nat /\ n \in 0..Len(cells)
    BY <1>1, <1>3, CapsAssumption DEF Shrink, cap
  <2>2. cells' \in Seq(Cell) /\ Len(cells') = n
    BY <1>1, <1>3, <2>1, FirstItems DEF Shrink
  <2> QED BY <1>1, <1>3, <2>1, <2>2, CapsAssumption DEF Shrink, cap, Cell
<1>4. ASSUME NEW x \in Items, Push(x) PROVE TypeOK'
  <2>1. used + 1 \in 1..Len(cells) /\ x \in Cell
    BY <1>1, <1>4 DEF Push, Full, cap, Cell
  <2>2. cells' \in Seq(Cell) /\ Len(cells') = Len(cells)
    BY <1>1, <1>4, <2>1, ExceptSeq DEF Push
  <2> QED BY <1>1, <1>4, <2>1, <2>2 DEF Push, cap, Cell
<1>5. ASSUME NEW x \in Items, NEW i \in Indices, Insert(x, i) PROVE TypeOK'
  <2>1. cvtindex(i) + 1 \in 1..Len(cells) /\ x \in Cell
    BY <1>1, <1>5, IndicesAssumption DEF Insert, cvtindex, cap, Cell
  <2>2. cells' \in Seq(Cell) /\ Len(cells') = Len(cells)
    BY <1>1, <1>5, <2>1, ExceptSeq DEF Insert
  <2> QED BY <1>1, <1>5, <2>2 DEF Insert, cap, Cell
<1>6. CASE \/ \E n \in Caps : ShrinkFails(n)
           \/ \E i \in Indices : InsertOutside(i)
           \/ PushFull \/ PopEmpty \/ MapEmpty
  BY <1>6 DEF ShrinkFails, InsertOutside, PushFull, PopEmpty, MapEmpty, cap
<1>7. CASE Pop \/ Clear
  BY <1>1, <1>7 DEF Pop, Clear, cap
<1>8. CASE Map \/ UNCHANGED vars
  BY <1>8 DEF Map, vars, cap
<1>9. CASE Destroy
  <2>1. cells' = <<>> /\ there' = FALSE /\ used' = 0 /\ state' = state
    BY <1>9 DEF Destroy
  <2>2. <<>> \in Seq(Cell) /\ Len(<<>>) = 0
    BY EmptySeq
  <2>3. cells' \in Seq(Cell) /\ Len(cells') = 0
    BY <2>1, <2>2, Zenon
  <2>4. 0 \in 0..0 /\ 0 <= MaxBound
    BY CapsAssumption
  <2>5. cap' = 0
    BY <2>3 DEF cap
  <2> QED BY ONLY <1>1, <2>1, <2>3, <2>4, <2>5, TypeOK, Zenon DEF TypeOK, Cell
<1> QED BY <1>2, <1>3, <1>4, <1>5, <1>6, <1>7, <1>8, <1>9 DEF Next

THEOREM UseWithinCapacity == Spec => []TypeOK
<1>1. Init => TypeOK
  <2> SUFFICES ASSUME Init PROVE TypeOK
    OBVIOUS
  <2>1. cells = <<>> /\ there = FALSE /\ used = 0 /\ state = "runs"
    BY DEF Init
  <2>2. <<>> \in Seq(Cell) /\ Len(<<>>) = 0
    BY EmptySeq
  <2>3. cells \in Seq(Cell) /\ Len(cells) = 0
    BY <2>1, <2>2, Zenon
  <2>4. 0 \in 0..0 /\ 0 <= MaxBound
    BY CapsAssumption
  <2>5. cap = 0
    BY <2>3 DEF cap
  <2> QED BY <2>1, <2>3, <2>4, <2>5, Zenon DEF TypeOK, Cell
<1> QED BY <1>1, TypeStep, PTL DEF Spec

---------------------------------------------------------------------------
(* Every step of a vector is one of the stack or leaves it as it was: an   *)
(* insertion behind the use is not seen, one in use replaces an item       *)
(* (v_base.h:133-157, 190, 206-241).                                       *)
LEMMA StackStep == ASSUME TypeOK, TypeOK', [Next]_vars PROVE [Stack!Next]_(Stack!vars)
<1> USE DEF Fail, vector
<1>1. cells \in Seq(Cell) /\ Len(cells) \in Nat /\ used \in 0..Len(cells) /\ used \in Nat
  BY LenProperties DEF TypeOK, Cell, cap
<1>2. /\ InUse \in Seq(Cell) /\ Len(InUse) = used
      /\ \A i \in 1..used : InUse[i] = cells[i]
      /\ DOMAIN InUse = 1..used
  BY <1>1, FirstItems, LenProperties DEF InUse
<1>3. cells' \in Seq(Cell) /\ used' \in 0..Len(cells') /\ used' \in Nat
  BY LenProperties DEF TypeOK, Cell, cap
<1>4. /\ InUse' \in Seq(Cell) /\ Len(InUse') = used'
      /\ \A i \in 1..used' : InUse'[i] = cells'[i]
  <2> DEFINE s == cells'
             k == used'
  <2>1. /\ SubSeq(s, 1, k) \in Seq(Cell) /\ Len(SubSeq(s, 1, k)) = k
        /\ \A i \in 1..k : SubSeq(s, 1, k)[i] = s[i]
    <3>1. s \in Seq(Cell) /\ k \in 0..Len(s)
      BY <1>3
    <3> HIDE DEF s, k
    <3> QED BY <3>1, FirstItems
  <2> QED BY <2>1 DEF InUse
<1>5. ASSUME NEW n \in Caps, Create(n)
      PROVE  [Stack!Next]_(Stack!vars)
  <2>1. n \in Nat /\ n \in 0..MaxBound
    BY CapsAssumption
  <2>2. CASE Fail("aborted")
    BY <2>2 DEF Stack!vars, InUse, cap
  <2>3. CASE there' = TRUE /\ cells' = [i \in 1..n |-> Zero] /\ used' = 0
    <3>1. Len(cells') = n
      BY <2>1, <2>3, NewCells
    <3>2. InUse' = <<>>
      BY <1>4, <2>3, EmptySeq
    <3>3. Stack!New
      BY <1>5, <2>1, <2>3, <3>1, <3>2 DEF Create, Stack!New, cap
    <3> QED BY <3>3 DEF Stack!Next
  <2> QED BY <1>5, <2>2, <2>3 DEF Create
<1>6. ASSUME NEW n \in Caps, Shrink(n)
      PROVE  [Stack!Next]_(Stack!vars)
  <2> DEFINE m == IF n < Len(InUse) THEN n ELSE Len(InUse)
  <2>1. n \in Nat /\ n \in 0..Len(cells)
    BY <1>1, <1>6, CapsAssumption DEF Shrink, cap
  <2>2. Len(cells') = n /\ \A i \in 1..n : cells'[i] = cells[i]
    BY <1>1, <1>6, <2>1, FirstItems DEF Shrink
  <2>3. used' = m /\ m \in 0..Len(InUse)
    BY <1>1, <1>2, <1>6, <2>1 DEF Shrink
  <2>4. /\ SubSeq(InUse, 1, m) \in Seq(Cell) /\ Len(SubSeq(InUse, 1, m)) = m
        /\ \A i \in 1..m : SubSeq(InUse, 1, m)[i] = InUse[i]
    BY <1>2, <2>3, FirstItems
  <2>5. \A i \in 1..m : i \in 1..n /\ i \in 1..used
    BY <1>1, <1>2, <2>1
  <2>6. \A i \in 1..m : InUse'[i] = SubSeq(InUse, 1, m)[i]
    BY <1>2, <1>4, <2>2, <2>3, <2>4, <2>5
  <2>7. InUse' = SubSeq(InUse, 1, m)
    BY <1>4, <2>3, <2>4, <2>6, SeqEqual
  <2>8. Stack!Cut(n)
    BY <1>6, <2>2, <2>7 DEF Shrink, Stack!Cut, cap
  <2>9. n \in 0..cap
    BY <2>1 DEF cap
  <2> QED BY <2>8, <2>9 DEF Stack!Next
<1>7. ASSUME NEW x \in Items, Push(x)
      PROVE  [Stack!Next]_(Stack!vars)
  <2>1. used + 1 \in 1..Len(cells) /\ used < cap /\ x \in Cell
    BY <1>1, <1>7 DEF Push, Full, cap, Cell
  <2>2. /\ Len(cells') = Len(cells)
        /\ \A i \in 1..Len(cells) : cells'[i] = IF i = used + 1 THEN x ELSE cells[i]
    BY <1>1, <1>7, <2>1, ExceptSeq DEF Push
  <2>3. used' = used + 1
    BY <1>7 DEF Push
  <2>4. /\ Append(InUse, x) \in Seq(Cell) /\ Len(Append(InUse, x)) = used + 1
        /\ \A i \in 1..(used + 1) :
              Append(InUse, x)[i] = IF i = used + 1 THEN x ELSE InUse[i]
    BY <1>1, <1>2, <2>1, AppendProperties
  <2>5. \A i \in 1..(used + 1) : /\ i \in 1..Len(cells)
                                 /\ i # used + 1 => i \in 1..used
    BY <1>1, <2>1
  <2>6. \A i \in 1..(used + 1) : InUse'[i] = Append(InUse, x)[i]
    BY <1>2, <1>4, <2>2, <2>3, <2>4, <2>5
  <2>7. InUse' = Append(InUse, x)
    BY <1>4, <2>3, <2>4, <2>6, SeqEqual
  <2>8. Stack!Push(x)
    BY <1>2, <1>7, <2>1, <2>2, <2>7 DEF Push, Stack!Push, cap
  <2> QED BY <2>8 DEF Stack!Next
<1>8. ASSUME NEW x \in Items, NEW i \in Indices, Insert(x, i)
      PROVE  [Stack!Next]_(Stack!vars)
  <2> DEFINE at == cvtindex(i) + 1
  <2>1. at \in 1..Len(cells) /\ x \in Cell
    BY <1>1, <1>8, IndicesAssumption DEF Insert, cvtindex, cap, Cell
  <2>2. /\ Len(cells') = Len(cells) /\ used' = used
        /\ \A j \in 1..Len(cells) : cells'[j] = IF j = at THEN x ELSE cells[j]
    BY <1>1, <1>8, <2>1, ExceptSeq DEF Insert
  <2> HIDE DEF at
  <2>3. \A j \in 1..used : j \in 1..Len(cells)
    BY <1>1
  <2>4. CASE at \in 1..used
    <3>1. /\ [InUse EXCEPT ![at] = x] \in Seq(Cell)
          /\ Len([InUse EXCEPT ![at] = x]) = used
          /\ \A j \in 1..used : [InUse EXCEPT ![at] = x][j] = IF j = at THEN x ELSE InUse[j]
      BY <1>2, <2>1, <2>4, ExceptSeq
    <3>2. \A j \in 1..used : InUse'[j] = [InUse EXCEPT ![at] = x][j]
      BY <1>2, <1>4, <2>2, <2>3, <3>1
    <3>3. InUse' = [InUse EXCEPT ![at] = x]
      BY <1>4, <2>2, <3>1, <3>2, SeqEqual
    <3>4. Stack!Replace(at, x)
      BY <1>2, <1>8, <2>2, <2>4, <3>3 DEF Insert, Stack!Replace, cap
    <3> QED BY <1>2, <2>4, <3>4 DEF Stack!Next
  <2>5. CASE at \notin 1..used
    <3>1. \A j \in 1..used : InUse'[j] = InUse[j]
      BY <1>2, <1>4, <2>2, <2>3, <2>5
    <3>2. InUse' = InUse
      BY <1>2, <1>4, <2>2, <3>1, SeqEqual
    <3> QED BY <1>8, <2>2, <3>2 DEF Insert, Stack!vars, cap
  <2> QED BY <2>4, <2>5
<1>9. CASE Pop
  <2>1. used' = used - 1 /\ cells' = cells /\ used > 0 /\ there /\ there' = there
    BY <1>9 DEF Pop
  <2>2. used - 1 \in 0..Len(InUse)
    BY <1>1, <1>2, <2>1
  <2>3. /\ SubSeq(InUse, 1, used - 1) \in Seq(Cell)
        /\ Len(SubSeq(InUse, 1, used - 1)) = used - 1
        /\ \A i \in 1..(used - 1) : SubSeq(InUse, 1, used - 1)[i] = InUse[i]
    BY <1>2, <2>2, FirstItems
  <2>4. \A i \in 1..(used - 1) : i \in 1..used
    BY <1>1
  <2>5. \A i \in 1..(used - 1) : InUse'[i] = SubSeq(InUse, 1, used - 1)[i]
    BY <1>2, <1>4, <2>1, <2>3, <2>4
  <2>6. InUse' = SubSeq(InUse, 1, used - 1)
    BY <1>4, <2>1, <2>3, <2>5, SeqEqual
  <2>7. InUse # <<>>
    BY <1>2, <2>1, EmptySeq
  <2>8. Stack!Pop
    BY <1>2, <2>1, <2>6, <2>7 DEF Stack!Pop, cap
  <2> QED BY <2>8 DEF Stack!Next
<1>10. CASE Clear
  <2>1. InUse' = <<>>
    BY <1>4, <1>10, EmptySeq DEF Clear
  <2>2. Stack!Clear
    BY <1>10, <2>1 DEF Clear, Stack!Clear, cap
  <2> QED BY <2>2 DEF Stack!Next
<1>11. CASE Destroy
  <2>1. InUse' = <<>> /\ cap' = 0
    BY <1>4, <1>11, EmptySeq DEF Destroy, cap
  <2>2. Stack!Drop
    BY <1>11, <2>1 DEF Destroy, Stack!Drop
  <2> QED BY <2>2 DEF Stack!Next
<1>12. CASE \/ \E n \in Caps : ShrinkFails(n)
            \/ \E i \in Indices : InsertOutside(i)
            \/ PushFull \/ PopEmpty \/ MapEmpty \/ Map \/ UNCHANGED vars
  BY <1>12 DEF ShrinkFails, InsertOutside, PushFull, PopEmpty, MapEmpty, Map, vars,
               Stack!vars, InUse, cap
<1> QED BY <1>5, <1>6, <1>7, <1>8, <1>9, <1>10, <1>11, <1>12 DEF Next

(* A vector is a stack of bounded depth. *)
THEOREM VectorIsStack == Spec => ImplementsStack
<1>1. Init => Stack!Init
  <2> SUFFICES ASSUME Init PROVE Stack!Init
    OBVIOUS
  <2>1. Len(cells) = 0 /\ InUse = <<>>
    BY EmptySeq, SubSeqEmpty DEF Init, InUse
  <2> QED BY <2>1 DEF Init, Stack!Init, cap
<1>2. TypeOK /\ TypeOK' /\ [Next]_vars => [Stack!Next]_(Stack!vars)
  BY StackStep
<1> QED BY <1>1, <1>2, UseWithinCapacity, PTL DEF Spec, ImplementsStack, Stack!Spec

---------------------------------------------------------------------------
(* What is remembered of a block is how it was computed, without overflow *)
Computed(b) ==
    /\ b.cap \in Word /\ b.dtype \in Word \ {0}
    /\ b.bytes = b.dtype * b.cap + Header
BlockComputed == blockState = "vector" => Computed(block)

USE BlockAssumption, WordAssumption DEF Word

(* A block that is made was computed without overflow *)
LEMMA NewBlockComputed ==
    ASSUME NEW n \in Word, NEW d \in Word, ~Refuses(n, d)
    PROVE  Computed(NewBlock(n, d))
<1>1. d # 0 /\ BlockBytes(n, d) # Abort
  BY DEF Refuses
<1>2. BlockBytes(n, d) = d * n + Header
  BY <1>1 DEF BlockBytes, bsafeUnsignedMulAddl
<1> QED
  BY <1>1, <1>2 DEF NewBlock, Computed

LEMMA BlockStep == BlockComputed /\ [BlockNext]_blockVars => BlockComputed'
<1> SUFFICES ASSUME BlockComputed, [BlockNext]_blockVars PROVE BlockComputed'
  OBVIOUS
<1> USE DEF BlockComputed
<1>1. ASSUME NEW n \in Counts, NEW d \in ItemSizes, CreateBlock(n, d) PROVE BlockComputed'
  <2>1. CASE Stop("aborted")
    BY <2>1 DEF Stop
  <2>2. CASE ~Refuses(n, d) /\ block' = NewBlock(n, d)
    BY <2>2, NewBlockComputed
  <2> QED BY <1>1, <2>1, <2>2 DEF CreateBlock
<1>2. ASSUME NEW n \in Counts, ShrinkBlock(n) PROVE BlockComputed'
  <2>1. CASE Stop("aborted") \/ Stop("wild")
    BY <2>1 DEF Stop
  <2>2. CASE ~Refuses(n, block.dtype) /\ block' = NewBlock(n, block.dtype)
    <3>1. block.dtype \in Word
      BY <1>2 DEF ShrinkBlock, Computed
    <3> QED BY <2>2, <3>1, NewBlockComputed
  <2> QED BY <1>2, <2>1, <2>2 DEF ShrinkBlock
<1>3. CASE DestroyBlock
  BY <1>3 DEF DestroyBlock
<1>4. CASE UNCHANGED blockVars
  BY <1>4 DEF blockVars, Computed
<1> QED BY <1>1, <1>2, <1>3, <1>4 DEF BlockNext

LEMMA AlwaysComputed == BlockSpec => []BlockComputed
<1>1. BlockInit => BlockComputed
  BY DEF BlockInit, BlockComputed
<1> QED BY <1>1, BlockStep, PTL DEF BlockSpec

(* One more item than before takes no more than all of them *)
LEMMA LastItemFits ==
    ASSUME NEW i \in Nat, NEW c \in Nat, NEW d \in Nat, i < c
    PROVE  (i + 1) * d <= d * c
<1>1. PICK k \in Nat : c = (i + 1) + k
  <2>1. c - (i + 1) \in Nat
    OBVIOUS
  <2> QED BY <2>1
<1>2. d * c = (i + 1) * d + k * d
  BY <1>1
<1>3. k * d \in Nat
  OBVIOUS
<1>4. (i + 1) * d \in Nat
  OBVIOUS
<1> QED BY <1>2, <1>3, <1>4

(* The index used is a number, for whatever the caller passes *)
LEMMA IndexIsNumber ==
    ASSUME NEW p \in Positions, Computed(block)
    PROVE  VEC_cvtindex(p) \in Nat
<1>1. p \in Int /\ block.cap \in Int /\ MaxWord + 1 \in Nat \ {0}
  BY DEF Computed, LongMax
<1>2. ASSUME NEW x \in Int PROVE Wrapped(x) \in Nat
  BY <1>1, <1>2 DEF Wrapped
<1>3. Wrapped(p) \in Nat
  BY <1>1, <1>2
<1>4. Wrapped(Wrapped(p) + block.cap) \in Nat
  BY <1>1, <1>2, <1>3
<1> QED BY <1>1, <1>4 DEF VEC_cvtindex

(* Every index that is let through is an item inside the block that was    *)
(* asked for, for every width of unsigned long, header and item            *)
(* (v_base.h:206-218, include.h:141-146).                                  *)
THEOREM IndexedItemsInBlock == BlockSpec => []CellsInBlock
<1>1. BlockComputed => CellsInBlock
  <2> SUFFICES ASSUME BlockComputed, blockState = "vector",
                      NEW p \in Positions, Accepted(p)
               PROVE  CellEnd(VEC_cvtindex(p)) <= block.bytes
    BY DEF CellsInBlock
  <2> DEFINE i == VEC_cvtindex(p)
  <2>1. Computed(block)
    BY DEF BlockComputed
  <2>2. i \in Nat /\ block.cap \in Nat /\ block.dtype \in Nat
    BY <2>1, IndexIsNumber DEF Computed
  <2>3. i < block.cap
    BY DEF Accepted
  <2>4. (i + 1) * block.dtype <= block.dtype * block.cap
    BY ONLY <2>2, <2>3, LastItemFits
  <2>5. (i + 1) * block.dtype \in Int /\ block.dtype * block.cap \in Int /\ Header \in Int
    BY <2>2
  <2> QED BY <2>1, <2>4, <2>5 DEF CellEnd, Computed
<1> QED BY <1>1, AlwaysComputed, PTL

(* Wrapping never turns an index outside into one inside, for every width  *)
(* (v_base.h:206-212).                                                     *)
THEOREM IndexedItemIsMeant == BlockSpec => []IndexMeansCell
<1>1. BlockComputed => IndexMeansCell
  <2> SUFFICES ASSUME BlockComputed, blockState = "vector",
                      NEW p \in Positions, Accepted(p), p < 0
               PROVE  VEC_cvtindex(p) = block.cap + p
    BY DEF IndexMeansCell, VEC_cvtindex
  <2>1. block.cap \in 0..MaxWord /\ p \in Int /\ MaxWord \in Nat
    BY DEF BlockComputed, Computed, LongMax
  <2>2. LongMax \in Nat /\ 2 * LongMax + 1 = MaxWord
    BY DEF LongMax
  <2>3. -LongMax - 1 <= p
    BY <2>2
  <2> DEFINE M == MaxWord + 1
  <2>4. Wrapped(p) = p + M
    BY <2>1, <2>2, <2>3 DEF Wrapped
  <2>5. VEC_cvtindex(p) = (p + M + block.cap) % M
    BY <2>4 DEF VEC_cvtindex, Wrapped
  <2>6. CASE p + block.cap >= 0
    <3>1. (p + M + block.cap) % M = p + block.cap
      BY <2>1, <2>6
    <3> QED BY <2>1, <2>5, <3>1
  <2>7. CASE p + block.cap < 0
    <3>1. (p + M + block.cap) % M = p + M + block.cap
      BY <2>1, <2>2, <2>3, <2>7
    <3>2. VEC_cvtindex(p) >= block.cap
      BY <2>1, <2>2, <2>3, <2>5, <3>1
    <3> QED BY <2>1, <2>5, <3>1, <3>2 DEF Accepted
  <2> QED BY <2>1, <2>6, <2>7
<1> QED BY <1>1, AlwaysComputed, PTL
============================================================================
