-------------------------- MODULE HttpBufferProofs --------------------------
(***************************************************************************)
(* The request buffer's account of its memory is right, for every size,    *)
(* growth, limit and length of the strings added, and every call that adds *)
(* a line comes closer to its answer with each step.                       *)
(***************************************************************************)
EXTENDS HttpBuffer, SequenceTheorems, TLAPS

Names == {"nul", "junk", "cr", "lf", "method", "space", "cmd", "protocol",
          "field", "colon", "value", "raw"}
Byte == Names \X Nat \X Nat

(* What every step keeps: the types, the buffer's account, and how far a   *)
(* call that adds to a buffer of the caller's may have got                 *)
CallShape ==
    /\ call = [line |-> call.line, at |-> call.at, before |-> call.before, refused |-> call.refused]
    /\ call.line \in Seq(Seq(Byte))
Typed ==
    /\ TypeOK
    /\ text \in Seq(Byte)
    /\ CallShape
NoBuffer == buf = "none" => bufc = 0 /\ ~live
GivenLives == buf = "given" => live /\ (pc = "join" => call.at <= Strings + 1)
BufferInv ==
    /\ Typed
    /\ SpaceAccounted /\ NoBuffer
    /\ FlagMeansHeap /\ HeapAccounted
    /\ NoWriteOutside /\ GivenLives /\ GivenBufferSafe

USE SizeAssumption, StringAssumption, MoveAssumption

---------------------------------------------------------------------------
(* Sequences of bytes *)

(* A sequence given by what stands at each place has as many places *)
LEMMA MadeSeq ==
    ASSUME NEW n \in Nat, NEW new \in [1..n -> Byte]
    PROVE  new \in Seq(Byte) /\ Len(new) = n
<1>1. new \in Seq(Byte)
  BY SeqDef
<1> DEFINE k == Len(new)
<1>2. 1..n = 1..k /\ k \in Nat
  BY <1>1, LenProperties
<1> HIDE DEF k
<1>3. \A i \in Nat : i \in 1..n <=> i \in 1..k
  BY <1>2
<1>4. k = n
  BY ONLY <1>2, <1>3, n \in Nat
<1> QED BY <1>1, <1>4 DEF k

LEMMA Bytes ==
    /\ \A name \in Names, n \in Nat, k \in Nat : <<name, n, k>> \in Byte
    /\ NUL \in Byte /\ Junk \in Byte
    /\ <<"cr", 1, 1>> \in Byte /\ <<"lf", 1, 1>> \in Byte
<1>1. \A name \in Names, n \in Nat, k \in Nat : <<name, n, k>> \in Byte
  BY DEF Byte
<1>2. 1 \in Nat /\ {"nul", "junk", "cr", "lf"} \subseteq Names
  BY DEF Names
<1> QED BY <1>1, <1>2 DEF NUL, Junk

LEMMA StrIsSeq ==
    ASSUME NEW n \in Nat, NEW name \in Names
    PROVE  Str(name, n) \in Seq(Byte) /\ Len(Str(name, n)) = n
<1>1. \A k \in 1..n : <<name, n, k>> \in Byte
  BY Bytes
<1>2. Str(name, n) \in [1..n -> Byte]
  BY <1>1 DEF Str
<1> QED BY <1>2, MadeSeq

LEMMA NewBlocks ==
    ASSUME NEW n \in Nat
    PROVE  /\ [k \in 1..n |-> NUL] \in Seq(Byte) /\ Len([k \in 1..n |-> NUL]) = n
           /\ [k \in 1..n |-> Junk] \in Seq(Byte) /\ Len([k \in 1..n |-> Junk]) = n
<1>1. [k \in 1..n |-> NUL] \in [1..n -> Byte] /\ [k \in 1..n |-> Junk] \in [1..n -> Byte]
  BY Bytes
<1> QED BY <1>1, MadeSeq

(* Writing into a block leaves it as long as it was *)
LEMMA PutKeepsLength ==
    ASSUME NEW t \in Seq(Byte), NEW s \in Seq(Byte), NEW at \in Nat
    PROVE  Put(t, at, s) \in Seq(Byte) /\ Len(Put(t, at, s)) = Len(t)
<1>1. Len(t) \in Nat /\ Len(s) \in Nat
  BY LenProperties
<1>2. \A k \in 1..Len(t) : t[k] \in Byte
  BY ElementOfSeq
<1>3. \A k \in 1..Len(t) : k > at /\ k <= at + Len(s) => k - at \in 1..Len(s)
  BY <1>1
<1>4. \A k \in 1..Len(t) : k > at /\ k <= at + Len(s) => s[k - at] \in Byte
  BY <1>3, ElementOfSeq
<1>5. Put(t, at, s) \in [1..Len(t) -> Byte]
  BY <1>2, <1>4 DEF Put
<1> QED BY <1>1, <1>5, MadeSeq

LEMMA CRLFIsSeq == CRLF \in Seq(Byte) /\ Len(CRLF) = 2
<1>1. CRLF \in [1..2 -> Byte]
  BY Bytes DEF CRLF
<1> QED BY <1>1, MadeSeq

(* The lines that are added are sequences of strings *)
LEMMA LinesAreSeqs ==
    /\ \A m \in Methods, c \in CmdLens : Command(m, c) \in Seq(Seq(Byte))
    /\ \A f \in FieldLens, v \in ValueLens : Header(f, v) \in Seq(Seq(Byte))
<1>1. \A n \in Nat : \A name \in Names : Str(name, n) \in Seq(Byte)
  BY StrIsSeq
<1>2. ASSUME NEW m \in Methods, NEW c \in CmdLens PROVE Command(m, c) \in Seq(Seq(Byte))
  <2>1. m + 1 \in Nat /\ c \in Nat /\ 1 \in Nat /\ ProtocolLen \in Nat
    OBVIOUS
  <2>2. /\ Str("method", m + 1) \in Seq(Byte) /\ Str("space", 1) \in Seq(Byte)
        /\ Str("cmd", c) \in Seq(Byte) /\ Str("protocol", ProtocolLen) \in Seq(Byte)
    BY <1>1, <2>1 DEF Names
  <2> QED BY <2>2 DEF Command
<1>3. ASSUME NEW f \in FieldLens, NEW v \in ValueLens PROVE Header(f, v) \in Seq(Seq(Byte))
  <2>1. f \in Nat /\ v \in Nat /\ 1 \in Nat
    OBVIOUS
  <2>2. Str("field", f) \in Seq(Byte) /\ Str("colon", 1) \in Seq(Byte) /\ Str("value", v) \in Seq(Byte)
    BY <1>1, <2>1 DEF Names
  <2> QED BY <2>2 DEF Header
<1> QED BY <1>2, <1>3

---------------------------------------------------------------------------
LEMMA BufferInitially == Init => BufferInv
<1> SUFFICES ASSUME Init PROVE BufferInv
  OBVIOUS
<1>1. <<>> \in Seq(Byte) /\ <<>> \in Seq(Seq(Byte)) /\ Len(<<>>) = 0
  BY EmptySeq
<1>2. call.line = <<>> /\ call.at = 1 /\ call.refused = FALSE
      /\ call = [line |-> call.line, at |-> call.at, before |-> call.before, refused |-> call.refused]
  BY DEF Init, NoLine
<1>3. Strings = 0
  BY <1>1, <1>2 DEF Strings
<1>4. Typed
  <2>1. CallShape
    BY <1>1, <1>2 DEF CallShape
  <2>2. bufsize \in 0..SizeMax /\ bufc \in 0..SizeMax /\ blocks \in Int /\ lost \in Int /\ call.at \in 1..(Strings + 2)
    BY <1>2, <1>3 DEF Init
  <2>3. live \in BOOLEAN /\ malloc \in BOOLEAN /\ call.refused \in BOOLEAN
    BY <1>2, Zenon DEF Init
  <2>4. TypeOK
    BY <2>2, <2>3 DEF Init, TypeOK
  <2> QED BY <1>1, <2>1, <2>4 DEF Init, Typed
<1> QED BY <1>1, <1>4 DEF Init, BufferInv, SpaceAccounted, NoBuffer, FlagMeansHeap,
                         HeapAccounted, CanFree, NoWriteOutside, GivenLives, GivenBufferSafe

(* What a state that keeps the invariant says in numbers *)
LEMMA Counts ==
    ASSUME BufferInv
    PROVE  /\ Len(text) \in Nat /\ Strings \in Nat
           /\ bufsize \in Nat /\ bufc \in Nat /\ Used \in Nat /\ bufc <= bufsize
           /\ live => bufsize = Len(text)
           /\ call.at \in Nat
           /\ call.at \in 1..Strings =>
                 /\ call.line[call.at] \in Seq(Byte) /\ StringLen \in Nat
<1> USE DEF BufferInv, Typed, TypeOK, SpaceAccounted, CallShape
<1>1. Len(text) \in Nat /\ Strings \in Nat
  BY LenProperties DEF Strings
<1>2. call.at \in 1..Strings => call.line[call.at] \in Seq(Byte)
  BY ElementOfSeq DEF Strings
<1>3. call.at \in 1..Strings => StringLen \in Nat
  BY <1>2, LenProperties DEF StringLen
<1> QED BY <1>1, <1>2, <1>3 DEF Used

(* A step into undefined behaviour, for a cause that is none of ours *)
LEMMA WildStep ==
    ASSUME BufferInv, NEW cause, Wild(cause), cause # "write past the block",
           buf = "given" => cause \in {"read past the block", "read past the method table"}
    PROVE  BufferInv'
<1> USE DEF BufferInv, Wild, memory
<1>1. Typed'
  BY DEF Typed, TypeOK, CallShape, Strings
<1>2. SpaceAccounted' /\ NoBuffer' /\ FlagMeansHeap' /\ HeapAccounted' /\ NoWriteOutside'
  BY DEF SpaceAccounted, NoBuffer, FlagMeansHeap, HeapAccounted, CanFree, NoWriteOutside
<1>3. GivenLives' /\ GivenBufferSafe'
  BY DEF GivenLives, GivenBufferSafe
<1> QED BY <1>1, <1>2, <1>3

(* A step that leaves the memory alone and does not end in undefined       *)
(* behaviour                                                               *)
LEMMA QuietStep ==
    ASSUME BufferInv, UNCHANGED <<memory, bufc>>, Typed', pc' # "wild",
           result' # "write past the block",
           buf = "given" /\ pc' = "join" => (call.at <= Strings + 1)'
    PROVE  BufferInv'
<1> USE DEF BufferInv, memory
<1>1. SpaceAccounted' /\ NoBuffer' /\ FlagMeansHeap' /\ HeapAccounted' /\ NoWriteOutside'
  BY DEF SpaceAccounted, NoBuffer, FlagMeansHeap, HeapAccounted, CanFree, NoWriteOutside
<1>2. GivenLives' /\ GivenBufferSafe'
  BY DEF GivenLives, GivenBufferSafe
<1> QED BY <1>1, <1>2

---------------------------------------------------------------------------
(* Steps that leave the memory alone *)
LEMMA CallSteps ==
    ASSUME BufferInv,
           \/ SetbufTaken
           \/ \E m \in Methods, c \in CmdLens : SetHttpCmd(m, c)
           \/ \E f \in FieldLens, v \in ValueLens : AddHttpHeader(f, v)
           \/ StringTooLong \/ DelimTooLong \/ GrowNotOwn \/ GrowRefused \/ Return
    PROVE  BufferInv'
<1> USE DEF BufferInv
<1>0. Strings \in Nat /\ call.at \in Nat
  BY Counts
<1>1. CASE SetbufTaken
  <2>1. Typed'
    BY <1>1 DEF SetbufTaken, memory, Typed, TypeOK, CallShape, Strings
  <2>2. UNCHANGED <<memory, bufc, pc, call>> /\ pc = "idle" /\ result' = "EONOTEMPT"
    BY <1>1 DEF SetbufTaken
  <2> QED BY <2>1, <2>2, QuietStep
<1>2. ASSUME NEW line \in Seq(Seq(Byte)), StartLine(line) PROVE BufferInv'
  <2>1. call'.line = line /\ call'.at = 1
    BY <1>2 DEF StartLine
  <2>2. call'.refused = FALSE
    BY <1>2 DEF StartLine
  <2>3. pc' = "join" /\ UNCHANGED <<memory, bufc>> /\ result' = result
    BY <1>2 DEF StartLine
  <2>4. Strings' \in Nat
    BY <2>1, LenProperties DEF Strings
  <2>5. call'.at \in 1..(Strings' + 2) /\ call'.at <= Strings' + 1
    <3>1. \A n \in Nat : 1 \in 1..(n + 2) /\ 1 <= n + 1
      OBVIOUS
    <3> QED BY ONLY <2>1, <2>4, <3>1, Zenon
  <2>6. CallShape'
    BY <1>2 DEF StartLine, CallShape
  <2>7. call'.refused \in BOOLEAN
    BY <2>2, Zenon
  <2>8. Typed'
    BY <2>3, <2>5, <2>6, <2>7 DEF memory, Typed, TypeOK
  <2>9. result' # "write past the block"
    BY <2>3 DEF NoWriteOutside
  <2> QED BY <2>3, <2>5, <2>8, <2>9, QuietStep
<1>3. CASE StringTooLong \/ DelimTooLong
  <2>1. /\ pc' = "grow" /\ UNCHANGED <<memory, bufc, result>>
        /\ call' = [call EXCEPT !.at = call'.at]
        /\ call'.at \in 1..(Strings + 2)
    BY <1>0, <1>3 DEF StringTooLong, DelimTooLong, Resume, Typed, TypeOK, CallShape
  <2>2. CallShape' /\ call'.line = call.line /\ call'.refused = call.refused
    BY <2>1 DEF Typed, CallShape
  <2>3. Typed'
    BY <2>1, <2>2 DEF memory, Typed, TypeOK, Strings
  <2> QED BY <2>1, <2>3, QuietStep DEF NoWriteOutside
<1>4. CASE GrowNotOwn
  <2>1. pc' = "done" /\ result' = "EOMEM" /\ UNCHANGED <<memory, bufc, call>>
    BY <1>4 DEF GrowNotOwn, Give
  <2>2. Typed'
    BY <2>1 DEF memory, Typed, TypeOK, CallShape, Strings
  <2> QED BY <2>1, <2>2, QuietStep
<1>5. CASE GrowRefused
  <2>1. /\ pc' = "done" /\ result' = "EOMEM" /\ UNCHANGED <<memory, bufc>>
        /\ call' = [call EXCEPT !.refused = TRUE]
    BY <1>5 DEF GrowRefused, Give
  <2>2. CallShape' /\ call'.line = call.line /\ call'.at = call.at /\ call'.refused = TRUE
    BY <2>1 DEF Typed, CallShape
  <2>3. call'.refused \in BOOLEAN
    BY <2>2, Zenon
  <2>4. Typed'
    BY <2>1, <2>2, <2>3 DEF memory, Typed, TypeOK, Strings
  <2> QED BY <2>1, <2>4, QuietStep
<1>6. CASE Return
  <2>1. pc' = "idle" /\ call' = NoLine /\ UNCHANGED <<memory, bufc, result>>
    BY <1>6 DEF Return
  <2>2. call'.line = <<>> /\ call'.at = 1 /\ call'.refused = FALSE
    BY <2>1 DEF NoLine
  <2>3. Strings' = 0 /\ call'.line \in Seq(Seq(Byte))
    BY <2>2, EmptySeq DEF Strings
  <2>4. CallShape'
    BY <2>1, <2>3 DEF NoLine, CallShape
  <2>5. call'.refused \in BOOLEAN
    BY <2>2, Zenon
  <2>6. Typed'
    BY <2>1, <2>2, <2>3, <2>4, <2>5 DEF memory, Typed, TypeOK
  <2> QED BY <2>1, <2>6, QuietStep DEF NoWriteOutside
<1> QED BY <1>1, <1>2, <1>3, <1>4, <1>5, <1>6, LinesAreSeqs DEF SetHttpCmd, AddHttpHeader

(* Steps into undefined behaviour: a write past the block is none of them *)
LEMMA WildSteps ==
    ASSUME BufferInv,
           \/ FreedTwice \/ \E m \in Methods : BadMethod(m)
           \/ PastTable \/ WriteOutside \/ GrowFreed \/ Show
           \/ \E n \in RawLens : RawOutside(n)
    PROVE  BufferInv'
<1> USE DEF BufferInv
<1>0. /\ buf = "given" => live /\ ~malloc
      /\ live => bufsize = Len(text)
      /\ pc = "join" /\ buf = "given" => call.at <= Strings + 1
  BY DEF GivenLives, FlagMeansHeap, SpaceAccounted
<1>c. call.at \in 1..Strings => StringLen \in Nat
  BY Counts
<1>d. /\ Strings \in Nat /\ bufsize \in Nat /\ bufc \in Nat /\ bufc <= bufsize
      /\ call.at \in 1..(Strings + 2)
  BY Counts DEF Typed, TypeOK
<1>1. CASE FreedTwice
  BY <1>0, <1>1, WildStep DEF FreedTwice, Owned
<1>2. ASSUME NEW m \in Methods, BadMethod(m) PROVE BufferInv'
  <2>1. CASE Wild("read past the method table")
    BY <2>1, WildStep
  <2>2. CASE result' = "EOMETHOD" /\ UNCHANGED <<memory, bufc, pc, call>>
    <3>1. Typed'
      BY <2>2 DEF memory, Typed, TypeOK, CallShape, Strings
    <3>2. pc = "idle"
      BY <1>2 DEF BadMethod
    <3> QED BY <2>2, <3>1, <3>2, QuietStep
  <2> QED BY <1>2, <2>1, <2>2 DEF BadMethod
<1>3. CASE PastTable
  <2>1. buf # "given" /\ Wild("read past the line's table")
    <3>1. call.at > Strings + 1
      BY <1>3, Zenon DEF PastTable
    <3>2. ~(call.at <= Strings + 1)
      BY ONLY <1>d, <3>1
    <3> QED BY <1>0, <1>3, <3>2, Zenon DEF PastTable, Joining
  <2> QED BY <2>1, WildStep
<1>4. CASE WriteOutside
  <2>1. ASSUME call.at <= Strings, FitsString, ~InBlock(StringLen) PROVE ~live
    <3>1. StringLen \in Nat /\ StringLen < bufc
      <4>1. call.at \in 1..Strings
        BY ONLY <1>d, <2>1
      <4> QED BY <1>c, <2>1, <4>1, Zenon DEF FitsString
    <3>2. Used + StringLen <= bufsize
      BY ONLY <1>d, <3>1 DEF Used
    <3> QED BY ONLY <1>0, <2>1, <3>2, Zenon DEF InBlock
  <2>2. ASSUME bufc >= 2, ~InBlock(2) PROVE ~live
    <3>1. Used + 2 <= bufsize
      BY ONLY <1>d, <2>2 DEF Used
    <3> QED BY ONLY <1>0, <2>2, <3>1, Zenon DEF InBlock
  <2>3. ~live
    BY <1>4, <2>1, <2>2 DEF WriteOutside
  <2> QED BY <1>0, <1>4, <2>3, WildStep DEF WriteOutside
<1>5. CASE GrowFreed
  BY <1>0, <1>5, WildStep DEF GrowFreed
<1>6. CASE Show
  BY <1>6, WildStep DEF Show
<1>7. ASSUME NEW n \in RawLens, RawOutside(n) PROVE BufferInv'
  <2>1. n \in Nat
    OBVIOUS
  <2>2. ~live
    <3>1. n <= bufc
      BY <1>7, Zenon DEF RawOutside
    <3>2. Used + n <= bufsize
      BY ONLY <1>d, <2>1, <3>1 DEF Used
    <3> QED BY <1>0, <1>7, <3>2, Zenon DEF RawOutside, InBlock
  <2> QED BY <1>0, <1>7, <2>2, WildStep DEF RawOutside
<1> QED BY <1>1, <1>2, <1>3, <1>4, <1>5, <1>6, <1>7

---------------------------------------------------------------------------
(* Setting and unsetting the buffer.  No call is running. *)
LEMMA SetSteps ==
    ASSUME BufferInv,
           \/ \E n \in GivenSizes : SetbufGiven(n)
           \/ \E n \in AskSizes : SetbufAlloc(n)
           \/ SetbufFails \/ Unsetbuf
    PROVE  BufferInv'
<1> USE DEF BufferInv
<1>1. pc = "idle" /\ pc' = pc /\ call' = call /\ result' # "write past the block"
  BY DEF SetbufGiven, SetbufAlloc, SetbufFails, Unsetbuf
<1>2. GivenBufferSafe' /\ NoWriteOutside' /\ ~(pc' = "join")
  BY <1>1 DEF GivenBufferSafe, NoWriteOutside
<1>3. ASSUME bufsize' \in 0..SizeMax, bufc' \in 0..SizeMax, blocks' \in Int, lost' \in Int,
             buf' \in {"none", "given", "heap"}, live' \in BOOLEAN, malloc' \in BOOLEAN,
             text' \in Seq(Byte)
      PROVE  Typed'
  BY <1>1, <1>3 DEF Typed, TypeOK, CallShape, Strings
<1>4. ASSUME NEW n \in GivenSizes, SetbufGiven(n) PROVE BufferInv'
  <2>1. n \in Nat /\ n \in 0..SizeMax
    OBVIOUS
  <2>2. text' \in Seq(Byte) /\ Len(text') = n
    BY <1>4, <2>1, NewBlocks DEF SetbufGiven
  <2>3. Typed'
    BY <1>3, <1>4, <2>1, <2>2 DEF SetbufGiven, Typed, TypeOK
  <2>4. SpaceAccounted'
    BY <1>4, <2>1, <2>2 DEF SetbufGiven, SpaceAccounted
  <2>5. NoBuffer' /\ FlagMeansHeap' /\ HeapAccounted' /\ GivenLives'
    BY <1>2, <1>4 DEF SetbufGiven, NoBuffer, FlagMeansHeap, HeapAccounted, CanFree, GivenLives
  <2> QED BY <1>2, <2>3, <2>4, <2>5
<1>5. ASSUME NEW asked \in AskSizes, SetbufAlloc(asked) PROVE BufferInv'
  <2>1. AllocSize(asked) \in Nat /\ AllocSize(asked) \in 0..SizeMax
    BY DEF AllocSize
  <2>2. text' \in Seq(Byte) /\ Len(text') = AllocSize(asked)
    BY <1>5, <2>1, NewBlocks DEF SetbufAlloc
  <2>3. Typed'
    BY <1>3, <1>5, <2>1, <2>2 DEF SetbufAlloc, Typed, TypeOK
  <2>4. SpaceAccounted'
    BY <1>5, <2>1, <2>2 DEF SetbufAlloc, SpaceAccounted
  <2>5. NoBuffer' /\ FlagMeansHeap' /\ HeapAccounted' /\ GivenLives'
    BY <1>2, <1>5 DEF SetbufAlloc, NoBuffer, FlagMeansHeap, HeapAccounted, CanFree, GivenLives
  <2> QED BY <1>2, <2>3, <2>4, <2>5
<1>6. CASE SetbufFails
  <2>1. Typed'
    BY <1>3, <1>6 DEF SetbufFails, Typed, TypeOK
  <2>2. bufc' = 0 /\ bufsize' = 0 /\ ~live'
    BY <1>6 DEF SetbufFails, NoBuffer
  <2>3. SpaceAccounted' /\ NoBuffer' /\ FlagMeansHeap' /\ HeapAccounted' /\ GivenLives'
    BY <1>2, <1>6, <2>2 DEF SetbufFails, SpaceAccounted, NoBuffer, FlagMeansHeap, HeapAccounted, CanFree, GivenLives
  <2> QED BY <1>2, <2>1, <2>3
<1>7. CASE Unsetbuf
  <2>1. text' \in Seq(Byte)
    BY <1>7, EmptySeq DEF Unsetbuf, Emptied
  <2>2. blocks' = 0 /\ lost' = 0
    BY <1>7 DEF Unsetbuf, Owned, FlagMeansHeap, HeapAccounted, CanFree, NoBuffer, GivenLives, Typed, TypeOK
  <2>3. Typed'
    <3>1. /\ buf' = "none" /\ live' = FALSE /\ malloc' = FALSE
          /\ bufsize' = 0 /\ bufc' = 0 /\ pc' = pc /\ call' = call
      BY <1>7, Zenon DEF Unsetbuf, Emptied
    <3>2. 0 \in 0..SizeMax /\ 0 \in Int
      OBVIOUS
    <3> QED BY <2>1, <2>2, <3>1, <3>2 DEF Typed, TypeOK, CallShape, Strings
  <2>4. SpaceAccounted' /\ NoBuffer' /\ FlagMeansHeap' /\ HeapAccounted' /\ GivenLives'
    BY <1>7, <2>2 DEF Unsetbuf, Emptied, SpaceAccounted, NoBuffer, FlagMeansHeap, HeapAccounted, CanFree, GivenLives
  <2> QED BY <1>2, <2>3, <2>4
<1> QED BY <1>4, <1>5, <1>6, <1>7

(* Writing text into the block, and making room *)
LEMMA TextSteps ==
    ASSUME BufferInv,
           \/ CopyString \/ AppendDelim \/ GrowBlock
           \/ \E n \in RawLens : RawHttpHeader(n)
    PROVE  BufferInv'
<1> USE DEF BufferInv
<1>1. /\ result' # "write past the block" /\ pc' # "wild"
      /\ buf' = buf /\ malloc' = malloc /\ blocks' = blocks
  <2>1. /\ result # "write past the block"
        /\ \A r \in {"SUCCESS", "EOMEM", "INCOMPLETE"} : r # "write past the block"
        /\ \A at \in {"idle", "join", "done"} : at # "wild"
    BY DEF NoWriteOutside
  <2>2. CASE CopyString
    <3>1. pc = "join" /\ UNCHANGED <<buf, malloc, blocks, pc, result>>
      BY <2>2, Zenon DEF CopyString, Joining
    <3> QED BY <2>1, <3>1
  <2>3. CASE AppendDelim
    <3>1. pc' = "done" /\ result' = "SUCCESS" /\ UNCHANGED <<buf, malloc, blocks>>
      BY <2>3, Zenon DEF AppendDelim
    <3> QED BY <2>1, <3>1
  <2>4. CASE GrowBlock
    <3>1. /\ \/ pc' = "join" /\ result' = result
             \/ pc' = "done" /\ result' = "EOMEM"
          /\ UNCHANGED <<buf, malloc, blocks>>
      BY <2>4, Zenon DEF GrowBlock, Give
    <3> QED BY <2>1, <3>1
  <2>5. ASSUME NEW n \in RawLens, RawHttpHeader(n)
        PROVE  result' # "write past the block" /\ pc' # "wild" /\ buf' = buf /\ malloc' = malloc /\ blocks' = blocks
    <3>1. /\ pc = "idle" /\ result' \in {"SUCCESS", "INCOMPLETE"}
          /\ UNCHANGED <<buf, malloc, blocks, pc>>
      BY <2>5 DEF RawHttpHeader
    <3> QED BY <2>1, <3>1
  <2> QED BY <2>2, <2>3, <2>4, <2>5, Zenon
<1>2. GivenBufferSafe' /\ NoWriteOutside' /\ FlagMeansHeap'
  BY <1>1 DEF GivenBufferSafe, NoWriteOutside, FlagMeansHeap
<1>h. ASSUME live' = live, lost' = lost PROVE HeapAccounted'
  BY <1>1, <1>h DEF FlagMeansHeap, HeapAccounted, CanFree
<1>3. /\ Strings \in Nat /\ bufsize \in Nat /\ bufc \in Nat /\ bufc <= bufsize /\ Used \in Nat
      /\ call.at \in 1..(Strings + 2)
  BY Counts DEF Typed, TypeOK
<1>4. CASE CopyString
  <2>1. call.at \in 1..Strings
    <3>1. call.at <= Strings
      BY <1>4, Zenon DEF CopyString
    <3> QED BY ONLY <1>3, <3>1
  <2>2. call.line[call.at] \in Seq(Byte) /\ StringLen \in Nat
    BY <2>1, Counts
  <2>3. bufc' = bufc - StringLen /\ StringLen < bufc
    BY <1>4, Zenon DEF CopyString, FitsString
  <2>4. bufc' \in 0..SizeMax /\ bufc' <= bufsize
    <3>1. bufc \in 0..SizeMax
      BY DEF Typed, TypeOK
    <3> QED BY ONLY <1>3, <2>2, <2>3, <3>1, SizeAssumption
  <2>5. text' \in Seq(Byte) /\ Len(text') = Len(text)
    BY <1>3, <1>4, <2>2, PutKeepsLength DEF CopyString, Typed
  <2>6. call' = [call EXCEPT !.at = call.at + 1]
    BY <1>4 DEF CopyString
  <2>7. CallShape' /\ call'.line = call.line /\ call'.refused = call.refused /\ call'.at = call.at + 1
    BY <2>6 DEF Typed, CallShape
  <2>8. Strings' = Strings
    BY <2>7 DEF Strings
  <2>9. call'.at \in 1..(Strings' + 2) /\ call'.at <= Strings' + 1
    <3>1. \A n \in Nat : \A a \in 1..n : a + 1 \in 1..(n + 2) /\ a + 1 <= n + 1
      OBVIOUS
    <3> QED BY <1>3, <2>1, <2>7, <2>8, <3>1, Zenon
  <2>0. live' = live /\ lost' = lost
    BY <1>4, Zenon DEF CopyString
  <2>10. Typed'
    BY <1>4, <2>0, <2>4, <2>5, <2>7, <2>9 DEF CopyString, Typed, TypeOK
  <2>11. SpaceAccounted' /\ NoBuffer' /\ GivenLives'
    <3>1. live' = live /\ bufsize' = bufsize /\ buf # "none"
      <4>1. bufc # 0
        BY ONLY <1>3, <2>2, <2>3
      <4> QED BY <1>4, <4>1, Zenon DEF CopyString, NoBuffer
    <3>2. SpaceAccounted'
      BY <2>4, <2>5, <3>1 DEF SpaceAccounted
    <3> QED BY <1>1, <2>9, <3>1, <3>2, Zenon DEF NoBuffer, GivenLives
  <2> QED BY <1>2, <1>h, <2>0, <2>10, <2>11
<1>5. CASE AppendDelim
  <2>1. bufc' = bufc - 2 /\ bufc >= 2
    BY <1>5, Zenon DEF AppendDelim
  <2>2. bufc' \in 0..SizeMax /\ bufc' <= bufsize /\ bufc # 0
    <3>1. bufc \in 0..SizeMax
      BY DEF Typed, TypeOK
    <3> QED BY ONLY <1>3, <2>1, <3>1, SizeAssumption
  <2>3. text' \in Seq(Byte) /\ Len(text') = Len(text)
    BY <1>3, <1>5, CRLFIsSeq, PutKeepsLength DEF AppendDelim, Typed
  <2>4. pc' = "done" /\ call' = call /\ live' = live /\ lost' = lost /\ bufsize' = bufsize
    BY <1>5 DEF AppendDelim
  <2>5. Typed'
    BY <1>1, <2>2, <2>3, <2>4 DEF Typed, TypeOK, CallShape, Strings
  <2>6. SpaceAccounted'
    BY <2>2, <2>3, <2>4 DEF SpaceAccounted
  <2>7. NoBuffer' /\ GivenLives'
    BY <1>1, <2>2, <2>4, Zenon DEF NoBuffer, GivenLives
  <2> QED BY <1>2, <1>h, <2>4, <2>5, <2>6, <2>7
<1>6. CASE GrowBlock
  <2>1. /\ bufsize' = bufsize + Growth /\ bufc' = bufc + Growth /\ bufsize < SizeMax - Growth
        /\ buf = "heap" /\ call' = call /\ pc' \in {"join", "done"}
    BY <1>6 DEF GrowBlock, Give, NewSize, Addable, FlagMeansHeap
  <2>2. bufsize' \in 0..SizeMax /\ bufc' \in 0..SizeMax /\ bufc' <= bufsize'
    BY ONLY <1>3, <2>1, SizeAssumption
  <2>3. CASE text' = text \o [k \in 1..Growth |-> Junk] /\ live' = live /\ lost' = lost
    <3>1. Growth \in Nat
      OBVIOUS
    <3>2. [k \in 1..Growth |-> Junk] \in Seq(Byte) /\ Len([k \in 1..Growth |-> Junk]) = Growth
      BY <3>1, NewBlocks
    <3>3. text' \in Seq(Byte) /\ Len(text') = Len(text) + Growth
      BY <2>3, <3>2, ConcatProperties DEF Typed
    <3>4. Typed'
      BY <1>1, <2>1, <2>2, <2>3, <3>3 DEF Typed, TypeOK, CallShape, Strings
    <3>5. SpaceAccounted'
      BY <2>1, <2>2, <2>3, <3>3 DEF SpaceAccounted
    <3>6. HeapAccounted'
      BY <1>h, <2>3
    <3> QED BY <1>1, <1>2, <2>1, <3>4, <3>5, <3>6 DEF NoBuffer, GivenLives
  <2>4. CASE live' = FALSE /\ lost' = lost + 1 /\ text' = text
    <3>0. live
      BY <1>6, Zenon DEF GrowBlock
    <3>3. HeapAccounted'
      <4>0. 1 + 0 = 1 /\ 0 + 1 = 1
        BY ONLY TRUE
      <4>1. blocks = 1 /\ lost = 0
        BY <2>1, <3>0, <4>0 DEF HeapAccounted, CanFree
      <4>2. ~(live') /\ blocks' = 1 /\ lost' = 1 /\ buf' = "heap"
        BY <1>1, <2>1, <2>4, <4>0, <4>1, Zenon
      <4>3. CanFree' = 0
        BY <4>2, Zenon DEF CanFree
      <4>4. blocks' = CanFree' + lost'
        BY ONLY <4>2, <4>3
      <4>5. lost' = IF buf' = "heap" /\ ~(live') THEN 1 ELSE 0
        BY <4>2, Zenon
      <4> QED BY <1>2, <4>4, <4>5, Zenon DEF HeapAccounted
    <3>1. Typed'
      <4>1. lost \in Int
        BY DEF Typed, TypeOK
      <4>2. lost' \in Int
        BY ONLY <2>4, <4>1
      <4> QED BY <1>1, <2>1, <2>2, <2>4, <4>2 DEF Typed, TypeOK, CallShape, Strings
    <3>2. SpaceAccounted'
      BY <2>2, <2>4 DEF SpaceAccounted
    <3>4. buf' = "heap"
      BY <1>1, <2>1, Zenon
    <3>5. NoBuffer' /\ GivenLives'
      BY ONLY <3>4 DEF NoBuffer, GivenLives
    <3> QED BY <1>2, <3>1, <3>2, <3>3, <3>5
  <2> QED BY <1>6, <2>3, <2>4, Zenon DEF GrowBlock
<1>7. ASSUME NEW n \in RawLens, RawHttpHeader(n) PROVE BufferInv'
  <2>1. n \in Nat
    OBVIOUS
  <2>2. text' \in Seq(Byte) /\ Len(text') = Len(text)
    <3>1. Str("raw", n) \in Seq(Byte)
      BY <2>1, StrIsSeq DEF Names
    <3>2. text' = text \/ text' = Put(text, Used, Str("raw", n))
      BY <1>7 DEF RawHttpHeader
    <3> QED BY <1>3, <3>1, <3>2, PutKeepsLength DEF Typed
  <2>3. UNCHANGED <<buf, live, bufsize, bufc, malloc, blocks, lost, pc, call>>
    BY <1>7 DEF RawHttpHeader
  <2>4. Typed'
    BY <2>2, <2>3 DEF Typed, TypeOK, CallShape, Strings
  <2>5. SpaceAccounted' /\ NoBuffer' /\ GivenLives'
    BY <2>2, <2>3 DEF SpaceAccounted, NoBuffer, GivenLives, Strings
  <2> QED BY <1>2, <1>h, <2>3, <2>4, <2>5
<1> QED BY <1>4, <1>5, <1>6, <1>7

---------------------------------------------------------------------------
LEMMA BufferStep == BufferInv /\ [Next]_vars => BufferInv'
<1> SUFFICES ASSUME BufferInv, [Next]_vars PROVE BufferInv'
  OBVIOUS
<1>1. CASE UNCHANGED vars
  BY <1>1 DEF vars, BufferInv, Typed, TypeOK, CallShape, Strings, SpaceAccounted, NoBuffer,
              FlagMeansHeap, HeapAccounted, CanFree, NoWriteOutside, GivenLives, GivenBufferSafe
<1>2. CASE Next
  BY <1>2, CallSteps, WildSteps, SetSteps, TextSteps, Zenon DEF Next, Continue
<1> QED BY <1>1, <1>2

LEMMA BufferAlways == Spec => []BufferInv
<1> QED BY BufferInitially, BufferStep, PTL DEF Spec

(* The account never passes SIZE_MAX, although the buffer grows by itself  *)
(* (client.h:44, client.c:241-248).                                        *)
THEOREM TypeCorrect == Spec => []TypeOK
<1>1. BufferInv => TypeOK
  BY DEF BufferInv, Typed
<1> QED BY <1>1, BufferAlways, PTL

(* bufsize__ is the block's size as long as it lives, bufc__ no more than  *)
(* that, through growth, refusal and resumption (client.c:209-289).        *)
THEOREM AccountIsRight == Spec => []SpaceAccounted
<1>1. BufferInv => SpaceAccounted
  BY DEF BufferInv
<1> QED BY <1>1, BufferAlways, PTL

(* No string, line end or raw text is written behind the block             *)
(* (client.c:267-287, 335-338).                                            *)
THEOREM WritesStayInside == Spec => []NoWriteOutside
<1>1. BufferInv => NoWriteOutside
  BY DEF BufferInv
<1> QED BY <1>1, BufferAlways, PTL

(* The heap blocks not freed are the one the client can free and the one   *)
(* a moving growth dropped the address of; the caller's are never freed    *)
(* (client.c:221, 243, 253-257).                                           *)
THEOREM HeapIsAccounted == Spec => []HeapAccounted
<1>1. BufferInv => HeapAccounted
  BY DEF BufferInv
<1> QED BY <1>1, BufferAlways, PTL

(* An add to a buffer of the caller's never grows it and never resumes     *)
(* behind the line's table (client.c:235, 285).                            *)
THEOREM GivenBufferIsSafe == Spec => []GivenBufferSafe
<1>1. BufferInv => GivenBufferSafe
  BY DEF BufferInv
<1> QED BY <1>1, BufferAlways, PTL

(* A bound on the steps an add still takes before it answers: a string     *)
(* moves on in the line, a growth takes from what the buffer may still     *)
(* grow, and between two growths a string or the line's end is tried       *)
StepsToAnswer ==
    2 * (Strings + 2 - call.at) + 2 * (SizeMax - bufsize) + (IF pc = "join" THEN 1 ELSE 0)

CloserToAnswer ==
    pc \in {"join", "grow"} =>
        /\ StepsToAnswer \in Nat
        /\ \/ pc' \in {"done", "wild"}
           \/ pc' \in {"join", "grow"} /\ StepsToAnswer' \in Nat /\ StepsToAnswer' < StepsToAnswer

LEMMA StepIsCloser == BufferInv /\ [Next]_vars => [CloserToAnswer]_vars
<1> SUFFICES ASSUME BufferInv, Next, pc \in {"join", "grow"}
             PROVE  /\ StepsToAnswer \in Nat
                    /\ \/ pc' \in {"done", "wild"}
                       \/ /\ pc' \in {"join", "grow"} /\ StepsToAnswer' \in Nat
                          /\ StepsToAnswer' < StepsToAnswer
  BY DEF CloserToAnswer
<1>1. /\ Strings \in Nat /\ call.at \in Nat /\ call.at <= Strings + 2
      /\ bufsize \in Nat /\ bufsize <= SizeMax /\ SizeMax \in Nat
      /\ Growth \in Nat /\ Growth > 0
      /\ call = [line |-> call.line, at |-> call.at, before |-> call.before,
                 refused |-> call.refused]
  BY LenProperties DEF BufferInv, Typed, TypeOK, CallShape, Strings
<1>2. StepsToAnswer = 2 * (Strings + 2 - call.at) + 2 * (SizeMax - bufsize)
                      + (IF pc = "join" THEN 1 ELSE 0)
  BY DEF StepsToAnswer
<1>3. StepsToAnswer \in Nat
  BY ONLY <1>1, <1>2
<1>4. StepsToAnswer' = 2 * (Strings' + 2 - call'.at) + 2 * (SizeMax - bufsize')
                       + (IF pc' = "join" THEN 1 ELSE 0)
  BY DEF StepsToAnswer
<1>5. CASE CopyString
  <2>1. /\ pc = "join" /\ pc' = "join" /\ bufsize' = bufsize /\ call.at <= Strings
        /\ call' = [call EXCEPT !.at = @ + 1]
    BY <1>5 DEF CopyString, Joining
  <2>2. call'.at = call.at + 1 /\ Strings' = Strings
    BY <1>1, <2>1 DEF Strings
  <2> QED BY <1>1, <1>2, <1>3, <1>4, <2>1, <2>2
<1>6. CASE StringTooLong
  <2>1. /\ pc = "join" /\ pc' = "grow" /\ bufsize' = bufsize
        /\ call' = [call EXCEPT !.at = call.at]
    BY <1>6 DEF StringTooLong, Joining, Resume, memory
  <2>2. call'.at = call.at /\ Strings' = Strings
    BY <1>1, <2>1 DEF Strings
  <2> QED BY <1>1, <1>2, <1>3, <1>4, <2>1, <2>2
<1>7. CASE DelimTooLong
  <2>1. /\ pc = "join" /\ pc' = "grow" /\ bufsize' = bufsize /\ call.at = Strings + 1
        /\ call' = [call EXCEPT !.at = @ + 1]
    BY <1>7 DEF DelimTooLong, Joining, memory
  <2>2. call'.at = call.at + 1 /\ Strings' = Strings
    BY <1>1, <2>1 DEF Strings
  <2> QED BY <1>1, <1>2, <1>3, <1>4, <2>1, <2>2
<1>8. CASE GrowBlock
  <2>1. /\ pc = "grow" /\ pc' \in {"join", "done"} /\ bufsize' = bufsize + Growth
        /\ bufsize < SizeMax - Growth /\ call' = call
    BY <1>8 DEF GrowBlock, Give, NewSize, Addable
  <2>2. call'.at = call.at /\ Strings' = Strings
    BY <2>1 DEF Strings
  <2> QED BY <1>1, <1>2, <1>3, <1>4, <2>1, <2>2
<1>9. CASE \/ AppendDelim \/ PastTable \/ WriteOutside
           \/ GrowNotOwn \/ GrowRefused \/ GrowFreed
  BY <1>3, <1>9 DEF AppendDelim, PastTable, WriteOutside, GrowNotOwn, GrowRefused, GrowFreed,
                    Give, Wild
<1>10. pc # "idle" /\ pc # "done"
  OBVIOUS
<1> QED BY <1>5, <1>6, <1>7, <1>8, <1>9, <1>10
    DEF Next, Continue, SetbufTaken, SetbufGiven, SetbufAlloc, SetbufFails, Unsetbuf, FreedTwice,
        BadMethod, SetHttpCmd, AddHttpHeader, StartLine, RawHttpHeader, RawOutside, Show, Return

(* Every step of an add takes it closer to its answer, for every size,     *)
(* growth and line: the loop of joins and growths cannot go on for ever,   *)
(* since the size is bounded by SIZE_MAX (client.c:241, 293-299).          *)
THEOREM AddDescends == Spec => [][CloserToAnswer]_vars
<1> QED BY BufferAlways, StepIsCloser, PTL DEF Spec
=============================================================================
