--------------------------- MODULE RequestProofs ---------------------------
(***************************************************************************)
(* What the request buffer holds is what its calls say, for every size,    *)
(* growth, limit and length of the strings added: the buffer implements    *)
(* the text of a request of RequestText.                                   *)
(***************************************************************************)
EXTENDS HttpBufferProofs, WellFoundedInduction

USE SizeAssumption, StringAssumption, MoveAssumption

---------------------------------------------------------------------------
(* Joining sequences of strings: FlattenSeq, whose definition is recursive *)

(* A set with 0 that has with every number the next has all numbers *)
LEMMA AllNumbers ==
    ASSUME NEW s, 0 \in s, \A n \in Nat : n \in s => n + 1 \in s
    PROVE  \A n \in Nat : n \in s
<1> SUFFICES ASSUME Nat \ s # {} PROVE FALSE
  OBVIOUS
<1>1. PICK i \in Nat \ s : \A j \in Nat \ s : ~(<<j, i>> \in OpToRel(<, Nat))
  BY NatLessThanWellFounded, WFMin
<1>2. i \in Nat /\ i # 0
  OBVIOUS
<1>3. i - 1 \in Nat /\ i - 1 < i /\ (i - 1) + 1 = i
  BY ONLY <1>2
<1>4. <<i - 1, i>> \in OpToRel(<, Nat)
  BY <1>2, <1>3, Zenon DEF OpToRel
<1>5. i - 1 \in s
  BY <1>1, <1>3, <1>4, Zenon
<1>6. i \in s
  BY <1>3, <1>5, Zenon
<1> QED BY <1>1, <1>6

(* f joins the first 1, 2, ..., n strings of s *)
Joins(f, s, n) == f = [i \in 1..n |-> IF i = 1 THEN s[i] ELSE f[i - 1] \o s[i]]

LEMMA FlattenIsJoins ==
    ASSUME NEW s, Len(s) # 0
    PROVE  FlattenSeq(s) = (CHOOSE f : Joins(f, s, Len(s)))[Len(s)]
<1> QED BY Zenon DEF FlattenSeq, Joins

LEMMA JoinsExist ==
    ASSUME NEW S, NEW s \in Seq(Seq(S))
    PROVE  \A n \in Nat : n <= Len(s) =>
              \E f : Joins(f, s, n) /\ \A i \in 1..n : f[i] \in Seq(S)
<1> DEFINE Good(f, n) == Joins(f, s, n) /\ \A i \in 1..n : f[i] \in Seq(S)
           have == {n \in Nat : n <= Len(s) => \E f : Good(f, n)}
<1>0. Len(s) \in Nat
  BY LenProperties
<1>1. 0 \in have
  <2>1. Good([i \in 1..0 |-> <<>>], 0)
    BY DEF Joins
  <2> QED BY <2>1
<1>2. ASSUME NEW n \in Nat, n \in have PROVE n + 1 \in have
  <2> SUFFICES ASSUME n + 1 <= Len(s) PROVE \E g : Good(g, n + 1)
    OBVIOUS
  <2>1. PICK f : Good(f, n)
    BY <1>0, <1>2
  <2>2. s[n + 1] \in Seq(S)
    BY <1>0, ElementOfSeq
  <2> DEFINE last == IF n = 0 THEN s[n + 1] ELSE f[n] \o s[n + 1]
             g == [i \in 1..(n + 1) |-> IF i = n + 1 THEN last ELSE f[i]]
  <2>3. last \in Seq(S)
    BY <2>1, <2>2, ConcatProperties
  <2>4. \A i \in 1..n : f[i] = IF i = 1 THEN s[i] ELSE f[i - 1] \o s[i]
    BY <2>1 DEF Joins
  <2>5. \A i \in 1..(n + 1) : g[i] = IF i = 1 THEN s[i] ELSE g[i - 1] \o s[i]
    <3> SUFFICES ASSUME NEW i \in 1..(n + 1)
                 PROVE  g[i] = IF i = 1 THEN s[i] ELSE g[i - 1] \o s[i]
      OBVIOUS
    <3>1. CASE i = n + 1 /\ n = 0
      BY <3>1
    <3>2. CASE i = n + 1 /\ n # 0
      <4>1. i = n + 1 /\ i # 1 /\ i - 1 = n /\ n \in 1..(n + 1) /\ n # n + 1
        BY <3>2
      <4>2. g[n] = f[n]
        BY <4>1
      <4>3. last = f[n] \o s[n + 1] /\ g[i] = last
        BY <3>2
      <4> QED BY <4>1, <4>2, <4>3, Zenon
    <3>3. CASE i # n + 1
      <4>1. i \in 1..n /\ g[i] = f[i]
        BY <3>3
      <4>2. i # 1 => i - 1 \in 1..(n + 1) /\ i - 1 # n + 1
        BY <4>1
      <4>3. i # 1 => g[i - 1] = f[i - 1]
        BY <4>2
      <4> QED BY <2>4, <4>1, <4>3
    <3> QED BY <3>1, <3>2, <3>3
  <2>6. Joins(g, s, n + 1)
    <3>1. g = [i \in 1..(n + 1) |-> g[i]]
      OBVIOUS
    <3> HIDE DEF g
    <3> QED BY <2>5, <3>1 DEF Joins
  <2>7. \A i \in 1..(n + 1) : g[i] \in Seq(S)
    BY <2>1, <2>3
  <2> QED BY <2>6, <2>7
<1> HIDE DEF have
<1>3. \A n \in Nat : n \in have
  BY <1>1, <1>2, AllNumbers
<1> QED BY <1>3 DEF have

LEMMA JoinsAgree ==
    ASSUME NEW f, NEW g, NEW s, NEW t, NEW m \in Nat, NEW n \in Nat, m <= n,
           Joins(f, s, m), Joins(g, t, n), \A i \in 1..m : s[i] = t[i]
    PROVE  \A i \in 1..m : f[i] = g[i]
<1> DEFINE same == {k \in Nat : k \in 1..m => f[k] = g[k]}
<1>1. 0 \in same
  OBVIOUS
<1>2. ASSUME NEW k \in Nat, k \in same PROVE k + 1 \in same
  <2> SUFFICES ASSUME k + 1 \in 1..m PROVE f[k + 1] = g[k + 1]
    OBVIOUS
  <2>1. k + 1 \in 1..n /\ (k + 1) - 1 = k
    OBVIOUS
  <2>2. f[k + 1] = IF k + 1 = 1 THEN s[k + 1] ELSE f[k] \o s[k + 1]
    <3>1. \A i \in 1..m : f[i] = IF i = 1 THEN s[i] ELSE f[i - 1] \o s[i]
      BY DEF Joins
    <3> QED BY <2>1, <3>1
  <2>3. g[k + 1] = IF k + 1 = 1 THEN t[k + 1] ELSE g[k] \o t[k + 1]
    <3>1. \A i \in 1..n : g[i] = IF i = 1 THEN t[i] ELSE g[i - 1] \o t[i]
      BY DEF Joins
    <3> QED BY <2>1, <3>1
  <2>4. k + 1 # 1 => k \in 1..m
    OBVIOUS
  <2> QED BY <1>2, <2>2, <2>3, <2>4
<1> HIDE DEF same
<1>3. \A k \in Nat : k \in same
  BY <1>1, <1>2, AllNumbers
<1> QED BY <1>3 DEF same

(* The strings up to one more are the strings before and that one *)
LEMMA FlattenSteps ==
    ASSUME NEW S, NEW s \in Seq(Seq(S)), NEW k \in Nat, k < Len(s)
    PROVE  /\ FlattenSeq(SubSeq(s, 1, 0)) = <<>>
           /\ FlattenSeq(SubSeq(s, 1, k)) \in Seq(S)
           /\ FlattenSeq(SubSeq(s, 1, k + 1)) = FlattenSeq(SubSeq(s, 1, k)) \o s[k + 1]
<1>0. Len(s) \in Nat
  BY LenProperties
<1>1. ASSUME NEW n \in 1..Len(s)
      PROVE  \E f : /\ FlattenSeq(SubSeq(s, 1, n)) = f[n]
                    /\ Joins(f, SubSeq(s, 1, n), n) /\ \A i \in 1..n : f[i] \in Seq(S)
  <2> DEFINE t == SubSeq(s, 1, n)
  <2>1. t \in Seq(Seq(S)) /\ Len(t) = n
    <3>1. \A i \in 1..n : s[i] \in Seq(S)
      BY <1>0, ElementOfSeq
    <3> QED BY <1>0, <3>1, SubSeqProperties
  <2> HIDE DEF t
  <2>2. \E f : Joins(f, t, n) /\ \A i \in 1..n : f[i] \in Seq(S)
    <3>1. \A m \in Nat : m <= Len(t) =>
             \E f : Joins(f, t, m) /\ \A i \in 1..m : f[i] \in Seq(S)
      BY <2>1, JoinsExist
    <3>2. n \in Nat /\ n <= Len(t)
      BY <1>0, <2>1
    <3> QED BY <3>1, <3>2, Zenon
  <2> DEFINE f == CHOOSE h : Joins(h, t, n)
  <2>3. Joins(f, t, n)
    BY <2>2
  <2>4. FlattenSeq(t) = f[n]
    BY <1>0, <2>1, FlattenIsJoins
  <2> HIDE DEF f
  <2>5. \A i \in 1..n : f[i] \in Seq(S)
    <3>1. PICK g : Joins(g, t, n) /\ \A i \in 1..n : g[i] \in Seq(S)
      BY <2>2
    <3>2. n \in Nat /\ n <= n /\ \A i \in 1..n : t[i] = t[i]
      BY <1>0
    <3>3. \A i \in 1..n : f[i] = g[i]
      BY ONLY <2>3, <3>1, <3>2, JoinsAgree, Zenon
    <3> QED BY <3>1, <3>3
  <2> QED BY <2>3, <2>4, <2>5 DEF t
<1>2. SubSeq(s, 1, 0) = <<>> /\ FlattenSeq(<<>>) = <<>>
  <2>1. SubSeq(s, 1, 0) = <<>>
    BY SubSeqEmpty
  <2>2. Len(<<>>) = 0
    BY EmptySeq
  <2> QED BY <2>1, <2>2 DEF FlattenSeq
<1>3. \A n \in 1..Len(s) : \A i \in 1..n : SubSeq(s, 1, n)[i] = s[i]
  BY <1>0, SubSeqProperties, ElementOfSeq
<1>4. k + 1 \in 1..Len(s)
  BY <1>0
<1>5. PICK g : /\ FlattenSeq(SubSeq(s, 1, k + 1)) = g[k + 1]
               /\ Joins(g, SubSeq(s, 1, k + 1), k + 1)
               /\ \A i \in 1..(k + 1) : g[i] \in Seq(S)
  BY <1>1, <1>4
<1>6. g[k + 1] = IF k + 1 = 1 THEN s[k + 1] ELSE g[k] \o s[k + 1]
  <2>1. \A i \in 1..(k + 1) : g[i] = IF i = 1 THEN SubSeq(s, 1, k + 1)[i]
                                     ELSE g[i - 1] \o SubSeq(s, 1, k + 1)[i]
    BY <1>5 DEF Joins
  <2>2. k + 1 \in 1..(k + 1) /\ (k + 1) - 1 = k /\ SubSeq(s, 1, k + 1)[k + 1] = s[k + 1]
    BY <1>3, <1>4
  <2> QED BY <2>1, <2>2
<1>7. s[k + 1] \in Seq(S)
  BY <1>4, ElementOfSeq
<1>8. CASE k = 0
  <2>1. FlattenSeq(SubSeq(s, 1, k)) = <<>> /\ <<>> \in Seq(S)
    BY <1>2, <1>8, EmptySeq
  <2>2. FlattenSeq(SubSeq(s, 1, k + 1)) = s[k + 1]
    BY <1>5, <1>6, <1>8
  <2> QED BY <1>2, <1>7, <2>1, <2>2, ConcatEmptySeq
<1>9. CASE k # 0
  <2>1. k \in 1..Len(s)
    BY <1>0, <1>9
  <2>2. PICK f : /\ FlattenSeq(SubSeq(s, 1, k)) = f[k] /\ Joins(f, SubSeq(s, 1, k), k)
                 /\ \A i \in 1..k : f[i] \in Seq(S)
    BY <1>1, <2>1
  <2>3. \A i \in 1..k : SubSeq(s, 1, k)[i] = SubSeq(s, 1, k + 1)[i]
    BY <1>3, <1>4, <2>1
  <2>4. k \in Nat /\ k + 1 \in Nat /\ k <= k + 1
    OBVIOUS
  <2>5. \A i \in 1..k : f[i] = g[i]
    <3> DEFINE t == SubSeq(s, 1, k)
               u == SubSeq(s, 1, k + 1)
    <3>1. Joins(f, t, k) /\ Joins(g, u, k + 1)
      BY <1>5, <2>2
    <3>2. \A i \in 1..k : t[i] = u[i]
      BY <2>3
    <3> HIDE DEF t, u
    <3> QED BY ONLY <2>4, <3>1, <3>2, JoinsAgree
  <2>6. k \in 1..k
    BY <2>1
  <2>7. f[k] = g[k] /\ f[k] \in Seq(S)
    BY <2>2, <2>5, <2>6
  <2>8. k + 1 # 1
    BY <1>9
  <2> QED BY <1>2, <1>5, <1>6, <2>2, <2>7, <2>8
<1> QED BY <1>8, <1>9

(* Of no strings nothing is joined *)
LEMMA FlattenNone == \A s : SubSeq(s, 1, 0) = <<>> /\ FlattenSeq(SubSeq(s, 1, 0)) = <<>>
<1>1. \A s : SubSeq(s, 1, 0) = <<>>
  BY SubSeqEmpty
<1>2. Len(<<>>) = 0
  BY EmptySeq
<1> QED BY <1>1, <1>2 DEF FlattenSeq

---------------------------------------------------------------------------
(* Writing into a block *)

(* What is written stands behind what was in use, which stays *)
LEMMA PutText ==
    ASSUME NEW t \in Seq(Byte), NEW s \in Seq(Byte), NEW at \in Nat, at + Len(s) <= Len(t)
    PROVE  /\ SubSeq(t, 1, at) \in Seq(Byte)
           /\ SubSeq(Put(t, at, s), 1, at) = SubSeq(t, 1, at)
           /\ SubSeq(Put(t, at, s), 1, at + Len(s)) = SubSeq(t, 1, at) \o s
<1>1. Len(t) \in Nat /\ Len(s) \in Nat
  BY LenProperties
<1> DEFINE new == Put(t, at, s)
           n == at + Len(s)
<1>2. new \in Seq(Byte) /\ Len(new) = Len(t)
  BY PutKeepsLength
<1>3. n \in Nat /\ at <= n /\ n <= Len(t)
  BY <1>1
<1>4. \A m \in 0..Len(t) : /\ SubSeq(t, 1, m) \in Seq(Byte) /\ Len(SubSeq(t, 1, m)) = m
                           /\ \A i \in 1..m : SubSeq(t, 1, m)[i] = t[i]
  <2> TAKE m \in 0..Len(t)
  <2>1. m \in Int /\ 1 \in Int /\ \A i \in 1..m : i \in 1..Len(t)
    BY <1>1
  <2>2. \A i \in 1..m : t[i] \in Byte
    BY <2>1, ElementOfSeq
  <2> QED BY <1>1, <2>1, <2>2, SubSeqProperties
<1>5. \A m \in 0..Len(t) : /\ SubSeq(new, 1, m) \in Seq(Byte) /\ Len(SubSeq(new, 1, m)) = m
                           /\ \A i \in 1..m : SubSeq(new, 1, m)[i] = new[i]
  <2> HIDE DEF new
  <2> TAKE m \in 0..Len(t)
  <2>1. m \in Int /\ 1 \in Int /\ \A i \in 1..m : i \in 1..Len(new)
    BY <1>1, <1>2
  <2>2. \A i \in 1..m : new[i] \in Byte
    BY <1>2, <2>1, ElementOfSeq
  <2> QED BY <1>1, <2>1, <2>2, SubSeqProperties
<1>6. \A i \in 1..Len(t) : new[i] = IF i > at /\ i <= n THEN s[i - at] ELSE t[i]
  BY DEF Put
<1> HIDE DEF new
<1>7. SubSeq(new, 1, at) = SubSeq(t, 1, at)
  <2>1. at \in 0..Len(t)
    BY <1>1, <1>3
  <2>2. \A i \in 1..at : new[i] = t[i]
    BY <1>1, <1>3, <1>6
  <2>3. \A i \in 1..at : SubSeq(new, 1, at)[i] = SubSeq(t, 1, at)[i]
    BY <1>4, <1>5, <2>1, <2>2
  <2> QED BY <1>4, <1>5, <2>1, <2>3, SeqEqual
<1>8. SubSeq(new, 1, n) = SubSeq(t, 1, at) \o s
  <2> DEFINE u == SubSeq(t, 1, at)
             w == SubSeq(new, 1, n)
  <2>1. u \in Seq(Byte) /\ Len(u) = at /\ \A i \in 1..at : u[i] = t[i]
    BY <1>1, <1>3, <1>4
  <2>2. w \in Seq(Byte) /\ Len(w) = n /\ \A i \in 1..n : w[i] = new[i]
    BY <1>1, <1>3, <1>5
  <2> HIDE DEF u, w
  <2>3. /\ u \o s \in Seq(Byte) /\ Len(u \o s) = n
        /\ \A i \in 1..n : (u \o s)[i] = IF i <= at THEN u[i] ELSE s[i - at]
    BY <2>1, ConcatProperties
  <2>4. \A i \in 1..n : w[i] = (u \o s)[i]
    <3> SUFFICES ASSUME NEW i \in 1..n PROVE w[i] = (u \o s)[i]
      OBVIOUS
    <3>1. i \in 1..Len(t) /\ i <= n
      BY <1>1, <1>3
    <3>2. CASE i <= at
      <4>1. i \in 1..at /\ ~(i > at)
        BY <1>3, <3>2
      <4>2. new[i] = t[i]
        BY <1>6, <3>1, <4>1
      <4>3. w[i] = new[i] /\ (u \o s)[i] = u[i] /\ u[i] = t[i]
        BY <2>1, <2>2, <2>3, <3>2, <4>1
      <4> QED BY <4>2, <4>3
    <3>3. CASE ~(i <= at)
      <4>1. i > at
        BY <1>3, <3>3
      <4>2. new[i] = s[i - at]
        BY <1>6, <3>1, <4>1
      <4>3. w[i] = new[i] /\ (u \o s)[i] = s[i - at]
        BY <2>2, <2>3, <3>3
      <4> QED BY <4>2, <4>3
    <3> QED BY <3>2, <3>3
  <2>5. w = u \o s
    BY <2>2, <2>3, <2>4, SeqEqual
  <2> QED BY <2>5 DEF u, w
<1> QED BY <1>1, <1>3, <1>4, <1>7, <1>8 DEF new

(* What is added behind a block changes nothing in front *)
LEMMA GrownText ==
    ASSUME NEW t \in Seq(Byte), NEW j \in Seq(Byte), NEW at \in 0..Len(t)
    PROVE  SubSeq(t \o j, 1, at) = SubSeq(t, 1, at)
<1>1. Len(t) \in Nat
  BY LenProperties
<1>2. CASE at = 0
  BY <1>2, SubSeqEmpty
<1>3. CASE at # 0
  <2>1. 1 \in 1..Len(t) /\ at \in 1..Len(t)
    BY <1>1, <1>3
  <2> QED BY <2>1, SubSeqOfConcat1
<1> QED BY <1>2, <1>3

---------------------------------------------------------------------------
(* The lines that are added *)
Lines == {Command(m, c) : m \in {m \in Methods : Supported(m)}, c \in CmdLens}
         \cup {Header(f, v) : f \in FieldLens, v \in ValueLens}

(* The strings of the line that were joined, also when its end is due *)
Reached == IF call.at > Strings + 1 THEN Strings ELSE call.at - 1
Joined == call.before \o FlattenSeq(SubSeq(call.line, 1, Reached))

(* The block was not lost to a move *)
Whole == buf = "none" \/ live

(* What keeps the answers true: while a line is added the text in use is   *)
(* the text before and the strings reached                                 *)
TextInv ==
    /\ buf = "none" => text = <<>> /\ bufsize = 0
    /\ pc \in {"join", "grow", "done"} => call.line \in Lines
    /\ pc \in {"join", "grow"} /\ Whole => call.before \in Seq(Byte) /\ UsedText = Joined
    /\ pc = "done" => result \in {"SUCCESS", "EOMEM"} /\ (result = "SUCCESS" => live)
    /\ AnswersTell

---------------------------------------------------------------------------
(* Every line has strings, and is one the buffer's proofs know *)
LEMMA LinesKnown ==
    ASSUME NEW line \in Lines
    PROVE  line \in Seq(Seq(Byte))
<1> QED BY LinesAreSeqs DEF Lines

LEMMA TextInitially == Init => TextInv
<1> SUFFICES ASSUME Init PROVE TextInv
  OBVIOUS
<1> QED BY DEF Init, TextInv, AnswersTell, SuccessIsWholeLine, FailureIsPrefix

(* What the invariants say of the text in use *)
LEMMA TextCounts ==
    ASSUME BufferInv, TextInv
    PROVE  /\ Strings \in Nat /\ Used \in Nat /\ call.at \in 1..(Strings + 2)
           /\ call.line \in Seq(Seq(Byte)) /\ Reached \in 0..Strings
           /\ live => Used <= Len(text)
           /\ Whole => UsedText \in Seq(Byte)
           /\ buf = "none" => bufc = 0 /\ UsedText = <<>>
<1>1. Strings \in Nat /\ Used \in Nat /\ call.at \in 1..(Strings + 2) /\ call.line \in Seq(Seq(Byte))
  BY Counts DEF BufferInv, Typed, TypeOK, CallShape
<1>2. Reached \in 0..Strings
  BY ONLY <1>1 DEF Reached
<1>3. live => Used <= Len(text)
  <2>1. bufsize \in Nat /\ bufc \in Nat /\ bufc <= bufsize /\ (live => bufsize = Len(text))
    BY Counts
  <2> QED BY ONLY <2>1 DEF Used
<1>4. buf = "none" => bufc = 0 /\ UsedText = <<>>
  <2> SUFFICES ASSUME buf = "none" PROVE bufc = 0 /\ UsedText = <<>>
    OBVIOUS
  <2>1. text = <<>> /\ bufsize = 0 /\ bufc = 0
    BY DEF TextInv, BufferInv, NoBuffer
  <2>2. Used = 0
    BY <2>1 DEF Used
  <2> QED BY <2>1, <2>2, FlattenNone DEF UsedText
<1>5. Whole => UsedText \in Seq(Byte)
  <2>1. ASSUME live PROVE UsedText \in Seq(Byte)
    <3>1. text \in Seq(Byte) /\ Len(text) \in Nat
      BY Counts DEF BufferInv, Typed
    <3>2. \A i \in 1..Used : text[i] \in Byte
      BY <1>1, <1>3, <2>1, <3>1, ElementOfSeq
    <3> QED BY <1>1, <3>2, SubSeqProperties DEF UsedText
  <2> QED BY <1>4, <2>1, EmptySeq DEF Whole
<1> QED BY <1>1, <1>2, <1>3, <1>4, <1>5

(* Another place in the line is the same line *)
LEMMA CallFields ==
    ASSUME BufferInv, NEW at, call' = [call EXCEPT !.at = at]
    PROVE  call'.line = call.line /\ call'.before = call.before /\ call'.at = at
<1> QED BY DEF BufferInv, Typed, CallShape

(* A step that leaves the text in use and the line as they were *)
LEMMA SameText ==
    ASSUME UNCHANGED <<text, bufsize, bufc>>
    PROVE  UsedText' = UsedText
<1> QED BY DEF UsedText, Used

(* Copying a string adds it to the text in use; it needs a block that is   *)
(* there                                                                   *)
LEMMA CopyAdds ==
    ASSUME BufferInv, TextInv, CopyString, Whole
    PROVE  /\ live /\ live' /\ buf # "none" /\ buf' = buf /\ pc = "join" /\ pc' = "join"
           /\ call'.line = call.line /\ call'.before = call.before
           /\ UsedText' = Joined'
           /\ call.at \in 1..Strings /\ call.line[call.at] \in Seq(Byte)
           /\ text' = Put(text, Used, call.line[call.at])
           /\ Used' = Used + Len(call.line[call.at])
<1>1. /\ Strings \in Nat /\ Used \in Nat /\ bufsize \in Nat /\ bufc \in Nat
      /\ text \in Seq(Byte) /\ Len(text) \in Nat /\ call.at \in 1..(Strings + 2)
  BY Counts, TextCounts DEF BufferInv, Typed
<1>2. call.at <= Strings /\ FitsString /\ InBlock(StringLen)
  BY Zenon DEF CopyString
<1>3. call.at \in 1..Strings
  BY ONLY <1>1, <1>2
<1> DEFINE s == call.line[call.at]
           k == call.at - 1
<1>4. s \in Seq(Byte) /\ StringLen \in Nat /\ StringLen = Len(s)
  BY <1>3, Counts DEF StringLen
<1>5. bufc # 0 /\ StringLen < bufc
  BY <1>1, <1>2, <1>4 DEF FitsString
<1>6. live /\ buf # "none"
  BY <1>5 DEF BufferInv, NoBuffer, Whole
<1>7. /\ text' = Put(text, Used, s) /\ bufc' = bufc - StringLen
      /\ call' = [call EXCEPT !.at = call.at + 1]
      /\ UNCHANGED <<buf, live, bufsize, pc>> /\ pc = "join"
  BY DEF CopyString, Joining
<1>8. call'.line = call.line /\ call'.before = call.before /\ call'.at = call.at + 1
  BY <1>7, CallFields
<1>9. Used' = Used + Len(s) /\ Used + Len(s) <= Len(text)
  <2>1. Used' = bufsize - bufc'
    BY <1>7 DEF Used
  <2>2. bufsize = Len(text)
    BY <1>6, Counts
  <2> DEFINE l == Len(s)
  <2>3. /\ bufsize \in Nat /\ bufc \in Nat /\ l \in Nat /\ l < bufc /\ bufc' = bufc - l
        /\ Used = bufsize - bufc
    BY <1>1, <1>4, <1>5, <1>7, Zenon DEF Used
  <2> HIDE DEF l
  <2>4. Used' = Used + l /\ Used + l <= Len(text)
    BY ONLY <2>1, <2>2, <2>3
  <2> QED BY <2>4 DEF l
<1>10. UsedText' = UsedText \o s
  <2>1. /\ text \in Seq(Byte) /\ s \in Seq(Byte) /\ Used \in Nat
        /\ Used + Len(s) <= Len(text)
    BY <1>1, <1>4, <1>9
  <2>2. SubSeq(Put(text, Used, s), 1, Used + Len(s)) = SubSeq(text, 1, Used) \o s
    BY ONLY <2>1, PutText
  <2> QED BY <1>7, <1>9, <2>2 DEF UsedText
<1>11. k \in Nat /\ k < Len(call.line) /\ k + 1 = call.at /\ Reached = k /\ Reached' = k + 1
  <2>1. Strings' = Strings /\ Strings = Len(call.line)
    BY <1>8 DEF Strings
  <2>2. Reached = k
    BY ONLY <1>1, <1>3 DEF Reached
  <2>3. Reached' = IF call.at + 1 > Strings + 1 THEN Strings ELSE (call.at + 1) - 1
    BY <1>8, <2>1 DEF Reached
  <2> QED BY ONLY <1>1, <1>3, <2>1, <2>2, <2>3
<1>12. Joined' = Joined \o s
  <2> HIDE DEF k
  <2>1. call.line \in Seq(Seq(Byte)) /\ call.before \in Seq(Byte) /\ UsedText = Joined
    BY <1>7, TextCounts DEF TextInv
  <2>2. /\ FlattenSeq(SubSeq(call.line, 1, k)) \in Seq(Byte)
        /\ FlattenSeq(SubSeq(call.line, 1, k + 1)) = FlattenSeq(SubSeq(call.line, 1, k)) \o s
    BY <1>11, <2>1, FlattenSteps
  <2>3. Joined = call.before \o FlattenSeq(SubSeq(call.line, 1, k))
    BY <1>11 DEF Joined
  <2>4. Joined' = call.before \o FlattenSeq(SubSeq(call.line, 1, k + 1))
    BY <1>8, <1>11 DEF Joined
  <2> DEFINE b == call.before
             f == FlattenSeq(SubSeq(call.line, 1, k))
  <2>5. b \in Seq(Byte) /\ f \in Seq(Byte) /\ s \in Seq(Byte)
    BY <1>4, <2>1, <2>2
  <2>6. Joined = b \o f /\ Joined' = b \o (f \o s)
    BY <2>2, <2>3, <2>4
  <2> HIDE DEF b, f, s
  <2>7. (b \o f) \o s = b \o (f \o s)
    BY <2>5, ConcatAssociative
  <2> QED BY <2>6, <2>7
<1>13. UsedText = Joined
  BY <1>7 DEF TextInv
<1> QED BY <1>3, <1>4, <1>6, <1>7, <1>8, <1>9, <1>10, <1>12, <1>13

(* The end of the line is added to a block that is there *)
LEMMA EndAdds ==
    ASSUME BufferInv, TextInv, AppendDelim
    PROVE  /\ live /\ live' /\ buf # "none" /\ buf' = buf /\ pc = "join" /\ pc' = "done"
           /\ result' = "SUCCESS" /\ call' = call
           /\ UsedText' = call.before \o FlattenSeq(call.line) \o CRLF
           /\ text' = Put(text, Used, CRLF) /\ Used' = Used + Len(CRLF)
<1>1. /\ Strings \in Nat /\ Used \in Nat /\ text \in Seq(Byte) /\ Len(text) \in Nat
      /\ call.line \in Seq(Seq(Byte))
  BY Counts, TextCounts DEF BufferInv, Typed
<1>2. /\ bufc >= 2 /\ InBlock(2) /\ pc = "join" /\ call.at = Strings + 1
      /\ text' = Put(text, Used, CRLF) /\ bufc' = bufc - 2 /\ pc' = "done" /\ result' = "SUCCESS"
      /\ UNCHANGED <<buf, live, bufsize, call>>
  BY DEF AppendDelim, Joining
<1>3. live /\ Used + 2 <= Len(text)
  BY <1>2 DEF InBlock
<1>4. buf # "none"
  BY <1>3 DEF BufferInv, NoBuffer
<1>5. Used' = Used + 2
  <2>1. bufsize \in Nat /\ bufc \in Nat
    BY Counts
  <2> QED BY <1>2, <2>1 DEF Used
<1>6. UsedText' = UsedText \o CRLF
  <2>1. CRLF \in Seq(Byte) /\ Len(CRLF) = 2
    BY CRLFIsSeq
  <2>2. Used + Len(CRLF) <= Len(text)
    BY <1>3, <2>1
  <2>3. SubSeq(Put(text, Used, CRLF), 1, Used + Len(CRLF)) = SubSeq(text, 1, Used) \o CRLF
    BY ONLY <1>1, <2>1, <2>2, PutText
  <2> QED BY <1>2, <1>5, <2>1, <2>3 DEF UsedText
<1>7. UsedText = call.before \o FlattenSeq(call.line)
  <2>1. Reached = Strings
    BY <1>1, <1>2 DEF Reached
  <2>2. SubSeq(call.line, 1, Len(call.line)) = call.line
    BY <1>1, SubSeqFull
  <2>3. UsedText = Joined
    BY <1>2, <1>3 DEF TextInv, Whole
  <2> QED BY <2>1, <2>2, <2>3 DEF Joined, Strings
<1> QED BY <1>2, <1>3, <1>4, <1>5, <1>6, <1>7, CRLFIsSeq

(* Growing leaves the text in use, as long as the block does not move *)
LEMMA GrowKeeps ==
    ASSUME BufferInv, TextInv, GrowBlock
    PROVE  /\ live /\ buf = "heap" /\ buf' = buf /\ pc = "grow" /\ call' = call
           /\ live' => /\ UsedText' = UsedText /\ Used' = Used
                       /\ text' = text \o [k \in 1..Growth |-> Junk]
           /\ \/ pc' = "join"
              \/ pc' = "done" /\ result' = "EOMEM"
<1>1. /\ text \in Seq(Byte) /\ Len(text) \in Nat /\ Used \in Nat
      /\ bufsize \in Nat /\ bufc \in Nat /\ Growth \in Nat
  BY Counts DEF BufferInv, Typed
<1>2. /\ live /\ malloc /\ pc = "grow" /\ call' = call /\ buf' = buf
      /\ bufsize' = bufsize + Growth /\ bufc' = bufc + Growth
      /\ \/ pc' = "join"
         \/ pc' = "done" /\ result' = "EOMEM"
  BY DEF GrowBlock, Give, NewSize
<1>3. buf = "heap"
  BY <1>2 DEF BufferInv, FlagMeansHeap
<1>4. Used' = Used
  BY <1>1, <1>2 DEF Used
<1>5. ASSUME live' PROVE UsedText' = UsedText /\ text' = text \o [k \in 1..Growth |-> Junk]
  <2>1. text' = text \o [k \in 1..Growth |-> Junk]
    BY <1>5, Zenon DEF GrowBlock
  <2>2. [k \in 1..Growth |-> Junk] \in Seq(Byte)
    BY <1>1, NewBlocks
  <2>3. Used \in 0..Len(text)
    BY <1>1, <1>2, TextCounts
  <2>4. SubSeq(text', 1, Used) = SubSeq(text, 1, Used)
    BY <1>1, <2>1, <2>2, <2>3, GrownText
  <2> QED BY <1>4, <2>1, <2>4 DEF UsedText
<1> QED BY <1>2, <1>3, <1>4, <1>5

(* Raw text is put behind the text in use *)
LEMMA RawKeeps ==
    ASSUME BufferInv, TextInv, NEW n \in RawLens, RawHttpHeader(n)
    PROVE  /\ UsedText' = UsedText /\ pc = "idle"
           /\ UNCHANGED <<buf, live, bufsize, bufc, malloc, blocks, lost, pc, call>>
           /\ buf = "none" => text' = text
<1>1. text \in Seq(Byte) /\ Len(text) \in Nat /\ Used \in Nat /\ n \in Nat
  BY Counts DEF BufferInv, Typed
<1>2. pc = "idle" /\ UNCHANGED <<buf, live, bufsize, bufc, malloc, blocks, lost, pc, call>>
  BY DEF RawHttpHeader
<1>3. \/ text' = text
      \/ /\ text' = Put(text, Used, Str("raw", n)) /\ live /\ Used + n <= Len(text)
  BY DEF RawHttpHeader, InBlock
<1>4. Used' = Used
  BY <1>2 DEF Used
<1>5. CASE text' = text
  BY <1>2, <1>4, <1>5 DEF UsedText
<1>6. CASE /\ text' = Put(text, Used, Str("raw", n)) /\ live /\ Used + n <= Len(text)
  <2> DEFINE s == Str("raw", n)
  <2>1. s \in Seq(Byte) /\ Len(s) = n
    BY <1>1, StrIsSeq DEF Names
  <2> HIDE DEF s
  <2>2. SubSeq(Put(text, Used, s), 1, Used) = SubSeq(text, 1, Used)
    <3>1. Used + Len(s) <= Len(text)
      BY <1>6, <2>1
    <3> QED BY ONLY <1>1, <2>1, <3>1, PutText
  <2>3. UsedText' = UsedText
    BY <1>4, <1>6, <2>2 DEF UsedText, s
  <2>4. buf # "none"
    BY <1>6 DEF BufferInv, NoBuffer
  <2> QED BY <1>2, <2>3, <2>4
<1> QED BY <1>3, <1>5, <1>6

(* Adding starts with the line's first string *)
LEMMA StartBegins ==
    ASSUME BufferInv, TextInv, NEW line \in Lines, StartLine(line)
    PROVE  /\ pc = "idle" /\ pc' = "join" /\ UNCHANGED <<memory, bufc, result>>
           /\ call'.line = line /\ call'.before = UsedText /\ UsedText' = UsedText
           /\ Whole => UsedText' = Joined'
<1>1. /\ pc = "idle" /\ pc' = "join" /\ UNCHANGED <<memory, bufc, result>>
      /\ call'.line = line /\ call'.before = UsedText /\ call'.at = 1
  BY DEF StartLine
<1>2. UsedText' = UsedText
  BY <1>1, SameText DEF memory
<1>3. Reached' = 0
  <2>1. Strings' \in Nat
    BY <1>1, LinesKnown, LenProperties DEF Strings
  <2>2. \A m \in Nat : (IF 1 > m + 1 THEN m ELSE 1 - 1) = 0
    OBVIOUS
  <2> QED BY <1>1, <2>1, <2>2 DEF Reached
<1>4. ASSUME Whole PROVE UsedText' = Joined'
  <2>1. Joined' = UsedText \o <<>>
    BY <1>1, <1>3, FlattenNone DEF Joined
  <2>2. UsedText \in Seq(Byte)
    BY <1>4, TextCounts
  <2>3. \A u \in Seq(Byte) : u \o <<>> = u
    BY ConcatEmptySeq
  <2> QED BY <1>2, <2>1, <2>2, <2>3
<1> QED BY <1>1, <1>2, <1>4

(* A string or the end of the line has no room: what was reached stays *)
LEMMA TooLongKeeps ==
    ASSUME BufferInv, TextInv, StringTooLong \/ DelimTooLong
    PROVE  /\ pc = "join" /\ pc' = "grow" /\ UNCHANGED <<memory, bufc, result>>
           /\ call'.line = call.line /\ call'.before = call.before
           /\ UsedText' = UsedText /\ Joined' = Joined
<1>1. Strings \in Nat /\ call.at \in 1..(Strings + 2)
  BY TextCounts
<1>2. /\ pc = "join" /\ pc' = "grow" /\ UNCHANGED <<memory, bufc, result>>
      /\ \/ call' = [call EXCEPT !.at = call.at]
         \/ call' = [call EXCEPT !.at = call.at + 1] /\ call.at = Strings + 1
  BY DEF StringTooLong, DelimTooLong, Joining, Resume
<1>3. /\ call'.line = call.line /\ call'.before = call.before
      /\ \/ call'.at = call.at
         \/ call'.at = call.at + 1 /\ call.at = Strings + 1
  BY <1>2, CallFields
<1>4. Reached' = Reached
  <2>1. Strings' = Strings
    BY <1>3 DEF Strings
  <2>2. \A m \in Nat : (IF m + 1 + 1 > m + 1 THEN m ELSE m + 1 + 1 - 1) = (IF m + 1 > m + 1 THEN m ELSE m + 1 - 1)
    OBVIOUS
  <2> QED BY <1>1, <1>3, <2>1, <2>2 DEF Reached
<1>5. UsedText' = UsedText
  BY <1>2, SameText DEF memory
<1> QED BY <1>2, <1>3, <1>4, <1>5 DEF Joined

---------------------------------------------------------------------------
(* An add that gives up answers with what it reached *)
LEMMA GivingUp ==
    ASSUME BufferInv, TextInv, pc = "grow", pc' = "done", result' = "EOMEM",
           call'.line = call.line, call'.before = call.before, buf' = buf, live' => live,
           Whole' => UsedText' = UsedText, buf = "none" => text' = text /\ bufsize' = bufsize
    PROVE  TextInv'
<1>1. Strings' = Strings /\ (Whole' => Whole)
  BY DEF Strings, Whole
<1>2. Whole' => UsedText' = Joined
  BY <1>1 DEF TextInv
<1>3. FailureIsPrefix'
  <2> SUFFICES ASSUME live'
               PROVE  \E k \in 0..Strings : UsedText' = call.before \o FlattenSeq(SubSeq(call.line, 1, k))
    BY <1>1 DEF FailureIsPrefix
  <2> QED BY <1>2, TextCounts DEF Whole, Joined
<1>4. SuccessIsWholeLine'
  BY DEF SuccessIsWholeLine
<1> QED BY <1>3, <1>4 DEF TextInv, AnswersTell

LEMMA TextStep == BufferInv /\ TextInv /\ [Next]_vars => TextInv'
<1> SUFFICES ASSUME BufferInv, TextInv, [Next]_vars PROVE TextInv'
  OBVIOUS
(* No call runs after the step *)
<1>a. ASSUME pc' \in {"idle", "wild"}, buf' = "none" => text' = <<>> /\ bufsize' = 0
      PROVE  TextInv'
  BY <1>a DEF TextInv, AnswersTell, SuccessIsWholeLine, FailureIsPrefix
<1>b. ASSUME NEW cause, Wild(cause) PROVE TextInv'
  BY <1>a, <1>b DEF Wild, memory, TextInv
<1>1. CASE UNCHANGED vars
  BY <1>1 DEF vars, TextInv, AnswersTell, SuccessIsWholeLine, FailureIsPrefix, Whole, Joined,
              Reached, Strings, UsedText, Used
<1>2. CASE SetbufTaken \/ SetbufFails \/ Unsetbuf
  BY <1>2, <1>a DEF SetbufTaken, SetbufFails, Unsetbuf, Emptied, memory, TextInv
<1>3. CASE \/ \E n \in GivenSizes : SetbufGiven(n)
           \/ \E n \in AskSizes : SetbufAlloc(n)
  BY <1>3, <1>a DEF SetbufGiven, SetbufAlloc
<1>4. ASSUME NEW m \in Methods, BadMethod(m) PROVE TextInv'
  BY <1>4, <1>a, <1>b DEF BadMethod, memory, TextInv
<1>5. CASE FreedTwice \/ PastTable \/ WriteOutside \/ GrowFreed \/ Show
  BY <1>5, <1>b DEF FreedTwice, PastTable, WriteOutside, GrowFreed, Show
<1>6. ASSUME NEW n \in RawLens, RawHttpHeader(n) \/ RawOutside(n) PROVE TextInv'
  <2>1. CASE RawHttpHeader(n)
    BY <1>a, <2>1, RawKeeps DEF TextInv
  <2> QED BY <1>6, <1>b, <2>1 DEF RawOutside
<1>7. ASSUME NEW line \in Lines, StartLine(line) PROVE TextInv'
  <2>1. /\ pc' = "join" /\ UNCHANGED <<memory, bufc, result>> /\ call'.line = line
        /\ call'.before = UsedText /\ (Whole => UsedText' = Joined')
    BY <1>7, StartBegins
  <2>2. Whole' => Whole /\ call'.before \in Seq(Byte) /\ UsedText' = Joined'
    BY <2>1, TextCounts DEF Whole, memory
  <2> QED BY <2>1, <2>2 DEF memory, TextInv, AnswersTell, SuccessIsWholeLine, FailureIsPrefix
<1>8. CASE CopyString
  <2>1. pc = "join" /\ pc' = "join" /\ UNCHANGED <<buf, live>>
        /\ call'.line = call.line /\ call'.before = call.before
    BY <1>8, CallFields DEF CopyString, Joining
  <2>2. ASSUME Whole' PROVE buf' # "none" /\ call'.before \in Seq(Byte) /\ UsedText' = Joined'
    <3>1. Whole
      BY <2>1, <2>2 DEF Whole
    <3> QED BY <1>8, <2>1, <3>1, CopyAdds DEF TextInv
  <2>3. buf' = "none" => Whole'
    BY DEF Whole
  <2> QED BY <2>1, <2>2, <2>3 DEF TextInv, AnswersTell, SuccessIsWholeLine, FailureIsPrefix
<1>9. CASE StringTooLong \/ DelimTooLong
  <2>1. /\ pc = "join" /\ pc' = "grow" /\ UNCHANGED <<memory, bufc, result>>
        /\ call'.line = call.line /\ call'.before = call.before
        /\ UsedText' = UsedText /\ Joined' = Joined
    BY <1>9, TooLongKeeps
  <2> QED BY <2>1 DEF memory, Whole, TextInv, AnswersTell, SuccessIsWholeLine, FailureIsPrefix
<1>10. CASE AppendDelim
  <2>1. /\ live' /\ buf' # "none" /\ pc = "join" /\ pc' = "done"
        /\ result' = "SUCCESS" /\ call' = call
        /\ UsedText' = call.before \o FlattenSeq(call.line) \o CRLF
    BY <1>10, EndAdds
  <2>2. AnswersTell'
    BY <2>1 DEF AnswersTell, SuccessIsWholeLine, FailureIsPrefix
  <2> QED BY <2>1, <2>2 DEF TextInv
<1>11. CASE GrowNotOwn
  <2>1. pc = "grow" /\ pc' = "done" /\ result' = "EOMEM" /\ UNCHANGED <<memory, bufc, call>>
    BY <1>11 DEF GrowNotOwn, Give
  <2> QED BY <2>1, GivingUp, SameText DEF memory
<1>12. CASE GrowRefused
  <2>1. /\ pc = "grow" /\ pc' = "done" /\ result' = "EOMEM" /\ UNCHANGED <<memory, bufc>>
        /\ call'.line = call.line /\ call'.before = call.before
    BY <1>12 DEF GrowRefused, Give, BufferInv, Typed, CallShape
  <2> QED BY <2>1, GivingUp, SameText DEF memory
<1>13. CASE GrowBlock
  <2>1. /\ live /\ buf = "heap" /\ buf' = buf /\ pc = "grow" /\ call' = call
        /\ (live' => UsedText' = UsedText)
        /\ \/ pc' = "join"
           \/ pc' = "done" /\ result' = "EOMEM"
    BY <1>13, GrowKeeps
  <2>2. Whole /\ (Whole' => live') /\ Joined' = Joined
    BY <2>1 DEF Whole, Joined, Reached, Strings
  <2>3. CASE pc' = "join"
    BY <2>1, <2>2, <2>3 DEF TextInv, AnswersTell, SuccessIsWholeLine, FailureIsPrefix
  <2>4. CASE pc' = "done" /\ result' = "EOMEM"
    BY <2>1, <2>2, <2>4, GivingUp
  <2> QED BY <2>1, <2>3, <2>4
<1>14. CASE Return
  BY <1>14, <1>a DEF Return, memory, TextInv
<1>15. ASSUME NEW m \in Methods, NEW c \in CmdLens, SetHttpCmd(m, c) PROVE TextInv'
  BY <1>7, <1>15 DEF SetHttpCmd, Lines
<1>16. ASSUME NEW f \in FieldLens, NEW v \in ValueLens, AddHttpHeader(f, v) PROVE TextInv'
  BY <1>7, <1>16 DEF AddHttpHeader, Lines
<1> QED BY <1>1, <1>2, <1>3, <1>4, <1>5, <1>6, <1>8, <1>9, <1>10, <1>11, <1>12, <1>13, <1>14,
           <1>15, <1>16, Zenon DEF Next, Continue

LEMMA TextAlways == Spec => []TextInv
<1> QED BY TextInitially, TextStep, BufferAlways, PTL DEF Spec

(* An add that answers success has appended its line and nothing else, one *)
(* that answers no memory whole strings of it, however often the buffer    *)
(* grew in between (client.c:264-302).                                     *)
THEOREM AnswersAreTrue == Spec => []AnswersTell
<1>1. TextInv => AnswersTell
  BY DEF TextInv
<1> QED BY <1>1, TextAlways, PTL

---------------------------------------------------------------------------
(* The buffer implements RequestText: what the mapping makes of a state *)
Said == IF Lost THEN <<>> ELSE IF pc \in {"join", "grow"} THEN call.before ELSE UsedText
Told == IF pc = "done" /\ ~Lost THEN result ELSE "quiet"

(* FlattenSeq means the same to both modules *)
LEMMA SameFlatten == \A s : Request!FlattenSeq(s) = FlattenSeq(s)
<1> QED BY DEF Request!FlattenSeq, FlattenSeq

(* Equality of what is lost, and of what is there *)
LEMMA LostIs ==
    /\ Lost /\ Lost' => Lost' = Lost
    /\ ~Lost /\ ~Lost' => Lost' = Lost
    /\ Lost' = TRUE \/ Lost' = FALSE
    /\ buf' = buf => (buf # "none")' = (buf # "none")
<1> QED BY DEF Lost

(* A step to a lost request, and one that no caller could tell *)
LEMMA Losing ==
    ASSUME Lost', buf' = buf
    PROVE  Request!Next
<1>1. Request!Lose
  BY LostIs, Zenon DEF Request!Lose
<1> QED BY <1>1 DEF Request!Next

LEMMA Quiet ==
    ASSUME ~Lost, ~Lost', buf' = buf, Said' = Said, Told' = Told
    PROVE  UNCHANGED Request!vars
<1> QED BY LostIs, Zenon DEF Request!vars, Said, Told

(* A step between calls that keeps the text in use *)
LEMMA QuietBetween ==
    ASSUME pc = "idle", pc' = "idle", buf' = buf, live' = live, UsedText' = UsedText
    PROVE  [Request!Next]_(Request!vars)
<1>1. CASE Lost'
  BY <1>1, Losing
<1>2. CASE ~Lost'
  <2>1. ~Lost
    BY <1>2 DEF Lost
  <2>2. Said' = Said /\ Told' = Told
    BY <1>2, <2>1 DEF Said, Told
  <2> QED BY <1>2, <2>1, <2>2, Quiet
<1> QED BY <1>1, <1>2

(* A step of a running add before its answer *)
LEMMA QuietWithin ==
    ASSUME pc \in {"join", "grow"}, pc' \in {"join", "grow"}, buf' = buf,
           live \/ ~live', call'.before = call.before
    PROVE  [Request!Next]_(Request!vars)
<1>1. CASE Lost'
  BY <1>1, Losing
<1>2. CASE ~Lost'
  <2>1. ~Lost
    BY <1>2 DEF Lost
  <2>2. Said' = Said /\ Told' = Told
    BY <1>2, <2>1 DEF Said, Told
  <2> QED BY <1>2, <2>1, <2>2, Quiet
<1> QED BY <1>1, <1>2

(* An add gives up and its caller is told so *)
LEMMA PartSaid ==
    ASSUME BufferInv, TextInv, pc = "grow", pc' = "done", result' = "EOMEM", buf' = buf,
           live' => live, Whole' => UsedText' = UsedText
    PROVE  Request!Next
<1>1. CASE Lost'
  BY <1>1, Losing
<1>2. CASE ~Lost'
  <2>1. ~Lost /\ Whole /\ Whole'
    BY <1>2 DEF Lost, Whole
  <2>2. /\ Said = call.before /\ Said' = UsedText' /\ Told = "quiet" /\ Told' = "EOMEM"
    BY <1>2, <2>1 DEF Said, Told
  <2>3. UsedText' = call.before \o FlattenSeq(SubSeq(call.line, 1, Reached))
    BY <2>1 DEF TextInv, Joined
  <2>4. Reached \in 0..Len(call.line) /\ call.line \in Lines
    BY TextCounts DEF TextInv, Strings
  <2>5. Request!AddPart(call.line, Reached)
    BY <1>2, <2>1, <2>2, <2>3, SameFlatten, LostIs, Zenon DEF Request!AddPart, Said, Told
  <2> QED BY <2>1, <2>4, <2>5 DEF Request!Next, Lines
<1> QED BY <1>1, <1>2

(* A line is added *)
LEMMA LineSaid ==
    ASSUME BufferInv, TextInv, AppendDelim
    PROVE  Request!Next
<1>1. /\ live /\ live' /\ buf # "none" /\ buf' = buf /\ pc = "join" /\ pc' = "done"
      /\ result' = "SUCCESS" /\ call' = call
      /\ UsedText' = call.before \o FlattenSeq(call.line) \o CRLF
  BY EndAdds
<1>2. ~Lost /\ ~Lost'
  BY <1>1 DEF Lost
<1>3. Said = call.before /\ Said' = UsedText' /\ Told = "quiet" /\ Told' = "SUCCESS"
  BY <1>1, <1>2 DEF Said, Told
<1>4. call.line \in Lines
  BY <1>1 DEF TextInv
<1>5. Request!AddLine(call.line)
  BY <1>1, <1>2, <1>3, SameFlatten, LostIs, Zenon DEF Request!AddLine, Said, Told
<1> QED BY <1>2, <1>4, <1>5 DEF Request!Next, Lines

(* A buffer is set, or unset *)
LEMMA BufferThere ==
    ASSUME BufferInv, TextInv,
           \/ \E n \in GivenSizes : SetbufGiven(n)
           \/ \E n \in AskSizes : SetbufAlloc(n)
    PROVE  Request!Next
<1>1. /\ pc = "idle" /\ pc' = "idle" /\ buf = "none" /\ buf' # "none" /\ live' = TRUE
      /\ bufsize' = bufc'
  BY DEF SetbufGiven, SetbufAlloc
<1>2. bufsize' \in Nat
  <2>1. \A n \in AskSizes : AllocSize(n) \in Nat
    BY DEF AllocSize
  <2>2. \A n \in GivenSizes : n \in Nat
    OBVIOUS
  <2> QED BY <2>1, <2>2 DEF SetbufGiven, SetbufAlloc
<1>3. UsedText' = <<>> /\ UsedText = <<>>
  <2>1. \A n \in Nat : n - n = 0
    OBVIOUS
  <2>2. Used' = 0
    BY <1>1, <1>2, <2>1, Zenon DEF Used
  <2> QED BY <1>1, <2>2, FlattenNone, TextCounts DEF UsedText
<1>4. ~Lost /\ ~Lost'
  BY <1>1 DEF Lost
<1>5. Said' = Said /\ Told' = Told
  BY <1>1, <1>3, <1>4 DEF Said, Told
<1>6. Request!Begin
  BY <1>1, <1>4, <1>5, LostIs, Zenon DEF Request!Begin, Said, Told
<1> QED BY <1>4, <1>6 DEF Request!Next

LEMMA BufferGone ==
    ASSUME BufferInv, TextInv, Unsetbuf
    PROVE  Request!Next
<1>1. /\ pc = "idle" /\ pc' = "idle" /\ (Owned => live)
      /\ buf' = "none" /\ text' = <<>> /\ bufsize' = 0 /\ bufc' = 0
  BY DEF Unsetbuf, Emptied
<1>2. ~Lost /\ ~Lost'
  <2>1. buf # "none" => live
    BY <1>1 DEF Owned, BufferInv, FlagMeansHeap, GivenLives, Typed, TypeOK
  <2> QED BY <1>1, <2>1 DEF Lost
<1>3. UsedText' = <<>>
  <2>1. Used' = 0
    BY <1>1 DEF Used
  <2> QED BY <1>1, <2>1, FlattenNone DEF UsedText
<1>4. Said' = <<>> /\ Told = "quiet" /\ Told' = "quiet"
  BY <1>1, <1>2, <1>3 DEF Said, Told
<1>5. Request!Drop
  BY <1>1, <1>2, <1>4, LostIs, Zenon DEF Request!Drop, Said, Told
<1> QED BY <1>2, <1>5 DEF Request!Next

(* The answer is given *)
LEMMA AnswerGiven ==
    ASSUME BufferInv, TextInv, Return
    PROVE  Request!Next
<1>1. pc = "done" /\ pc' = "idle" /\ UNCHANGED <<memory, bufc, result>>
  BY DEF Return
<1>2. CASE Lost'
  BY <1>1, <1>2, Losing DEF memory
<1>3. CASE ~Lost'
  <2>1. ~Lost
    BY <1>1, <1>3 DEF Lost, memory
  <2>2. UsedText' = UsedText
    BY <1>1, SameText DEF memory
  <2>3. Told \in {"SUCCESS", "EOMEM"} /\ Told' = "quiet"
    BY <1>1, <2>1 DEF Told, TextInv
  <2>4. Said' = Said
    BY <1>1, <1>3, <2>1, <2>2 DEF Said
  <2>5. Told # "quiet" /\ buf' = buf
    BY <1>1, <2>3 DEF memory
  <2>6. Request!Tell
    BY <1>3, <2>1, <2>3, <2>4, <2>5, LostIs, Zenon DEF Request!Tell, Said, Told
  <2> QED BY <2>1, <2>6 DEF Request!Next
<1> QED BY <1>2, <1>3

LEMMA RequestStep == BufferInv /\ TextInv /\ [Next]_vars => [Request!Next]_(Request!vars)
<1> SUFFICES ASSUME BufferInv, TextInv, [Next]_vars PROVE [Request!Next]_(Request!vars)
  OBVIOUS
<1>b. ASSUME NEW cause, Wild(cause) PROVE Request!Next
  BY <1>b, Losing DEF Wild, memory, Lost
<1>1. CASE UNCHANGED vars
  BY <1>1 DEF vars, Request!vars, Lost, UsedText, Used
<1>2. CASE SetbufTaken
  BY <1>2, QuietBetween, SameText DEF SetbufTaken, memory
<1>3. CASE SetbufFails
  <2>1. pc = "idle" /\ pc' = "idle" /\ buf = "none" /\ UNCHANGED <<buf, live, text, bufc>> /\ bufsize' = 0
    BY <1>3 DEF SetbufFails
  <2>2. bufsize = 0
    BY <2>1 DEF TextInv
  <2> QED BY <2>1, <2>2, QuietBetween, SameText
<1>4. ASSUME NEW m \in Methods, BadMethod(m) PROVE [Request!Next]_(Request!vars)
  BY <1>4, <1>b, QuietBetween, SameText DEF BadMethod, memory
<1>5. CASE FreedTwice \/ PastTable \/ WriteOutside \/ GrowFreed \/ Show
  BY <1>5, <1>b DEF FreedTwice, PastTable, WriteOutside, GrowFreed, Show
<1>6. ASSUME NEW n \in RawLens, RawHttpHeader(n) \/ RawOutside(n) PROVE [Request!Next]_(Request!vars)
  <2>1. CASE RawHttpHeader(n)
    BY <2>1, RawKeeps, QuietBetween
  <2> QED BY <1>6, <1>b, <2>1 DEF RawOutside
<1>7. ASSUME NEW line \in Lines, StartLine(line) PROVE [Request!Next]_(Request!vars)
  <2>1. /\ pc = "idle" /\ pc' = "join" /\ buf' = buf /\ live' = live /\ call'.before = UsedText
    BY <1>7, StartBegins DEF memory
  <2>2. CASE Lost'
    BY <2>1, <2>2, Losing
  <2>3. CASE ~Lost'
    <3>1. ~Lost
      BY <2>1, <2>3 DEF Lost
    <3>2. Said' = Said /\ Told' = Told
      BY <2>1, <2>3, <3>1 DEF Said, Told
    <3> QED BY <2>1, <2>3, <3>1, <3>2, Quiet
  <2> QED BY <2>2, <2>3
<1>8. CASE CopyString
  <2>1. pc = "join" /\ pc' = "join" /\ UNCHANGED <<buf, live>> /\ call'.before = call.before
    BY <1>8, CallFields DEF CopyString, Joining
  <2> QED BY <2>1, QuietWithin
<1>9. CASE StringTooLong \/ DelimTooLong
  BY <1>9, TooLongKeeps, QuietWithin DEF memory
<1>10. CASE GrowNotOwn \/ GrowRefused
  <2>1. pc = "grow" /\ pc' = "done" /\ result' = "EOMEM" /\ UNCHANGED <<memory, bufc>>
    BY <1>10 DEF GrowNotOwn, GrowRefused, Give
  <2> QED BY <2>1, PartSaid, SameText DEF memory
<1>11. CASE GrowBlock
  <2>1. /\ live /\ buf = "heap" /\ buf' = buf /\ pc = "grow" /\ call' = call
        /\ (live' => UsedText' = UsedText)
        /\ \/ pc' = "join"
           \/ pc' = "done" /\ result' = "EOMEM"
    BY <1>11, GrowKeeps
  <2>2. CASE pc' = "join"
    BY <2>1, <2>2, QuietWithin
  <2>3. CASE pc' = "done" /\ result' = "EOMEM"
    BY <2>1, <2>3, PartSaid DEF Whole
  <2> QED BY <2>1, <2>2, <2>3
<1>12. ASSUME NEW m \in Methods, NEW c \in CmdLens, SetHttpCmd(m, c) PROVE [Request!Next]_(Request!vars)
  BY <1>7, <1>12 DEF SetHttpCmd, Lines
<1>13. ASSUME NEW f \in FieldLens, NEW v \in ValueLens, AddHttpHeader(f, v) PROVE [Request!Next]_(Request!vars)
  BY <1>7, <1>13 DEF AddHttpHeader, Lines
<1> QED BY <1>1, <1>2, <1>3, <1>4, <1>5, <1>6, <1>8, <1>9, <1>10, <1>11, <1>12, <1>13,
           LineSaid, BufferThere, BufferGone, AnswerGiven, Zenon DEF Next, Continue

(* The buffer is the text of a request: it grows by whole lines, or by     *)
(* parts of lines whose caller is told so, and no add, growth or raw text  *)
(* changes an earlier line (client.c:209-349).                             *)
THEOREM BufferIsRequest == Spec => ImplementsText
<1>1. Init => Request!Init
  <2> SUFFICES ASSUME Init PROVE Request!Init
    OBVIOUS
  <2>1. buf = "none" /\ text = <<>> /\ bufsize = 0 /\ bufc = 0 /\ pc = "idle"
    BY DEF Init
  <2>2. Used = 0
    BY <2>1 DEF Used
  <2>3. UsedText = <<>> /\ ~Lost
    BY <2>1, <2>2, FlattenNone DEF UsedText, Lost
  <2> QED BY <2>1, <2>3 DEF Request!Init
<1>2. BufferInv /\ TextInv /\ [Next]_vars => [Request!Next]_(Request!vars)
  BY RequestStep
<1> QED BY <1>1, <1>2, BufferAlways, TextAlways, PTL DEF Spec, ImplementsText, Request!Spec

---------------------------------------------------------------------------
(* What a buffer shows: ShowsJoined is inductive, given what BufferInv and *)
(* TextInv say of the place a string is written to.                        *)
Clean(s) == \A k \in 1..Len(s) : s[k] # NUL

LEMMA LinesAreClean ==
    ASSUME NEW line \in Lines, NEW i \in 1..Len(line)
    PROVE  Clean(line[i])
<1>1. \A n \in Nat : \A name \in Names : name # "nul" => Clean(Str(name, n))
  <2> TAKE n \in Nat
  <2> TAKE name \in Names
  <2> HAVE name # "nul"
  <2>1. Len(Str(name, n)) = n
    BY StrIsSeq
  <2> QED BY <2>1 DEF Clean, Str, NUL
<1>2. ASSUME NEW m \in Methods, NEW c \in CmdLens, line = Command(m, c) PROVE Clean(line[i])
  <2>1. m + 1 \in Nat /\ c \in Nat /\ 1 \in Nat /\ ProtocolLen \in Nat
    OBVIOUS
  <2>2. /\ Clean(Str("method", m + 1)) /\ Clean(Str("space", 1))
        /\ Clean(Str("cmd", c)) /\ Clean(Str("protocol", ProtocolLen))
    BY <1>1, <2>1 DEF Names
  <2>3. Len(line) = 5 /\ i \in 1..5
    BY <1>2 DEF Command
  <2> QED BY <1>2, <2>2, <2>3 DEF Command
<1>3. ASSUME NEW f \in FieldLens, NEW v \in ValueLens, line = Header(f, v) PROVE Clean(line[i])
  <2>1. f \in Nat /\ v \in Nat /\ 1 \in Nat
    OBVIOUS
  <2>2. Clean(Str("field", f)) /\ Clean(Str("colon", 1)) /\ Clean(Str("value", v))
    BY <1>1, <2>1 DEF Names
  <2>3. Len(line) = 3 /\ i \in 1..3
    BY <1>3 DEF Header
  <2> QED BY <1>3, <2>2, <2>3 DEF Header
<1> QED BY <1>2, <1>3 DEF Lines

(* Writing a clean string behind the text in use *)
LEMMA PutClean ==
    ASSUME NEW t \in Seq(Byte), NEW at \in Nat, NEW s \in Seq(Byte), at + Len(s) <= Len(t), Clean(s),
           \A k \in 1..at : t[k] # NUL
    PROVE  /\ \A k \in 1..(at + Len(s)) : Put(t, at, s)[k] # NUL
           /\ \A k \in (at + Len(s) + 1)..Len(t) : Put(t, at, s)[k] = t[k]
           /\ Len(Put(t, at, s)) = Len(t)
<1>1. Len(t) \in Nat /\ Len(s) \in Nat
  BY LenProperties
<1> DEFINE new == Put(t, at, s)
<1>2. \A k \in 1..Len(t) : new[k] = IF k > at /\ k <= at + Len(s) THEN s[k - at] ELSE t[k]
  BY DEF Put
<1> HIDE DEF new
<1>3. ASSUME NEW k \in 1..(at + Len(s)) PROVE new[k] # NUL
  <2>1. CASE k <= at
    BY <1>1, <1>2, <2>1
  <2>2. CASE k > at
    <3>1. k - at \in 1..Len(s) /\ k \in 1..Len(t) /\ k <= at + Len(s)
      BY <1>1, <2>2
    <3>2. new[k] = s[k - at]
      BY <1>2, <2>2, <3>1
    <3> QED BY <3>1, <3>2 DEF Clean
  <2> QED BY <2>1, <2>2
<1>4. ASSUME NEW k \in (at + Len(s) + 1)..Len(t) PROVE new[k] = t[k]
  BY <1>1, <1>2
<1> QED BY <1>3, <1>4, PutKeepsLength DEF new

(* The text in use becomes longer by a clean string *)
LEMMA CleanAdded ==
    ASSUME BufferInv, BufferInv', TextInv, ShowsJoined, live, live', buf' = buf, NEW s \in Seq(Byte), Clean(s),
           text' = Put(text, Used, s), Used' = Used + Len(s), Used' <= Len(text')
    PROVE  ShowsJoined'
<1>1. text \in Seq(Byte) /\ Len(text) \in Nat /\ Used \in Nat /\ Len(s) \in Nat
  BY Counts, LenProperties DEF BufferInv, Typed
<1>2. Len(text') = Len(text)
  BY <1>1, PutKeepsLength
<1>3. \A k \in 1..Used : text[k] # NUL
  BY DEF ShowsJoined
<1>4. /\ \A k \in 1..Used' : text'[k] # NUL
      /\ \A k \in (Used' + 1)..Len(text') : text'[k] = text[k]
  <2>1. Used + Len(s) <= Len(text)
    BY <1>2
  <2>2. /\ \A k \in 1..(Used + Len(s)) : Put(text, Used, s)[k] # NUL
        /\ \A k \in (Used + Len(s) + 1)..Len(text) : Put(text, Used, s)[k] = text[k]
    BY ONLY <1>1, <1>3, <2>1, s \in Seq(Byte), Clean(s), PutClean
  <2> QED BY <1>2, <2>2
<1>5. \A k \in (Used' + 1)..Len(text') : k \in (Used + 1)..Len(text)
  BY <1>1, <1>2
<1> QED BY <1>4, <1>5 DEF ShowsJoined

LEMMA ShowStep == BufferInv /\ BufferInv' /\ TextInv /\ ShowsJoined /\ [Next]_vars => ShowsJoined'
<1> SUFFICES ASSUME BufferInv, BufferInv', TextInv, ShowsJoined, [Next]_vars PROVE ShowsJoined'
  OBVIOUS
<1>0. /\ text \in Seq(Byte) /\ Len(text) \in Nat /\ Used \in Nat
      /\ live => Used <= Len(text)
  BY Counts, TextCounts DEF BufferInv, Typed
<1>a. ASSUME UNCHANGED <<memory, bufc>> PROVE ShowsJoined'
  BY <1>a DEF memory, ShowsJoined, Used
<1>b. ASSUME ~live' PROVE ShowsJoined'
  BY <1>b DEF ShowsJoined
<1>c. live' => Used' <= Len(text')
  <2>1. ASSUME live' PROVE Used' <= Len(text')
    <3>1. bufsize' \in Nat /\ bufc' \in Nat /\ bufsize' = Len(text')
      BY <2>1 DEF BufferInv, Typed, TypeOK, SpaceAccounted
    <3> QED BY <3>1 DEF Used
  <2> QED BY <2>1
<1>1. CASE UNCHANGED vars
  BY <1>1, <1>a DEF vars, memory
<1>2. CASE \/ SetbufTaken \/ FreedTwice \/ \E m \in Methods : BadMethod(m)
           \/ \E m \in Methods, c \in CmdLens : SetHttpCmd(m, c)
           \/ \E f \in FieldLens, v \in ValueLens : AddHttpHeader(f, v)
           \/ \E n \in RawLens : RawOutside(n)
           \/ Show \/ StringTooLong \/ DelimTooLong \/ PastTable \/ WriteOutside
           \/ GrowNotOwn \/ GrowRefused \/ GrowFreed \/ Return
  BY <1>2, <1>a DEF SetbufTaken, FreedTwice, BadMethod, SetHttpCmd, AddHttpHeader, StartLine,
                    RawOutside, Show, StringTooLong, DelimTooLong, PastTable, WriteOutside,
                    GrowNotOwn, GrowRefused, GrowFreed, Return, Wild
<1>3. ASSUME NEW n \in GivenSizes, SetbufGiven(n) PROVE ShowsJoined'
  <2>1. text' = [k \in 1..n |-> Junk] /\ bufsize' = n /\ bufc' = n /\ n \in Nat
    BY <1>3 DEF SetbufGiven
  <2>2. Used' = 0
    BY <2>1 DEF Used
  <2>3. Len(text') = n
    BY <2>1, NewBlocks
  <2>4. \A k \in (Used' + 1)..Len(text') : text'[k] = Junk
    BY <2>1, <2>2, <2>3
  <2> QED BY <2>2, <2>4 DEF ShowsJoined, Spare
<1>4. ASSUME NEW asked \in AskSizes, SetbufAlloc(asked) PROVE ShowsJoined'
  <2> DEFINE n == AllocSize(asked)
  <2>1. text' = [k \in 1..n |-> NUL] /\ bufsize' = n /\ bufc' = n /\ n \in Nat
    BY <1>4 DEF SetbufAlloc, AllocSize
  <2> HIDE DEF n
  <2>2. Used' = 0
    BY <2>1 DEF Used
  <2>3. Len(text') = n
    BY <2>1, NewBlocks
  <2>4. \A k \in (Used' + 1)..Len(text') : text'[k] = NUL
    BY <2>1, <2>2, <2>3
  <2> QED BY <2>2, <2>4 DEF ShowsJoined, Spare
<1>5. CASE SetbufFails \/ Unsetbuf
  BY <1>5, <1>b DEF SetbufFails, Unsetbuf, Emptied, BufferInv, NoBuffer
<1>6. CASE CopyString
  <2>1. CASE live
    <3> DEFINE s == call.line[call.at]
    <3>1. /\ live' /\ buf' = buf /\ pc = "join" /\ call.at \in 1..Strings /\ s \in Seq(Byte)
          /\ text' = Put(text, Used, s) /\ Used' = Used + Len(s)
      BY <1>6, <2>1, CopyAdds DEF Whole
    <3>2. Clean(s)
      BY <3>1, LinesAreClean DEF TextInv, Strings
    <3> HIDE DEF s
    <3> QED BY <1>c, <2>1, <3>1, <3>2, CleanAdded
  <2>2. CASE ~live
    BY <1>6, <1>b, <2>2 DEF CopyString
  <2> QED BY <2>1, <2>2
<1>7. CASE AppendDelim
  <2>1. /\ live /\ live' /\ buf' = buf
        /\ text' = Put(text, Used, CRLF) /\ Used' = Used + Len(CRLF)
    BY <1>7, EndAdds
  <2>2. CRLF \in Seq(Byte) /\ Clean(CRLF)
    BY CRLFIsSeq DEF Clean, CRLF, NUL
  <2> QED BY <1>c, <2>1, <2>2, CleanAdded
<1>8. CASE GrowBlock
  <2> SUFFICES ASSUME live' PROVE ShowsJoined'
    BY <1>b
  <2> DEFINE j == [k \in 1..Growth |-> Junk]
  <2>1. live /\ buf = "heap" /\ Used' = Used /\ text' = text \o j
    BY <1>8, GrowKeeps
  <2>2. Growth \in Nat
    OBVIOUS
  <2>3. j \in Seq(Byte) /\ Len(j) = Growth /\ \A k \in 1..Growth : j[k] = Junk
    BY <2>2, NewBlocks
  <2> HIDE DEF j
  <2>4. /\ Len(text') = Len(text) + Growth
        /\ \A k \in 1..(Len(text) + Growth) : text'[k] = IF k <= Len(text) THEN text[k] ELSE j[k - Len(text)]
    BY <1>0, <2>1, <2>3, ConcatProperties
  <2>5. \A k \in 1..Used : text'[k] = text[k]
    BY <1>0, <2>1, <2>2, <2>4
  <2>6. ASSUME NEW k \in (Used + 1)..Len(text') PROVE Spare(text'[k])
    <3>1. CASE k <= Len(text)
      <4>1. k \in (Used + 1)..Len(text) /\ text'[k] = text[k]
        BY <1>0, <2>2, <2>4, <3>1
      <4> QED BY <2>1, <4>1 DEF ShowsJoined
    <3>2. CASE k > Len(text)
      <4>1. k - Len(text) \in 1..Growth /\ text'[k] = j[k - Len(text)]
        BY <1>0, <2>2, <2>4, <3>2
      <4> QED BY <2>3, <4>1 DEF Spare
    <3> QED BY <1>0, <2>4, <3>1, <3>2
  <2> QED BY <2>1, <2>5, <2>6 DEF ShowsJoined
<1>9. ASSUME NEW n \in RawLens, RawHttpHeader(n) PROVE ShowsJoined'
  <2>1. UNCHANGED <<buf, live, bufsize, bufc>>
    BY <1>9 DEF RawHttpHeader
  <2>2. Used' = Used
    BY <2>1 DEF Used
  <2>3. CASE text' = text
    BY <2>1, <2>2, <2>3 DEF ShowsJoined
  <2>4. CASE text' = Put(text, Used, Str("raw", n))
    <3> DEFINE s == Str("raw", n)
    <3>1. n \in Nat /\ Len(s) = n
      BY StrIsSeq DEF Names
    <3>2. \A k \in 1..Len(text) : text'[k] = IF k > Used /\ k <= Used + Len(s) THEN s[k - Used] ELSE text[k]
      BY <2>4 DEF Put
    <3>3. \A k \in 1..n : Spare(s[k])
      BY DEF Str, Spare
    <3> HIDE DEF s
    <3>4. Len(text') = Len(text)
      <4>1. s \in Seq(Byte)
        BY <3>1, StrIsSeq DEF Names, s
      <4> QED BY <1>0, <2>4, <4>1, PutKeepsLength DEF s
    <3>5. live => \A k \in 1..Used : text'[k] = text[k]
      BY <1>0, <3>2
    <3>6. ASSUME live, NEW k \in (Used + 1)..Len(text) PROVE Spare(text'[k])
      <4>1. k > Used /\ k \in 1..Len(text) /\ Spare(text[k])
        BY <1>0, <3>6 DEF ShowsJoined
      <4>2. CASE k <= Used + n
        <5>1. k - Used \in 1..n /\ text'[k] = s[k - Used]
          BY <1>0, <3>1, <3>2, <4>1, <4>2
        <5> QED BY <3>3, <5>1
      <4>3. CASE ~(k <= Used + n)
        BY <3>1, <3>2, <4>1, <4>3
      <4> QED BY <4>2, <4>3
    <3> QED BY <2>1, <2>2, <3>4, <3>5, <3>6 DEF ShowsJoined
  <2> QED BY <1>9, <2>3, <2>4 DEF RawHttpHeader
<1> QED BY <1>1, <1>2, <1>3, <1>4, <1>5, <1>6, <1>7, <1>8, <1>9, Zenon DEF Next, Continue

(* What is shown begins with the lines joined, none cut off by a zero, and *)
(* goes on with bytes of no line, whoever gave the buffer and however      *)
(* often it grew (client.c:243, 264-289, 338, 344).                        *)
THEOREM ShownIsJoined == Spec => []ShowsJoined
<1>1. Init => ShowsJoined
  BY DEF Init, ShowsJoined
<1> QED BY <1>1, ShowStep, BufferAlways, TextAlways, PTL DEF Spec
=============================================================================
