----------------------------- MODULE HttpBuffer -----------------------------
(***************************************************************************)
(* The request buffer of a client (driver/client.c 209-349): lines of an   *)
(* HTTP request are joined into a block that the caller gave or that was   *)
(* allocated and grows, and a line that did not fit is resumed after the   *)
(* growth where it stopped.                                                *)
(*                                                                         *)
(* One thread uses a client.  Adding a line takes one step per string it   *)
(* joins and per growth, because realloc may fail, move the block, or do   *)
(* neither.  A byte is a triple <<string, length, position>>.              *)
(***************************************************************************)
EXTENDS Integers, Sequences, SequencesExt

CONSTANTS
    DefSize,       \* WEBDR_DEF_MALLOC_SIZE
    Growth,        \* WEBDR_DEF_MALLOC_GRW
    SizeMax,       \* SIZE_MAX
    AskSizes,      \* sizes passed to webdriverSetbuf without a buffer
    GivenSizes,    \* sizes of buffers callers pass to webdriverSetbuf
    Methods,       \* values passed as method; those above DELETE are no method
    CmdLens, FieldLens, ValueLens, RawLens,   \* lengths of the caller's strings
    ProtocolLen,   \* length of WEDR_HTTP_PROTOCOL
    MayMove        \* may realloc move a block?

ASSUME SizeAssumption ==
    /\ SizeMax \in Nat /\ DefSize \in 1..SizeMax /\ Growth \in 1..SizeMax
    /\ AskSizes \subseteq 0..SizeMax /\ GivenSizes \subseteq 0..SizeMax
ASSUME StringAssumption ==
    /\ Methods \subseteq Nat /\ ProtocolLen \in Nat
    /\ CmdLens \cup FieldLens \cup ValueLens \cup RawLens \subseteq Nat
ASSUME MoveAssumption == MayMove \in BOOLEAN

VARIABLES
    buf,      \* buf__: "none", "given" by the caller, or on the "heap"
    text,     \* the bytes of the block buf__ points to
    live,     \* has the block not been freed?
    bufsize,  \* bufsize__
    bufc,     \* bufc__, the bytes not used yet
    malloc,   \* malloc__
    blocks,   \* history: heap blocks allocated and not freed
    lost,     \* history: those of them whose address was dropped
    pc,       \* where the running call is
    call,     \* what it adds, how far it got, and history of its start
    result    \* what the last call returned

memory == <<buf, text, live, bufsize, malloc, blocks, lost>>
vars == <<buf, text, live, bufsize, bufc, malloc, blocks, lost, pc, call, result>>

Str(name, n) == [k \in 1..n |-> <<name, n, k>>]
NUL == <<"nul", 1, 1>>
Junk == <<"junk", 1, 1>>       \* a byte nobody wrote

(* Mutant of CRLF: the line feed is not written *)
CRLFWithoutLF == <<<<"cr", 1, 1>>>>

CRLF == <<<<"cr", 1, 1>>, <<"lf", 1, 1>>>>

Used == bufsize - bufc                                \* webdriverBufferUsed
UsedText == SubSeq(text, 1, Used)
Put(t, at, s) == [k \in 1..Len(t) |-> IF k > at /\ k <= at + Len(s) THEN s[k - at] ELSE t[k]]
NoLine == [line |-> <<>>, at |-> 1, before |-> <<>>, refused |-> FALSE]

---------------------------------------------------------------------------
Init ==
    /\ buf = "none" /\ text = <<>> /\ live = FALSE
    /\ bufsize = 0 /\ bufc = 0 /\ malloc = FALSE
    /\ blocks = 0 /\ lost = 0
    /\ pc = "idle" /\ call = NoLine
    /\ result = "SUCCESS"

(* webdriverSetbuf *)
SetbufTaken ==
    /\ pc = "idle" /\ buf # "none"
    /\ result' = "EONOTEMPT"
    /\ UNCHANGED <<memory, bufc, pc, call>>

SetbufGiven(n) ==
    /\ pc = "idle" /\ buf = "none"
    /\ buf' = "given" /\ live' = TRUE /\ text' = [k \in 1..n |-> Junk]
    /\ bufsize' = n /\ bufc' = n
    /\ result' = "SUCCESS"
    /\ UNCHANGED <<malloc, blocks, lost, pc, call>>

AllocSize(asked) == IF asked = 0 THEN DefSize ELSE asked

SetbufAlloc(asked) ==
    /\ pc = "idle" /\ buf = "none"
    /\ buf' = "heap" /\ live' = TRUE /\ text' = [k \in 1..AllocSize(asked) |-> NUL]
    /\ bufsize' = AllocSize(asked) /\ bufc' = AllocSize(asked)
    /\ malloc' = TRUE /\ blocks' = blocks + 1
    /\ result' = "SUCCESS"
    /\ UNCHANGED <<lost, pc, call>>

SetbufFails ==
    /\ pc = "idle" /\ buf = "none"
    /\ bufsize' = 0
    /\ result' = "EOMEM"
    /\ UNCHANGED <<buf, text, live, bufc, malloc, blocks, lost, pc, call>>

(* Mutant of Owned: malloc__ is not asked *)
OwnedIfSet == buf # "none"

(* 253: the buffer is the client's own *)
Owned == buf # "none" /\ malloc

(* 256-257 *)
Emptied ==
    /\ buf' = "none" /\ text' = <<>> /\ live' = FALSE
    /\ bufsize' = 0 /\ bufc' = 0 /\ malloc' = FALSE

(* webdriverUnsetbuf, with a buffer or without one; free() of a block that *)
(* was freed is undefined                                                  *)
Unsetbuf ==
    /\ pc = "idle"
    /\ Owned => live
    /\ blocks' = IF Owned THEN blocks - 1 ELSE blocks
    /\ Emptied
    /\ result' = "SUCCESS"
    /\ UNCHANGED <<lost, pc, call>>

(* Undefined behaviour: nothing is said of what follows *)
Wild(cause) ==
    /\ pc' = "wild" /\ result' = cause
    /\ UNCHANGED <<memory, bufc, call>>

FreedTwice ==
    /\ pc = "idle" /\ Owned /\ ~live
    /\ Wild("free of a freed block")

---------------------------------------------------------------------------
(* webdriverSetHttpCmd and webdriverAddHttpHeader: the line's strings *)
Command(m, c) == <<Str("method", m + 1), Str("space", 1), Str("cmd", c),
                   Str("space", 1), Str("protocol", ProtocolLen)>>
Header(f, v) == <<Str("field", f), Str("colon", 1), Str("value", v)>>
Supported(m) == m \in 0..2

StartLine(line) ==
    /\ pc = "idle"
    /\ pc' = "join"
    /\ call' = [line |-> line, at |-> 1, before |-> UsedText, refused |-> FALSE]
    /\ UNCHANGED <<memory, bufc, result>>

SetHttpCmd(m, c) == Supported(m) /\ StartLine(Command(m, c))
AddHttpHeader(f, v) == StartLine(Header(f, v))

(* The name of the method is read from its table before the range check *)
BadMethod(m) ==
    /\ pc = "idle" /\ ~Supported(m)
    /\ \/ /\ result' = "EOMETHOD"
          /\ UNCHANGED <<memory, bufc, pc, call>>
       \/ Wild("read past the method table")

---------------------------------------------------------------------------
(* strroutine_Join.  *size is written once the loop ends; nobody reads it  *)
(* before.                                                                 *)
Joining == pc = "join"
Strings == Len(call.line)
StringLen == Len(call.line[call.at])

(* Mutant of FitsString: a string may need one byte more than there is *)
FitsOneMore == StringLen <= bufc + 1
FitsString == StringLen < bufc

(* What is written lies in a block still allocated *)
InBlock(n) == n = 0 \/ (live /\ Used + n <= Len(text))

CopyString ==
    /\ Joining /\ call.at <= Strings /\ FitsString /\ InBlock(StringLen)
    /\ text' = Put(text, Used, call.line[call.at])
    /\ bufc' = bufc - StringLen
    /\ call' = [call EXCEPT !.at = @ + 1]
    /\ UNCHANGED <<buf, live, bufsize, malloc, blocks, lost, pc, result>>

(* Mutants of Resume: the string that did not fit is skipped, or the line  *)
(* is started again                                                        *)
ResumeNext == call.at + 1
ResumeFirst == 1

(* 280-281: at the string that did not fit *)
Resume == call.at

StringTooLong ==
    /\ Joining /\ call.at <= Strings /\ ~FitsString
    /\ pc' = "grow" /\ call' = [call EXCEPT !.at = Resume]
    /\ UNCHANGED <<memory, bufc, result>>

(* 283-288: the strings are all there, end the line *)
AppendDelim ==
    /\ Joining /\ call.at = Strings + 1 /\ bufc >= 2 /\ InBlock(2)
    /\ text' = Put(text, Used, CRLF)
    /\ bufc' = bufc - 2
    /\ pc' = "done" /\ result' = "SUCCESS"
    /\ UNCHANGED <<buf, live, bufsize, malloc, blocks, lost, call>>

(* 284-285: resume behind the NULL that ends the table *)
DelimTooLong ==
    /\ Joining /\ call.at = Strings + 1 /\ bufc < 2
    /\ pc' = "grow" /\ call' = [call EXCEPT !.at = @ + 1]
    /\ UNCHANGED <<memory, bufc, result>>

PastTable ==
    /\ Joining /\ call.at > Strings + 1
    /\ Wild("read past the line's table")

WriteOutside ==
    /\ Joining
    /\ \/ call.at <= Strings /\ FitsString /\ ~InBlock(StringLen)
       \/ call.at = Strings + 1 /\ bufc >= 2 /\ ~InBlock(2)
    /\ Wild(IF live THEN "write past the block" ELSE "write to a freed block")

---------------------------------------------------------------------------
(* The call is about to answer r *)
Give(r) == pc' = "done" /\ result' = r

(* Mutant of GrowNotOwn: the caller tries again *)
GrowNotOwnRetries ==
    /\ pc = "grow" /\ ~malloc
    /\ pc' = "join"
    /\ UNCHANGED <<memory, bufc, call, result>>

(* webdriverGrowbuf.  A buffer that is not the client's own cannot grow.   *)
(* (Its case buf__ == NULL needs malloc__ set without a buffer, which      *)
(* FlagMeansHeap excludes.)                                                *)
GrowNotOwn ==
    /\ pc = "grow" /\ ~malloc
    /\ Give("EOMEM")
    /\ UNCHANGED <<memory, bufc, call>>

(* Mutant of Addable: the sum is not checked *)
AddableUnchecked(n) == TRUE

(* The new size would pass SIZE_MAX, or realloc has no memory *)
Addable(n) == n < SizeMax - Growth

GrowRefused ==
    /\ pc = "grow" /\ malloc
    /\ call' = [call EXCEPT !.refused = TRUE]
    /\ Give("EOMEM")
    /\ UNCHANGED <<memory, bufc>>

(* Mutant of NewSize: bufsize__ is not updated *)
NewSizeForgotten == bufsize

NewSize == bufsize + Growth

(* realloc grants the size, in place or elsewhere, in which case the block *)
(* buf__ points to is freed and the one in its place lost, as its address  *)
(* is dropped (15-25, 243).  The function then ends without a return       *)
(* (231-249), so that its caller, which compares the value with            *)
(* WEBDR_EOMEM, goes on or gives up.                                       *)
GrowBlock ==
    /\ pc = "grow" /\ malloc /\ Addable(bufsize) /\ live
    /\ \/ /\ text' = text \o [k \in 1..Growth |-> Junk]
          /\ UNCHANGED <<live, lost>>
       \/ /\ MayMove
          /\ live' = FALSE /\ lost' = lost + 1
          /\ UNCHANGED text
    /\ bufsize' = NewSize /\ bufc' = bufc + Growth
    /\ \/ pc' = "join" /\ UNCHANGED result
       \/ Give("EOMEM")
    /\ UNCHANGED <<buf, malloc, blocks, call>>

(* A second growth of a block that moved: realloc of a freed block *)
GrowFreed ==
    /\ pc = "grow" /\ malloc /\ Addable(bufsize) /\ ~live
    /\ Wild("realloc of a freed block")

Return ==
    /\ pc = "done"
    /\ pc' = "idle" /\ call' = NoLine
    /\ UNCHANGED <<memory, bufc, result>>

---------------------------------------------------------------------------
(* webdriverRawHttpHeader: the bytes are not counted as used *)
RawHttpHeader(n) ==
    /\ pc = "idle"
    /\ \/ /\ n = 0
          /\ result' = "SUCCESS" /\ UNCHANGED text
       \/ /\ bufc < n
          /\ result' = "INCOMPLETE" /\ UNCHANGED text
       \/ /\ n > 0 /\ n <= bufc /\ InBlock(n)
          /\ text' = Put(text, Used, Str("raw", n))
          /\ result' = "SUCCESS"
    /\ UNCHANGED <<buf, live, bufsize, bufc, malloc, blocks, lost, pc, call>>

RawOutside(n) ==
    /\ pc = "idle" /\ n > 0 /\ n <= bufc /\ ~InBlock(n)
    /\ Wild(IF live THEN "write past the block" ELSE "write to a freed block")

(* webdriverShowHttpHeaders: puts() reads up to a NUL *)
Show ==
    /\ pc = "idle" /\ buf # "none"
    /\ ~live \/ \A k \in 1..Len(text) : text[k] # NUL
    /\ Wild("read past the block")

---------------------------------------------------------------------------
(* What the running call does next *)
Continue ==
    \/ CopyString \/ StringTooLong \/ AppendDelim \/ DelimTooLong
    \/ PastTable \/ WriteOutside
    \/ GrowNotOwn \/ GrowRefused \/ GrowBlock \/ GrowFreed
    \/ Return

Next ==
    \/ SetbufTaken
    \/ \E n \in GivenSizes : SetbufGiven(n)
    \/ \E n \in AskSizes : SetbufAlloc(n)
    \/ SetbufFails
    \/ Unsetbuf \/ FreedTwice
    \/ \E m \in Methods : BadMethod(m) \/ \E c \in CmdLens : SetHttpCmd(m, c)
    \/ \E f \in FieldLens, v \in ValueLens : AddHttpHeader(f, v)
    \/ \E n \in RawLens : RawHttpHeader(n) \/ RawOutside(n)
    \/ Show
    \/ Continue

Spec == Init /\ [][Next]_vars

(* A call that has started runs on: it waits for nobody *)
FairSpec == Spec /\ WF_vars(Continue)

---------------------------------------------------------------------------
TypeOK ==
    /\ buf \in {"none", "given", "heap"}
    /\ live \in BOOLEAN /\ malloc \in BOOLEAN
    /\ bufsize \in 0..SizeMax /\ bufc \in 0..SizeMax
    /\ blocks \in Int /\ lost \in Int
    /\ pc \in {"idle", "join", "grow", "done", "wild"}
    /\ call.at \in 1..(Strings + 2) /\ call.refused \in BOOLEAN

(* The client's account of its block is the block's size, in particular    *)
(* after growing, and never more is free than there is                     *)
(* (client.c:209-249, 264-289).                                            *)
SpaceAccounted == bufc <= bufsize /\ (live => bufsize = Len(text))

(* No line and no raw text is written past the end of the block, however   *)
(* often it grew (client.c:264-289, 330-342).                              *)
NoWriteOutside == result # "write past the block"

(* The heap blocks not freed are the one a client can free and the one     *)
(* that a moving growth lost: none is freed that the caller gave, none is  *)
(* left by setting, growing, failing and unsetting, and the only loss      *)
(* leaves buf__ at a freed block, so that it cannot happen twice.          *)
(* malloc__, by which a buffer is grown and freed, tells the two kinds of  *)
(* buffer apart throughout (client.c:221, 235, 243, 253-257).              *)
FlagMeansHeap == malloc <=> buf = "heap"
CanFree == IF buf = "heap" /\ live THEN 1 ELSE 0
HeapAccounted ==
    /\ FlagMeansHeap
    /\ blocks = CanFree + lost
    /\ lost = IF buf = "heap" /\ ~live THEN 1 ELSE 0

(* An add that answers success appended exactly its line, however often it *)
(* was interrupted by a growth and resumed (client.c:291-302).             *)
SuccessIsWholeLine ==
    pc = "done" /\ result = "SUCCESS" =>
        UsedText = call.before \o FlattenSeq(call.line) \o CRLF

(* An add that answers no memory left whole strings of its line, in order, *)
(* and no end of line (client.c:273-283, 301).                             *)
FailureIsPrefix ==
    pc = "done" /\ result = "EOMEM" /\ live =>
        \E k \in 0..Strings :
            UsedText = call.before \o FlattenSeq(SubSeq(call.line, 1, k))

(* What an add answers is what it did *)
AnswersTell == SuccessIsWholeLine /\ FailureIsPrefix

(* A buffer the caller gave is never left, re-sized or read past the       *)
(* line's table, whatever is added: only puts and the method table remain. *)
GivenBufferSafe ==
    buf = "given" /\ pc = "wild" =>
        result \in {"read past the block", "read past the method table"}

(* What puts shows begins with the lines joined, none of them cut off: no  *)
(* zero is among the bytes in use.  What stands behind them, and is shown  *)
(* too unless it is a zero, is raw text or what nobody wrote (the zeros of *)
(* calloc, what a caller's buffer came with or growth added), never a part *)
(* of a line (client.c:7, 243, 264-289, 338, 344).                         *)
Spare(b) == b \in {NUL, Junk} \/ b[1] = "raw"
ShowsJoined ==
    live =>
        /\ \A k \in 1..Used : text[k] # NUL
        /\ \A k \in (Used + 1)..Len(text) : Spare(text[k])

(* The buffer is the text of a request that grows by whole lines, or by    *)
(* parts of lines whose caller is told so, until it is unset or lost: with *)
(* the block that realloc moved or in other undefined behaviour.  No add,  *)
(* growth or raw text changes a byte of an earlier line (client.c:209-349).*)
Lost == pc = "wild" \/ (buf # "none" /\ ~live)
Request == INSTANCE RequestText WITH
    Lines <- {Command(m, c) : m \in {m \in Methods : Supported(m)}, c \in CmdLens}
             \cup {Header(f, v) : f \in FieldLens, v \in ValueLens},
    End <- CRLF,
    there <- buf # "none",
    said <- IF Lost THEN <<>> ELSE IF pc \in {"join", "grow"} THEN call.before ELSE UsedText,
    told <- IF pc = "done" /\ ~Lost THEN result ELSE "quiet",
    lost <- Lost
ImplementsText == Request!Spec

(* Every add answers, if it does not run into undefined behaviour first:   *)
(* the loop of joins and growths ends (client.c:293-299).                  *)
AddAnswers == (pc = "join") ~> (pc \in {"done", "wild"})
============================================================================
