---------------------------- MODULE IntegerText ----------------------------
(***************************************************************************)
(* Writing an integer as text: MvpgInclude_Itoa of tools/include.c 14-73,  *)
(* decimal or hexadecimal, and uitoa of driver/client.c 66-81.  The digits *)
(* are stored from the lowest up and then turned round in place by two     *)
(* pointers that run towards each other.                                   *)
(*                                                                         *)
(* Integers are of MaxWord + 1 values (uintmax_t, uint64_t); their         *)
(* negation wraps.  The division by multiplication for ARM (20) is left    *)
(* out: __ARM_CPU__ is defined nowhere.                                    *)
(***************************************************************************)
EXTENDS SafeArith, Sequences

CONSTANT Numbers      \* what callers pass

ASSUME NumbersAssumption == Numbers \subseteq Word

VARIABLES
    job,       \* the call: its function, its number, and is that below zero?
    rest,      \* n, what is left of the number
    bytes,     \* what was written to the caller's buffer
    low, high, \* rotbuf's b and e, as positions in the buffer
    textState, \* "idle", "digits", "rotate" or "done"
    answer     \* what the function returns, uitoa's len

textVars == <<job, rest, bytes, low, high, textState, answer>>

Functions == {"strDec", "strHex", "uitoa"}
Digit(d) == <<"0", "1", "2", "3", "4", "5", "6", "7",
              "8", "9", "a", "b", "c", "d", "e", "f">>[d + 1]
Garbled == "?"        \* some other character, never NUL: 0x30 is or-ed in
NUL == "NUL"

Base == IF job.fn = "strHex" THEN 16 ELSE 10
Prefix(j) == (IF j.lt THEN <<"-">> ELSE <<>>) \o (IF j.fn = "strHex" THEN <<"0", "x">> ELSE <<>>)
First == Len(Prefix(job)) + 1       \* where the digits begin

TextInit ==
    /\ job = [fn |-> "uitoa", n |-> 0, lt |-> FALSE]
    /\ rest = 0 /\ bytes = <<>> /\ low = 0 /\ high = 0
    /\ textState = "idle" /\ answer = 0

(* 66-72, 50-52, and for uitoa 68-71 of client.c *)
Call(j) ==
    /\ textState = "idle" /\ (j.fn = "uitoa" => ~j.lt)
    /\ textState' = "digits"
    /\ job' = j
    /\ rest' = IF j.lt THEN Wrapped(-j.n) ELSE j.n
    /\ bytes' = Prefix(j)
    /\ UNCHANGED <<low, high, answer>>

(* uitoa divides n and subtracts from it in one expression, in no order: *)
(* 5 may be written as 0, and 53 by characters that are no digits        *)
Chars == {Digit(rest % Base)} \cup (IF job.fn = "uitoa" THEN {Garbled} ELSE {})

StoreDigit ==
    /\ textState = "digits" /\ rest > 0
    /\ \E c \in Chars : bytes' = Append(bytes, c)
    /\ rest' = rest \div Base
    /\ UNCHANGED <<job, low, high, textState, answer>>

(* The digits and the sign; strHex does not count its prefix *)
Counted == Len(bytes) + 1 - First + (IF job.lt THEN 1 ELSE 0)

LastDigit ==
    /\ textState = "digits" /\ rest = 0
    /\ low' = First /\ high' = Len(bytes)
    /\ answer' = Counted
    /\ textState' = "rotate"
    /\ UNCHANGED <<job, rest, bytes>>

(* uitoa's pointer to the end is one further, so that it also swaps the    *)
(* middle with itself                                                      *)
Apart == IF job.fn = "uitoa" THEN low <= high ELSE low < high

(* Mutants of Rotate: one of the bytes is lost; only one pointer moves, to *)
(* and fro                                                                 *)
RotateOverwrites ==
    /\ textState = "rotate" /\ Apart
    /\ bytes' = [bytes EXCEPT ![low] = bytes[high]]
    /\ low' = low + 1 /\ high' = high - 1
    /\ UNCHANGED <<job, rest, textState, answer>>
RotateStays ==
    /\ textState = "rotate" /\ Apart
    /\ bytes' = [bytes EXCEPT ![low] = bytes[high], ![high] = bytes[low]]
    /\ UNCHANGED <<job, rest, low, high, textState, answer>>

Rotate ==
    /\ textState = "rotate" /\ Apart
    /\ bytes' = [bytes EXCEPT ![low] = bytes[high], ![high] = bytes[low]]
    /\ low' = low + 1 /\ high' = high - 1
    /\ UNCHANGED <<job, rest, textState, answer>>

(* The NUL goes behind the last digit.  (uitoa writes it before it turns   *)
(* the digits round, which do not touch it.)                               *)
Terminate ==
    /\ textState = "rotate" /\ ~Apart
    /\ bytes' = Append(bytes, NUL)
    /\ textState' = "done"
    /\ UNCHANGED <<job, rest, low, high, answer>>

TextReturn ==
    /\ textState = "done"
    /\ job' = [fn |-> "uitoa", n |-> 0, lt |-> FALSE]
    /\ rest' = 0 /\ bytes' = <<>> /\ low' = 0 /\ high' = 0
    /\ textState' = "idle" /\ answer' = 0

TextContinue == StoreDigit \/ LastDigit \/ Rotate \/ Terminate \/ TextReturn

TextNext ==
    \/ \E j \in [fn : Functions, n : Numbers, lt : BOOLEAN] : Call(j)
    \/ TextContinue

TextSpec == TextInit /\ [][TextNext]_textVars

(* A call that has started runs on *)
TextFairness == WF_textVars(TextContinue)

---------------------------------------------------------------------------
DigitsRead == SubSeq(bytes, First, Len(bytes) - 1)
ValueOf(c) == CHOOSE d \in 0..15 : Digit(d) = c
Value(s) ==
    LET v[k \in 0..Len(s)] == IF k = 0 THEN 0 ELSE v[k - 1] * Base + ValueOf(s[k])
    IN v[Len(s)]

(* Read back, the text is the number, behind a sign its magnitude, with no *)
(* zero in front (include.c:23-73).  Of 0 it is no digit at all.           *)
TextIsNumber ==
    textState = "done" /\ job.fn # "uitoa" =>
        /\ SubSeq(bytes, 1, First - 1) = Prefix(job)
        /\ Value(DigitsRead) = IF job.lt THEN Wrapped(-job.n) ELSE job.n
        /\ DigitsRead # <<>> => Head(DigitsRead) # "0"

(* The number returned is the text's length up to the NUL, whatever uitoa  *)
(* made of the digits; for hexadecimals it leaves "0x" out                 *)
(* (include.c:44, 62, 72, client.c:75).                                    *)
AnswerIsLength ==
    textState = "done" =>
        /\ Len(bytes) = answer + (IF job.fn = "strHex" THEN 2 ELSE 0) + 1
        /\ \A k \in 1..Len(bytes) : bytes[k] = NUL <=> k = Len(bytes)

(* A conversion's text and its length are right *)
TextIsRight == TextIsNumber /\ AnswerIsLength

(* Every conversion ends: the number runs out and the pointers meet or     *)
(* cross, be the digits many or few, odd or even (include.c:26, client.c:77).*)
ConversionEnds == (textState # "idle") ~> (textState = "done")
============================================================================
