----------------------------- MODULE FormatMask -----------------------------
(***************************************************************************)
(* Reading a format like "#lx" into a mask of bits (tools/v_misc.c         *)
(* 225-287).  Each character has a byte in mapChar: the bit it sets, may it *)
(* be repeated (for the next bit), and which bits of the old mask are kept. *)
(* A mask is the set of the numbers of its bits.                           *)
(*                                                                         *)
(* The loop's expression (283) assigns to c in one operand of | and reads  *)
(* it in the other, in no order; a build reads it before or after.         *)
(***************************************************************************)
EXTENDS Integers, Sequences, FiniteSets

CONSTANT MaxFormat      \* bound on a format's length

ASSUME FormatAssumption == MaxFormat \in Nat

VARIABLES
    mask,       \* the mask read so far, with bits 0..15
    old,        \* cc, the byte of the character before
    format,     \* history: the characters read
    readsMapped \* does the build assign to c before it reads it?

maskVars == <<mask, old, format, readsMapped>>

(* The characters' codes; "other" has no entry in mapChar *)
Code == [h |-> 104, l |-> 108, L |-> 76, q |-> 113, hash |-> 35, i |-> 105, d |-> 100,
         u |-> 117, x |-> 120, o |-> 111, f |-> 102, e |-> 101, c |-> 99, s |-> 115,
         p |-> 112, other |-> 48]

mapChar == [h |-> 48, l |-> 50, L |-> 51, q |-> 51, hash |-> 4, i |-> 69, d |-> 69,
            u |-> 70, x |-> 103, o |-> 104, f |-> 73, e |-> 74, c |-> 11, s |-> 12,
            p |-> 13, other |-> 0]

SHRT == 0
LNG == 2
LLNG == 3
HASH == 4

(* Mutant of clrMask: a length keeps the length before it *)
clrMaskLengths == <<{}, {HASH, SHRT, LNG, LLNG}, {SHRT, LNG, LLNG}, {SHRT, LNG, LLNG, HASH}>>

clrMask == <<{}, {HASH}, {SHRT, LNG, LLNG}, {SHRT, LNG, LLNG, HASH}>>

(* shft1_IfAllowRepeat *)
Repeats(b) == b = old /\ (b \div 16) % 2 = 1

(* Mutant of setNewMask: a repetition is not seen *)
setNewMaskOnce(b) == IF b = 0 THEN {} ELSE {b % 16}

(* A bit above the mask's sixteen is lost *)
setNewMask(b) ==
    IF b = 0 THEN {} ELSE {(b % 16) + (IF Repeats(b) THEN 1 ELSE 0)} \cap 0..15

MaskInit ==
    /\ mask = {} /\ old = 0 /\ format = <<>>
    /\ readsMapped \in BOOLEAN

(* One turn of formatMask's loop *)
ReadChar(c) ==
    /\ Len(format) < MaxFormat
    /\ format' = Append(format, c)
    /\ mask' = (mask \cap clrMask[(mapChar[c] \div 32) + 1])
               \cup setNewMask(IF readsMapped THEN mapChar[c] ELSE Code[c])
    /\ old' = mapChar[c]
    /\ UNCHANGED readsMapped

MaskNext == \E c \in DOMAIN mapChar : ReadChar(c)

MaskSpec == MaskInit /\ [][MaskNext]_maskVars

---------------------------------------------------------------------------
(* What the mask is read as: valInt, and the tests IS_INT to IS_ADDRS *)
valInt == IF LNG \in mask THEN "long" ELSE IF LLNG \in mask THEN "long long"
          ELSE IF SHRT \in mask THEN "short" ELSE "int"
HEX == 7
OCT == 8

(* However a format is put together, and in whichever order the build reads *)
(* c, it has one type and one length: no two of the tests IS_INT to IS_ADDRS *)
(* hold, and the order of valInt's does not matter (v_misc.c:225-234, 283). *)
OneReading ==
    /\ Cardinality(mask \cap 5..13) <= 1
    /\ Cardinality(mask \cap {SHRT, LNG, LLNG}) <= 1

(* The type printf gives these modifiers in front of an integer *)
Meant == { << <<>>, "int" >>, << <<"h">>, "short" >>, << <<"l">>, "long" >>,
           << <<"l", "l">>, "long long" >>, << <<"L">>, "long long" >>, << <<"q">>, "long long" >> }

(* The characters behind the last one that is no part of a format *)
Start == {k \in 0..Len(format) : k = 0 \/ format[k] = "other"}
Recent == SubSeq(format, (CHOOSE k \in Start : \A j \in Start : j <= k) + 1, Len(format))

(* The length, the base and the # of an integer's format are printf's,     *)
(* whatever was read before (v_misc.c:225-228, 256-257, 269-287), if the   *)
(* build assigns to c before it reads it.  No more than those: hh is no    *)
(* length here, as valInt reads an int for it; and the sign is not theirs, *)
(* as i and d set the bit called USIGNED and u the next one (258, 272),    *)
(* while Itoa looks for a minus only where USIGNED is not set (215).       *)
LengthAndBase ==
    readsMapped =>
        \A hash \in {<<>>, <<"hash">>}, m \in Meant, k \in {"i", "d", "u", "x", "o"} :
            Recent = hash \o m[1] \o <<k>> =>
                /\ valInt = m[2] /\ mask \cap 5..8 # {}
                /\ HEX \in mask <=> k = "x"
                /\ OCT \in mask <=> k = "o"
                /\ HASH \in mask <=> hash # <<>> /\ k \in {"x", "o"}
============================================================================
