----------------------------- MODULE SafeArith -----------------------------
(***************************************************************************)
(* The checked arithmetic of tools/include.h 110-146 on unsigned long int, *)
(* with the compiler's own overflow tests (113-115).  Without them and     *)
(* without Windows' the header does not compile: the parentheses of line   *)
(* 123 do not match.                                                       *)
(*                                                                         *)
(* The operations stand inside assert.  Where that is compiled out         *)
(* (NDEBUG) so is the arithmetic, and the functions return an operand.     *)
(***************************************************************************)
EXTENDS Integers

CONSTANT MaxWord      \* ULONG_MAX, the largest value of the type

ASSUME WordAssumption == MaxWord \in Nat /\ MaxWord % 2 = 1

Word == 0..MaxWord
LongMax == MaxWord \div 2
Wrapped(n) == n % (MaxWord + 1)

Abort == -1           \* the assertion fails: there is no result

(* __builtin_add_overflow, __builtin_mul_overflow *)
bAddOverflow(a, b) == a + b > MaxWord
bMulOverflow(a, b) == a * b > MaxWord

bsafeUnsignedMull(a, b) == IF bMulOverflow(a, b) THEN Abort ELSE a * b

(* Mutant of bsafeUnsignedMulAddl: only the product is checked *)
MulAddlProductOnly(a, b, c) ==
    IF bMulOverflow(a, b) THEN Abort ELSE Wrapped(a * b + c)

bsafeUnsignedMulAddl(a, b, c) ==
    IF bMulOverflow(a, b) \/ bAddOverflow(a * b, c) THEN Abort ELSE a * b + c
============================================================================
