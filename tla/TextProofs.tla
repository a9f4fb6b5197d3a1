----------------------------- MODULE TextProofs -----------------------------
(***************************************************************************)
(* What holds of the conversions of tools/: an integer's text is its       *)
(* number, of whatever width the integers are, and a format has one        *)
(* reading, however long it is.                                            *)
(***************************************************************************)
EXTENDS IntegerText, FormatMask, SequenceTheorems, FiniteSetTheorems,
        WellFoundedInduction, TLAPS

(* A set with 0 that has with every number the next has all numbers *)
LEMMA EveryNumber ==
    ASSUME NEW s, 0 \in s, \A n \in Nat : n \in s => n + 1 \in s
    PROVE  \A n \in Nat : n \in s
<1> SUFFICES ASSUME Nat \ s # {} PROVE FALSE
  OBVIOUS
<1>1. PICK i \in Nat \ s : \A j \in Nat \ s : ~(<<j, i>> \in OpToRel(<, Nat))
  BY NatLessThanWellFounded, WFMin
<1>2. i \in Nat /\ i # 0
  OBVIOUS
<1>3. i - 1 \in Nat /\ i - 1 < i /\ (i - 1) + 1 = i
  BY ONLY <1>2
<1>4. <<i - 1, i>> \in OpToRel(<, Nat)
  BY <1>2, <1>3, Zenon DEF OpToRel
<1>5. i - 1 \in s
  BY <1>1, <1>3, <1>4, Zenon
<1>6. i \in s
  BY <1>3, <1>5, Zenon
<1> QED BY <1>1, <1>6

---------------------------------------------------------------------------
(* The characters a conversion writes in front of its NUL *)
Written == {Digit(d) : d \in 0..15} \cup {"-", "x", Garbled}

(* No two digits are written alike, and none as the NUL (include.c:33, 57) *)
LEMMA DigitFacts ==
    ASSUME NEW d \in 0..15
    PROVE  /\ Digit(d) \in Written /\ ValueOf(Digit(d)) = d
           /\ Digit(d) = "0" => d = 0
<1>1. \A a, b \in 0..15 : Digit(a) = Digit(b) => a = b
  BY DEF Digit
<1>2. Digit(0) = "0"
  BY DEF Digit
<1>3. ValueOf(Digit(d)) = d
  BY <1>1 DEF ValueOf
<1> QED BY <1>1, <1>2, <1>3 DEF Written

LEMMA NoneIsNUL == NUL \notin Written
<1>1. ASSUME NEW d \in 0..15 PROVE Digit(d) # NUL
  BY DEF Digit, NUL
<1> QED BY <1>1 DEF Written, Garbled, NUL

LEMMA BaseFacts ==
    ASSUME NEW b \in {10, 16}, NEW n \in Nat
    PROVE  /\ n \div b \in Nat /\ n % b \in 0..(b - 1) /\ n % b \in 0..15
           /\ n = (n \div b) * b + (n % b)
           /\ n > 0 /\ n \div b = 0 => n % b > 0
<1>1. CASE b = 10
  BY <1>1
<1>2. CASE b = 16
  BY <1>2
<1> QED BY <1>1, <1>2

(* q holds what is left of the number m before each of n divisions by b, *)
(* and after the last                                                    *)
Chain(q, m, b, n) ==
    /\ q \in [0..n -> Nat] /\ q[0] = m
    /\ \A i \in 0..(n - 1) : q[i] > 0 /\ q[i + 1] = q[i] \div b

(* The text s has from f on the digits that q leaves, the lowest first     *)
(* from lo to hi and the highest first outside                             *)
Shown(s, q, b, f, lo, hi) ==
    \A p \in f..Len(s) :
        s[p] = Digit(q[IF lo <= p /\ p <= hi THEN p - f ELSE Len(s) - p] % b)

(* With its digits from f on the text s tells the number m down to what    *)
(* is left, r                                                              *)
Tells(s, m, r, b, f, lo, hi) ==
    \E q : /\ Chain(q, m, b, Len(s) + 1 - f)
           /\ q[Len(s) + 1 - f] = r
           /\ Shown(s, q, b, f, lo, hi)

(* One more digit (include.c:32-34, 56-58) *)
LEMMA OneMoreDigit ==
    ASSUME NEW s \in Seq(Written), NEW m \in Nat, NEW r \in Nat, r > 0,
           NEW b \in {10, 16}, NEW f \in Nat \ {0}, f <= Len(s) + 1,
           Tells(s, m, r, b, f, f, Len(s))
    PROVE  LET t == Append(s, Digit(r % b))
           IN Tells(t, m, r \div b, b, f, f, Len(t))
<1> DEFINE t == Append(s, Digit(r % b))
           n == Len(s) + 1 - f
<1>1. /\ Len(s) \in Nat /\ Len(t) = Len(s) + 1
      /\ \A p \in 1..Len(s) : t[p] = s[p]
      /\ t[Len(s) + 1] = Digit(r % b)
  BY LenProperties
<1>2. n \in Nat /\ Len(t) + 1 - f = n + 1
  BY <1>1
<1>3. PICK q : Chain(q, m, b, n) /\ q[n] = r /\ Shown(s, q, b, f, f, Len(s))
  BY DEF Tells
<1> DEFINE g == [i \in 0..(n + 1) |-> IF i <= n THEN q[i] ELSE r \div b]
<1>4. r \div b \in Nat
  BY BaseFacts
<1>5. g \in [0..(n + 1) -> Nat] /\ \A i \in 0..n : g[i] = q[i]
  <2> HIDE DEF n
  <2> QED BY <1>2, <1>3, <1>4 DEF Chain
<1>6. g[n + 1] = r \div b
  <2> HIDE DEF n
  <2> QED BY <1>2
<1> HIDE DEF g, n, t
<1>7. Chain(g, m, b, n + 1)
  <2>1. ASSUME NEW i \in 0..n PROVE g[i] > 0 /\ g[i + 1] = g[i] \div b
    <3>1. CASE i = n
      BY <1>2, <1>3, <1>5, <1>6, <3>1
    <3>2. CASE i # n
      <4>1. i \in 0..(n - 1) /\ i + 1 \in 0..n
        BY <1>2, <3>2
      <4> QED BY <1>3, <1>5, <4>1 DEF Chain
    <3> QED BY <3>1, <3>2
  <2>2. g[0] = m
    BY <1>2, <1>3, <1>5 DEF Chain
  <2>3. (n + 1) - 1 = n
    BY <1>2
  <2> QED BY <1>5, <2>1, <2>2, <2>3 DEF Chain
<1>8. Shown(t, g, b, f, f, Len(t))
  <2> SUFFICES ASSUME NEW p \in f..Len(t) PROVE t[p] = Digit(g[p - f] % b)
    BY DEF Shown
  <2>1. CASE p = Len(t)
    <3>1. p - f = n /\ n \in 0..n
      BY <1>1, <1>2, <2>1 DEF n
    <3>2. g[n] = r
      BY <1>3, <1>5, <3>1
    <3> QED BY <1>1, <2>1, <3>1, <3>2
  <2>2. CASE p # Len(t)
    <3>1. p \in f..Len(s) /\ p \in 1..Len(s) /\ p - f \in 0..n
      BY <1>1, <2>2 DEF n
    <3>2. s[p] = Digit(q[p - f] % b)
      BY <1>3, <3>1 DEF Shown
    <3> QED BY <1>1, <1>5, <3>1, <3>2
  <2> QED BY <2>1, <2>2
<1> QED BY <1>2, <1>6, <1>7, <1>8 DEF Tells, t

(* Two digits change places (include.c:19-21) *)
LEMMA TwoTurned ==
    ASSUME NEW s \in Seq(Written), NEW m, NEW r, NEW b, NEW f \in Nat \ {0},
           NEW lo \in Int, NEW hi \in Int, f <= lo, lo < hi, lo + hi = f + Len(s),
           Tells(s, m, r, b, f, lo, hi)
    PROVE  LET t == [s EXCEPT ![lo] = s[hi], ![hi] = s[lo]]
           IN Tells(t, m, r, b, f, lo + 1, hi - 1)
<1> DEFINE t == [s EXCEPT ![lo] = s[hi], ![hi] = s[lo]]
<1>1. Len(s) \in Nat /\ DOMAIN s = 1..Len(s)
  BY LenProperties
<1>2. lo \in 1..Len(s) /\ hi \in 1..Len(s)
  BY <1>1
<1>3. DOMAIN t = 1..Len(s)
  BY <1>1
<1>4. Len(t) = Len(s)
  <2>1. t \in Seq(Written)
    BY <1>2
  <2> QED BY <1>1, <1>3, <2>1, LenProperties
<1>5. \A p \in 1..Len(s) : t[p] = IF p = hi THEN s[lo] ELSE IF p = lo THEN s[hi] ELSE s[p]
  BY <1>1, <1>2
<1>6. PICK q : /\ Chain(q, m, b, Len(s) + 1 - f) /\ q[Len(s) + 1 - f] = r
               /\ Shown(s, q, b, f, lo, hi)
  BY DEF Tells
<1> HIDE DEF t
<1>7. Shown(t, q, b, f, lo + 1, hi - 1)
  <2> SUFFICES ASSUME NEW p \in f..Len(s)
               PROVE  t[p] = Digit(q[IF lo + 1 <= p /\ p <= hi - 1
                                     THEN p - f ELSE Len(s) - p] % b)
    BY <1>4 DEF Shown
  <2>1. p \in 1..Len(s)
    OBVIOUS
  <2>2. CASE p = lo
    <3>1. /\ s[hi] = Digit(q[hi - f] % b) /\ t[p] = s[hi]
      BY <1>1, <1>2, <1>5, <1>6, <2>2 DEF Shown
    <3>2. hi - f = Len(s) - p /\ ~(lo + 1 <= p)
      BY <1>1, <2>2
    <3> QED BY <3>1, <3>2
  <2>3. CASE p = hi
    <3>1. /\ s[lo] = Digit(q[lo - f] % b) /\ t[p] = s[lo]
      BY <1>1, <1>2, <1>5, <1>6, <2>3 DEF Shown
    <3>2. lo - f = Len(s) - p /\ ~(p <= hi - 1)
      BY <1>1, <2>3
    <3> QED BY <3>1, <3>2
  <2>4. CASE p # lo /\ p # hi
    <3>1. t[p] = s[p]
      BY <1>5, <2>1, <2>4
    <3>2. s[p] = Digit(q[IF lo <= p /\ p <= hi THEN p - f ELSE Len(s) - p] % b)
      BY <1>6 DEF Shown
    <3>3. (lo <= p /\ p <= hi) <=> (lo + 1 <= p /\ p <= hi - 1)
      BY <2>4
    <3> QED BY <3>1, <3>2, <3>3
  <2> QED BY <2>2, <2>3, <2>4
<1> QED BY <1>4, <1>6, <1>7 DEF Tells, t

(* The middle, where the pointers meet, is where it belongs *)
LEMMA AllTurned ==
    ASSUME NEW s \in Seq(Written), NEW m, NEW r, NEW b, NEW f \in Nat \ {0},
           NEW lo \in Int, NEW hi \in Int, hi <= lo, lo + hi = f + Len(s),
           Tells(s, m, r, b, f, lo, hi)
    PROVE  Tells(s, m, r, b, f, 1, 0)
<1>1. Len(s) \in Nat
  BY LenProperties
<1>2. PICK q : /\ Chain(q, m, b, Len(s) + 1 - f) /\ q[Len(s) + 1 - f] = r
               /\ Shown(s, q, b, f, lo, hi)
  BY DEF Tells
<1>3. ASSUME NEW p \in f..Len(s) PROVE s[p] = Digit(q[Len(s) - p] % b)
  <2>1. s[p] = Digit(q[IF lo <= p /\ p <= hi THEN p - f ELSE Len(s) - p] % b)
    BY <1>2 DEF Shown
  <2>2. lo <= p /\ p <= hi => p - f = Len(s) - p
    BY <1>1
  <2> QED BY <2>1, <2>2
<1>4. Shown(s, q, b, f, 1, 0)
  BY <1>1, <1>3 DEF Shown
<1> QED BY <1>2, <1>4 DEF Tells

(* The digits are read back from the highest down *)
Reads(v, d) == v = [k \in 0..Len(d) |-> IF k = 0 THEN 0 ELSE v[k - 1] * Base + ValueOf(d[k])]

LEMMA ReadBack ==
    ASSUME NEW s \in Seq(Written), NEW m \in Nat, NEW f \in Nat \ {0}, f <= Len(s) + 1,
           Base \in {10, 16}, Tells(s, m, 0, Base, f, 1, 0)
    PROVE  LET d == SubSeq(s, f, Len(s))
           IN Value(d) = m /\ (d # <<>> => Head(d) # "0")
<1> DEFINE d == SubSeq(s, f, Len(s))
           n == Len(s) + 1 - f
<1>1. Len(s) \in Nat /\ n \in Nat
  BY LenProperties
<1>2. /\ d \in Seq(Written) /\ Len(d) = n
      /\ \A k \in 1..n : d[k] = s[f + k - 1]
  <2>1. \A i \in f..Len(s) : s[i] \in Written
    BY <1>1, ElementOfSeq
  <2> QED BY <1>1, <2>1, SubSeqProperties
<1>3. PICK q : Chain(q, m, Base, n) /\ q[n] = 0 /\ Shown(s, q, Base, f, 1, 0)
  BY DEF Tells
<1>4. ASSUME NEW k \in 1..n
      PROVE  /\ n - k \in 0..(n - 1) /\ q[n - k] \in Nat /\ q[n - k] > 0
             /\ q[n - (k - 1)] = q[n - k] \div Base
             /\ q[n - k] = q[n - (k - 1)] * Base + ValueOf(d[k])
             /\ d[k] = Digit(q[n - k] % Base) /\ q[n - k] % Base \in 0..15
  <2>1. /\ n - k \in 0..(n - 1) /\ n - k \in 0..n /\ (n - k) + 1 = n - (k - 1)
        /\ f + k - 1 \in f..Len(s) /\ Len(s) - (f + k - 1) = n - k
    BY <1>1
  <2>2. d[k] = Digit(q[n - k] % Base)
    <3>1. s[f + k - 1] = Digit(q[Len(s) - (f + k - 1)] % Base)
      BY <1>1, <1>3, <2>1 DEF Shown
    <3> QED BY <1>2, <2>1, <3>1
  <2> HIDE DEF n, d
  <2>3. q[n - k] \in Nat /\ q[n - k] > 0 /\ q[n - (k - 1)] = q[n - k] \div Base
    BY <1>3, <2>1 DEF Chain
  <2>4. /\ q[n - k] % Base \in 0..15
        /\ q[n - k] = (q[n - k] \div Base) * Base + (q[n - k] % Base)
    BY <2>3, BaseFacts
  <2>5. ValueOf(d[k]) = q[n - k] % Base
    BY <2>2, <2>4, DigitFacts
  <2> QED BY <2>1, <2>2, <2>3, <2>4, <2>5
<1>5. q[0] = m /\ q \in [0..n -> Nat]
  BY <1>3 DEF Chain
<1> HIDE DEF n, d
<1> DEFINE w == [k \in 0..n |-> q[n - k]]
<1>6. Reads(w, d)
  <2>1. ASSUME NEW k \in 0..n
        PROVE  w[k] = IF k = 0 THEN 0 ELSE w[k - 1] * Base + ValueOf(d[k])
    <3>1. CASE k = 0
      BY <1>1, <1>3, <3>1
    <3>2. CASE k # 0
      <4>1. k \in 1..n /\ k - 1 \in 0..n
        BY <1>1, <3>2
      <4>2. w[k] = q[n - k] /\ w[k - 1] = q[n - (k - 1)]
        BY <4>1
      <4>3. q[n - k] = q[n - (k - 1)] * Base + ValueOf(d[k])
        BY <1>4, <4>1
      <4> HIDE DEF w
      <4> QED BY <3>2, <4>2, <4>3
    <3> QED BY <3>1, <3>2
  <2>2. w = [k \in 0..n |-> w[k]]
    OBVIOUS
  <2> HIDE DEF w
  <2> QED BY <1>2, <2>1, <2>2 DEF Reads
<1> DEFINE v == CHOOSE u : Reads(u, d)
<1>7. Reads(v, d)
  <2> HIDE DEF w
  <2> QED BY <1>6
<1>8. Value(d) = v[Len(d)]
  BY DEF Value, Reads
<1>9. \A k \in 0..n : w[k] = q[n - k]
  OBVIOUS
<1> HIDE DEF v, w
<1>10. v[n] = w[n]
  <2> DEFINE same == {k \in Nat : k \in 0..n => v[k] = w[k]}
  <2>1. 0 \in same
    BY <1>1, <1>2, <1>6, <1>7 DEF Reads
  <2>2. ASSUME NEW k \in Nat, k \in same PROVE k + 1 \in same
    <3> SUFFICES ASSUME k + 1 \in 0..n PROVE v[k + 1] = w[k + 1]
      OBVIOUS
    <3>1. k \in 0..n /\ k + 1 # 0 /\ (k + 1) - 1 = k
      BY <1>1
    <3>2. v[k + 1] = v[k] * Base + ValueOf(d[k + 1])
      BY <1>2, <1>7, <3>1 DEF Reads
    <3>3. w[k + 1] = w[k] * Base + ValueOf(d[k + 1])
      BY <1>2, <1>6, <3>1 DEF Reads
    <3> QED BY <2>2, <3>1, <3>2, <3>3
  <2> HIDE DEF same
  <2>3. \A k \in Nat : k \in same
    BY <2>1, <2>2, EveryNumber
  <2> QED BY <1>1, <2>3 DEF same
<1>11. Value(d) = m
  <2>1. n \in 0..n /\ n - n = 0
    BY <1>1
  <2>2. w[n] = q[0]
    BY <1>9, <2>1
  <2> QED BY <1>2, <1>5, <1>8, <1>10, <2>2
<1>12. d # <<>> => Head(d) # "0"
  <2> SUFFICES ASSUME d # <<>> PROVE Head(d) # "0"
    OBVIOUS
  <2>1. n # 0 /\ Head(d) = d[1]
    BY <1>2
  <2>2. 1 \in 1..n
    BY <1>1, <2>1
  <2>3. q[n - 1] \in Nat /\ q[n - 1] > 0 /\ q[n - 1] \div Base = 0
    <3>1. n - (1 - 1) = n
      BY <1>1
    <3>2. q[n - 1] \in Nat /\ q[n - 1] > 0 /\ q[n - (1 - 1)] = q[n - 1] \div Base
      BY <1>4, <2>2, Zenon
    <3> QED BY <1>3, <3>1, <3>2
  <2>4. q[n - 1] % Base > 0
    BY <2>3, BaseFacts
  <2>5. d[1] = Digit(q[n - 1] % Base) /\ q[n - 1] % Base \in 0..15
    BY <1>4, <2>2
  <2> DEFINE x == q[n - 1] % Base
  <2> HIDE DEF x
  <2>6. Digit(x) = "0" => x = 0
    BY <2>5, DigitFacts DEF x
  <2>7. x > 0 /\ x \in 0..15 /\ d[1] = Digit(x)
    BY <2>4, <2>5 DEF x
  <2> QED BY <2>1, <2>6, <2>7
<1> QED BY <1>11, <1>12 DEF d

---------------------------------------------------------------------------
(* The magnitude is what a conversion writes (include.c:25, 51) *)
Magnitude == IF job.lt THEN Wrapped(-job.n) ELSE job.n
SignsCounted == IF job.lt THEN 1 ELSE 0

Prefixed(s) == \A p \in 1..(First - 1) : s[p] = Prefix(job)[p]

(* What the bytes are while digits are stored, while they are turned round, *)
(* and when s is the text in front of the NUL                              *)
Storing ==
    /\ bytes \in Seq(Written) /\ First <= Len(bytes) + 1
    /\ job.fn # "uitoa" =>
          /\ Prefixed(bytes)
          /\ Tells(bytes, Magnitude, rest, Base, First, First, Len(bytes))
Turning ==
    /\ bytes \in Seq(Written) /\ First <= Len(bytes) + 1
    /\ low \in Int /\ high \in Int /\ First <= low /\ low + high = First + Len(bytes)
    /\ answer = Len(bytes) + 1 - First + SignsCounted
    /\ job.fn # "uitoa" =>
          /\ Prefixed(bytes)
          /\ Tells(bytes, Magnitude, 0, Base, First, low, high)
Ended(s) ==
    /\ bytes = Append(s, NUL) /\ First <= Len(s) + 1
    /\ answer = Len(s) + 1 - First + SignsCounted
    /\ job.fn # "uitoa" =>
          /\ Prefixed(s)
          /\ Tells(s, Magnitude, 0, Base, First, 1, 0)

TextInv ==
    /\ job \in [fn : Functions, n : Word, lt : BOOLEAN]
    /\ job.fn = "uitoa" => ~(job.lt)
    /\ rest \in Nat
    /\ textState \in {"idle", "digits", "rotate", "done"}
    /\ textState = "digits" => Storing
    /\ textState = "rotate" => Turning
    /\ textState = "done" => \E s \in Seq(Written) : Ended(s)

(* The sign and "0x" (include.c:50-52, 67) *)
LEMMA PrefixFacts ==
    ASSUME NEW j, j.fn \in Functions, j.lt \in BOOLEAN
    PROVE  /\ Prefix(j) \in Seq(Written)
           /\ Len(Prefix(j)) = (IF j.lt THEN 1 ELSE 0) + (IF j.fn = "strHex" THEN 2 ELSE 0)
<1>1. Digit(0) = "0" /\ 0 \in 0..15
  BY DEF Digit
<1>2. "-" \in Written /\ "0" \in Written /\ "x" \in Written
  BY <1>1 DEF Written
<1>3. CASE j.lt /\ j.fn = "strHex"
  <2>1. Prefix(j) = <<"-">> \o <<"0", "x">>
    BY <1>3 DEF Prefix
  <2> QED BY <1>2, <1>3, <2>1
<1>4. CASE j.lt /\ j.fn # "strHex"
  <2>1. Prefix(j) = <<"-">> \o <<>>
    BY <1>4 DEF Prefix
  <2> QED BY <1>2, <1>4, <2>1
<1>5. CASE ~(j.lt) /\ j.fn = "strHex"
  <2>1. Prefix(j) = <<>> \o <<"0", "x">>
    BY <1>5 DEF Prefix
  <2> QED BY <1>2, <1>5, <2>1
<1>6. CASE ~(j.lt) /\ j.fn # "strHex"
  <2>1. Prefix(j) = <<>> \o <<>>
    BY <1>6 DEF Prefix
  <2> QED BY <1>2, <1>6, <2>1
<1> QED BY <1>3, <1>4, <1>5, <1>6

LEMMA WrappedNat == \A n \in Int : Wrapped(n) \in Nat
<1> DEFINE w == MaxWord + 1
<1>1. w \in Nat \ {0}
  BY WordAssumption
<1> HIDE DEF w
<1>2. \A n \in Int : n % w \in Nat
  BY <1>1
<1> QED BY <1>2 DEF w, Wrapped

LEMMA CallFacts ==
    ASSUME TextInv
    PROVE  /\ job.fn \in Functions /\ job.lt \in BOOLEAN /\ job.n \in Nat
           /\ First \in Nat \ {0} /\ Base \in {10, 16} /\ Magnitude \in Nat
           /\ SignsCounted \in {0, 1}
           /\ First = SignsCounted + (IF job.fn = "strHex" THEN 2 ELSE 0) + 1
<1>1. job.fn \in Functions /\ job.lt \in BOOLEAN /\ job.n \in Word
  BY DEF TextInv
<1>2. job.n \in Nat
  BY <1>1, WordAssumption DEF Word
<1>3. First = SignsCounted + (IF job.fn = "strHex" THEN 2 ELSE 0) + 1
  BY <1>1, PrefixFacts DEF First, SignsCounted
<1>4. SignsCounted \in {0, 1} /\ Base \in {10, 16}
  BY DEF SignsCounted, Base
<1>5. Magnitude \in Nat
  <2>1. -job.n \in Int
    BY <1>2
  <2> QED BY <1>2, <2>1, WrappedNat DEF Magnitude
<1> QED BY <1>1, <1>2, <1>3, <1>4, <1>5

(* Nothing about the call changes while it runs *)
LEMMA SameCall ==
    ASSUME UNCHANGED job
    PROVE  /\ First' = First /\ Base' = Base /\ Magnitude' = Magnitude
           /\ SignsCounted' = SignsCounted
           /\ Prefix(job)' = Prefix(job)
<1>1. First' = First
  BY DEF First, Prefix
<1>2. Prefix(job)' = Prefix(job)
  BY DEF Prefix
<1>3. Base' = Base
  BY DEF Base
<1>4. Magnitude' = Magnitude
  BY DEF Magnitude, Wrapped
<1>5. SignsCounted' = SignsCounted
  BY DEF SignsCounted
<1> QED BY <1>1, <1>2, <1>3, <1>4, <1>5

(* Before the first digit nothing of the number is told *)
LEMMA NoDigitYet ==
    ASSUME NEW s \in Seq(Written), NEW m \in Nat, NEW b
    PROVE  Tells(s, m, m, b, Len(s) + 1, Len(s) + 1, Len(s))
<1> DEFINE f == Len(s) + 1
           q == [i \in 0..0 |-> m]
<1>1. Len(s) \in Nat /\ Len(s) + 1 - f = 0
  BY LenProperties
<1>2. Chain(q, m, b, 0) /\ q[0] = m
  BY DEF Chain
<1>3. Shown(s, q, b, f, f, Len(s))
  <2>1. f..Len(s) = {}
    BY <1>1
  <2> HIDE DEF f, q
  <2> QED BY <2>1 DEF Shown
<1> HIDE DEF q
<1> QED BY <1>1, <1>2, <1>3 DEF Tells

LEMMA CallInv ==
    ASSUME TextInv, NEW j \in [fn : Functions, n : Numbers, lt : BOOLEAN], Call(j)
    PROVE  TextInv'
<1>1. /\ textState' = "digits" /\ job' = j /\ bytes' = Prefix(j)
      /\ rest' = IF j.lt THEN Wrapped(-j.n) ELSE j.n
  BY DEF Call
<1>2. j \in [fn : Functions, n : Word, lt : BOOLEAN] /\ j.n \in Nat
  <2>1. j.n \in Word
    BY NumbersAssumption
  <2>2. j.n \in Nat
    BY ONLY <2>1, WordAssumption DEF Word
  <2> QED BY <2>1, <2>2
<1>3. j.fn = "uitoa" => ~(j.lt)
  BY DEF Call
<1>4. rest' \in Nat
  <2>1. -j.n \in Int
    BY <1>2
  <2> QED BY <1>1, <1>2, <2>1, WrappedNat
<1>5. bytes' \in Seq(Written) /\ Len(bytes') \in Nat
  <2>1. j.fn \in Functions /\ j.lt \in BOOLEAN
    BY <1>2
  <2>2. Prefix(j) \in Seq(Written)
    BY <2>1, PrefixFacts
  <2> QED BY <1>1, <2>2, LenProperties
<1>6. First' = Len(bytes') + 1 /\ Magnitude' = rest' /\ Prefix(job)' = bytes'
  <2>1. Prefix(job)' = Prefix(j)
    BY <1>1 DEF Prefix
  <2>2. First' = Len(Prefix(j)) + 1
    BY <2>1 DEF First
  <2>3. Magnitude' = rest'
    BY <1>1 DEF Magnitude, Wrapped
  <2> QED BY <1>1, <2>1, <2>2, <2>3
<1>7. Tells(bytes', Magnitude', rest', Base', First', First', Len(bytes'))
  BY <1>4, <1>5, <1>6, NoDigitYet
<1>8. Storing'
  <2>1. Prefixed(bytes)'
    BY <1>6 DEF Prefixed
  <2>2. First' <= Len(bytes') + 1
    BY <1>5, <1>6
  <2>3. Tells(bytes, Magnitude, rest, Base, First, First, Len(bytes))'
    BY <1>7 DEF Tells, Chain, Shown, Digit
  <2> QED BY <1>5, <2>1, <2>2, <2>3 DEF Storing
<1> QED BY <1>1, <1>2, <1>3, <1>4, <1>8 DEF TextInv

LEMMA StoreDigitInv == ASSUME TextInv, StoreDigit PROVE TextInv'
<1>1. /\ textState = "digits" /\ textState' = "digits" /\ rest > 0
      /\ rest' = rest \div Base /\ UNCHANGED job
  BY DEF StoreDigit
<1>2. PICK c \in Chars : bytes' = Append(bytes, c)
  BY DEF StoreDigit
<1>3. /\ First \in Nat \ {0} /\ Base \in {10, 16} /\ Magnitude \in Nat
      /\ First' = First /\ Base' = Base /\ Magnitude' = Magnitude
      /\ Prefix(job)' = Prefix(job)
  BY <1>1, CallFacts, SameCall
<1>4. Storing /\ rest \in Nat
  BY <1>1 DEF TextInv
<1>5. rest' \in Nat /\ rest % Base \in 0..15
  BY <1>1, <1>3, <1>4, BaseFacts
<1>6. c \in Written /\ (job.fn # "uitoa" => c = Digit(rest % Base))
  <2> DEFINE x == rest % Base
  <2> HIDE DEF x
  <2>1. Digit(x) \in Written
    BY <1>5, DigitFacts DEF x
  <2>2. c = Digit(x) \/ (job.fn = "uitoa" /\ c = Garbled)
    BY DEF Chars, x
  <2> QED BY <2>1, <2>2 DEF Written, x
<1>7. bytes \in Seq(Written) /\ Len(bytes) \in Nat /\ First <= Len(bytes) + 1
  BY <1>4, LenProperties DEF Storing
<1>8. /\ bytes' \in Seq(Written) /\ Len(bytes') = Len(bytes) + 1
      /\ \A p \in 1..Len(bytes) : bytes'[p] = bytes[p]
  BY <1>2, <1>6, <1>7
<1>9. ASSUME job.fn # "uitoa"
      PROVE  /\ Prefixed(bytes)'
             /\ Tells(bytes, Magnitude, rest, Base, First, First, Len(bytes))'
  <2>1. Prefixed(bytes)'
    <3>1. ASSUME NEW p \in 1..(First - 1) PROVE bytes'[p] = Prefix(job)[p]
      <4>1. p \in 1..Len(bytes)
        BY <1>3, <1>7
      <4> QED BY <1>4, <1>8, <1>9, <4>1 DEF Storing, Prefixed
    <3> QED BY <1>3, <3>1 DEF Prefixed
  <2>2. Tells(bytes', Magnitude, rest', Base, First, First, Len(bytes'))
    <3>1. /\ bytes \in Seq(Written) /\ Magnitude \in Nat /\ rest \in Nat /\ rest > 0
          /\ Base \in {10, 16} /\ First \in Nat \ {0} /\ First <= Len(bytes) + 1
          /\ Tells(bytes, Magnitude, rest, Base, First, First, Len(bytes))
      BY <1>1, <1>3, <1>4, <1>7, <1>9 DEF Storing
    <3>2. LET t == Append(bytes, Digit(rest % Base))
          IN Tells(t, Magnitude, rest \div Base, Base, First, First, Len(t))
      BY ONLY <3>1, OneMoreDigit
    <3>3. bytes' = Append(bytes, Digit(rest % Base))
      BY <1>2, <1>6, <1>9
    <3> QED BY <1>1, <3>2, <3>3
  <2>3. Tells(bytes, Magnitude, rest, Base, First, First, Len(bytes))'
    BY <1>3, <2>2 DEF Tells, Chain, Shown, Digit
  <2> QED BY <2>1, <2>3
<1>10. Storing'
  <2>1. First' <= Len(bytes') + 1
    BY <1>3, <1>7, <1>8
  <2> QED BY <1>1, <1>8, <1>9, <2>1 DEF Storing
<1> QED BY <1>1, <1>5, <1>10 DEF TextInv

LEMMA LastDigitInv == ASSUME TextInv, LastDigit PROVE TextInv'
<1>1. /\ textState = "digits" /\ textState' = "rotate" /\ rest = 0
      /\ low' = First /\ high' = Len(bytes) /\ answer' = Counted
      /\ UNCHANGED <<job, rest, bytes>>
  BY DEF LastDigit
<1>2. /\ First \in Nat \ {0} /\ First' = First /\ Base' = Base /\ Magnitude' = Magnitude
      /\ SignsCounted' = SignsCounted /\ Prefix(job)' = Prefix(job)
  BY <1>1, CallFacts, SameCall
<1>3. Storing
  BY <1>1 DEF TextInv
<1>4. bytes \in Seq(Written) /\ Len(bytes) \in Nat /\ First <= Len(bytes) + 1
  BY <1>3, LenProperties DEF Storing
<1>5. answer' = Len(bytes) + 1 - First + SignsCounted
  BY <1>1 DEF Counted, SignsCounted
<1>6. ASSUME job.fn # "uitoa"
      PROVE  Prefixed(bytes)' /\ Tells(bytes, Magnitude, 0, Base, First, low, high)'
  <2>1. Prefixed(bytes) /\ Tells(bytes, Magnitude, rest, Base, First, First, Len(bytes))
    BY <1>3, <1>6 DEF Storing
  <2>2. Prefixed(bytes)'
    BY <1>1, <1>2, <2>1 DEF Prefixed
  <2>3. Tells(bytes, Magnitude, 0, Base, First, low', high')
    BY <1>1, <2>1
  <2>4. Tells(bytes, Magnitude, 0, Base, First, low, high)'
    BY <1>1, <1>2, <2>3 DEF Tells, Chain, Shown, Digit
  <2> QED BY <2>2, <2>4
<1>7. Turning'
  <2>1. /\ bytes' \in Seq(Written) /\ First' <= Len(bytes') + 1
        /\ low' \in Int /\ high' \in Int /\ First' <= low'
        /\ low' + high' = First' + Len(bytes')
        /\ answer' = Len(bytes') + 1 - First' + SignsCounted'
    BY <1>1, <1>2, <1>4, <1>5
  <2> QED BY <1>1, <1>6, <2>1 DEF Turning
<1> QED BY <1>1, <1>7 DEF TextInv

(* Two bytes that change places in front of the NUL stay characters *)
LEMMA Swapped ==
    ASSUME NEW s \in Seq(Written), NEW lo \in 1..Len(s), NEW hi \in 1..Len(s)
    PROVE  LET t == [s EXCEPT ![lo] = s[hi], ![hi] = s[lo]]
           IN /\ t \in Seq(Written) /\ Len(t) = Len(s)
              /\ \A p \in 1..Len(s) : p # lo /\ p # hi => t[p] = s[p]
<1> DEFINE t == [s EXCEPT ![lo] = s[hi], ![hi] = s[lo]]
<1>1. Len(s) \in Nat /\ DOMAIN s = 1..Len(s)
  BY LenProperties
<1>2. t \in Seq(Written) /\ DOMAIN t = 1..Len(s)
  BY <1>1
<1>3. Len(t) = Len(s)
  BY <1>1, <1>2, LenProperties
<1>4. \A p \in 1..Len(s) : p # lo /\ p # hi => t[p] = s[p]
  BY <1>1
<1> QED BY <1>2, <1>3, <1>4

LEMMA RotateInv == ASSUME TextInv, Rotate PROVE TextInv'
<1>1. /\ textState = "rotate" /\ textState' = "rotate"
      /\ low <= high /\ (job.fn # "uitoa" => low < high)
      /\ bytes' = [bytes EXCEPT ![low] = bytes[high], ![high] = bytes[low]]
      /\ low' = low + 1 /\ high' = high - 1
      /\ UNCHANGED <<job, rest, answer>>
  <2>1. Turning
    BY DEF TextInv, Rotate
  <2>2. Apart => low <= high /\ (job.fn # "uitoa" => low < high)
    BY <2>1 DEF Apart, Turning
  <2> QED BY <2>2 DEF Rotate
<1>2. /\ First \in Nat \ {0} /\ First' = First /\ Base' = Base /\ Magnitude' = Magnitude
      /\ SignsCounted' = SignsCounted /\ Prefix(job)' = Prefix(job)
  BY <1>1, CallFacts, SameCall
<1>3. Turning
  BY <1>1 DEF TextInv
<1>4. /\ bytes \in Seq(Written) /\ Len(bytes) \in Nat /\ First <= Len(bytes) + 1
      /\ low \in Int /\ high \in Int /\ First <= low /\ low + high = First + Len(bytes)
  BY <1>3, LenProperties DEF Turning
<1>5. low \in 1..Len(bytes) /\ high \in 1..Len(bytes)
  BY <1>1, <1>2, <1>4
<1>6. /\ bytes' \in Seq(Written) /\ Len(bytes') = Len(bytes)
      /\ \A p \in 1..Len(bytes) : p # low /\ p # high => bytes'[p] = bytes[p]
  BY <1>1, <1>4, <1>5, Swapped
<1>7. ASSUME job.fn # "uitoa"
      PROVE  Prefixed(bytes)' /\ Tells(bytes, Magnitude, 0, Base, First, low, high)'
  <2>1. Prefixed(bytes) /\ Tells(bytes, Magnitude, 0, Base, First, low, high)
    BY <1>3, <1>7 DEF Turning
  <2>2. Prefixed(bytes)'
    <3>1. ASSUME NEW p \in 1..(First - 1) PROVE bytes'[p] = Prefix(job)[p]
      <4>1. p \in 1..Len(bytes) /\ p # low /\ p # high
        BY <1>1, <1>2, <1>4
      <4> QED BY <1>6, <2>1, <4>1 DEF Prefixed
    <3> QED BY <1>2, <3>1 DEF Prefixed
  <2>3. Tells(bytes', Magnitude, 0, Base, First, low + 1, high - 1)
    <3>1. /\ First \in Nat \ {0} /\ First <= low /\ low < high
          /\ bytes \in Seq(Written) /\ low \in Int /\ high \in Int
          /\ low + high = First + Len(bytes)
          /\ Tells(bytes, Magnitude, 0, Base, First, low, high)
      BY <1>1, <1>2, <1>4, <1>7, <2>1
    <3>2. LET t == [bytes EXCEPT ![low] = bytes[high], ![high] = bytes[low]]
          IN Tells(t, Magnitude, 0, Base, First, low + 1, high - 1)
      BY ONLY <3>1, TwoTurned
    <3> QED BY <1>1, <3>2
  <2>4. Tells(bytes', Magnitude, 0, Base, First, low', high')
    BY <1>1, <2>3
  <2>5. Tells(bytes, Magnitude, 0, Base, First, low, high)'
    BY <1>2, <2>4 DEF Tells, Chain, Shown, Digit
  <2> QED BY <2>2, <2>5
<1>8. Turning'
  <2>1. /\ First' <= Len(bytes') + 1
        /\ low' \in Int /\ high' \in Int /\ First' <= low'
        /\ low' + high' = First' + Len(bytes')
    BY <1>1, <1>2, <1>4, <1>6
  <2>2. answer' = Len(bytes') + 1 - First' + SignsCounted'
    BY <1>1, <1>2, <1>3, <1>6 DEF Turning
  <2> QED BY <1>1, <1>6, <1>7, <2>1, <2>2 DEF Turning
<1> QED BY <1>1, <1>8 DEF TextInv

LEMMA TerminateInv == ASSUME TextInv, Terminate PROVE TextInv'
<1>1. /\ textState = "rotate" /\ textState' = "done" /\ bytes' = Append(bytes, NUL)
      /\ UNCHANGED <<job, rest, answer>>
  BY DEF Terminate
<1>2. /\ First \in Nat \ {0} /\ First' = First /\ Base' = Base /\ Magnitude' = Magnitude
      /\ SignsCounted' = SignsCounted /\ Prefix(job)' = Prefix(job)
  BY <1>1, CallFacts, SameCall
<1>3. Turning
  BY <1>1 DEF TextInv
<1>4. /\ bytes \in Seq(Written) /\ First <= Len(bytes) + 1
      /\ low \in Int /\ high \in Int /\ low + high = First + Len(bytes)
      /\ answer = Len(bytes) + 1 - First + SignsCounted
  BY <1>3 DEF Turning
<1>5. ASSUME job.fn # "uitoa"
      PROVE  /\ \A p \in 1..(First' - 1) : bytes[p] = Prefix(job)'[p]
             /\ Tells(bytes, Magnitude', 0, Base', First', 1, 0)
  <2>1. Prefixed(bytes) /\ Tells(bytes, Magnitude, 0, Base, First, low, high)
    BY <1>3, <1>5 DEF Turning
  <2>2. high <= low
    BY <1>4, <1>5 DEF Terminate, Apart
  <2>3. Tells(bytes, Magnitude, 0, Base, First, 1, 0)
    <3>1. /\ bytes \in Seq(Written) /\ First \in Nat \ {0}
          /\ low \in Int /\ high \in Int /\ high <= low /\ low + high = First + Len(bytes)
          /\ Tells(bytes, Magnitude, 0, Base, First, low, high)
      BY <1>2, <1>4, <2>1, <2>2
    <3> QED BY ONLY <3>1, AllTurned
  <2> QED BY <1>2, <2>1, <2>3 DEF Prefixed
<1>6. \E s \in Seq(Written) : Ended(s)'
  <2>1. /\ bytes' = Append(bytes, NUL) /\ First' <= Len(bytes) + 1
        /\ answer' = Len(bytes) + 1 - First' + SignsCounted'
        /\ job'.fn # "uitoa" =>
              /\ \A p \in 1..(First' - 1) : bytes[p] = Prefix(job)'[p]
              /\ Tells(bytes, Magnitude', 0, Base', First', 1, 0)
    BY <1>1, <1>2, <1>4, <1>5
  <2>2. \E s \in Seq(Written) :
           /\ bytes' = Append(s, NUL) /\ First' <= Len(s) + 1
           /\ answer' = Len(s) + 1 - First' + SignsCounted'
           /\ job'.fn # "uitoa" =>
                 /\ \A p \in 1..(First' - 1) : s[p] = Prefix(job)'[p]
                 /\ Tells(s, Magnitude', 0, Base', First', 1, 0)
    BY <1>4, <2>1, Zenon
  <2> QED BY <2>2 DEF Ended, Prefixed, Tells, Chain, Shown, Digit
<1> QED BY <1>1, <1>6 DEF TextInv

LEMMA TextInitInv == TextInit => TextInv
<1>1. 0 \in Word
  BY WordAssumption DEF Word
<1> QED BY <1>1 DEF TextInit, TextInv, Functions

LEMMA TextNextInv == TextInv /\ [TextNext]_textVars => TextInv'
<1> SUFFICES ASSUME TextInv, [TextNext]_textVars PROVE TextInv'
  OBVIOUS
<1>1. CASE UNCHANGED textVars
  <2>1. /\ UNCHANGED <<job, rest, bytes, low, high, textState, answer>>
        /\ First' = First /\ Base' = Base /\ Magnitude' = Magnitude
        /\ SignsCounted' = SignsCounted /\ Prefix(job)' = Prefix(job)
    BY <1>1, SameCall DEF textVars
  <2>2. Storing' <=> Storing
    BY <2>1 DEF Storing, Prefixed, Tells, Chain, Shown, Digit
  <2>3. Turning' <=> Turning
    BY <2>1 DEF Turning, Prefixed, Tells, Chain, Shown, Digit
  <2>4. \A s : Ended(s)' <=> Ended(s)
    BY <2>1 DEF Ended, Prefixed, Tells, Chain, Shown, Digit
  <2> QED BY <2>1, <2>2, <2>3, <2>4 DEF TextInv
<1>2. ASSUME NEW j \in [fn : Functions, n : Numbers, lt : BOOLEAN], Call(j)
      PROVE  TextInv'
  BY <1>2, CallInv
<1>3. CASE StoreDigit \/ LastDigit \/ Rotate \/ Terminate
  BY <1>3, StoreDigitInv, LastDigitInv, RotateInv, TerminateInv
<1>4. CASE TextReturn
  <2>1. 0 \in Word
    BY WordAssumption DEF Word
  <2> QED BY <1>4, <2>1 DEF TextReturn, TextInv, Functions
<1> QED BY <1>1, <1>2, <1>3, <1>4 DEF TextNext, TextContinue

LEMMA InvIsRight == TextInv => TextIsRight
<1> SUFFICES ASSUME TextInv, textState = "done" PROVE TextIsRight
  BY DEF TextIsRight, TextIsNumber, AnswerIsLength
<1>1. PICK s \in Seq(Written) : Ended(s)
  BY DEF TextInv
<1>2. /\ job.fn \in Functions /\ First \in Nat \ {0} /\ Base \in {10, 16}
      /\ Magnitude \in Nat /\ SignsCounted \in {0, 1}
      /\ First = SignsCounted + (IF job.fn = "strHex" THEN 2 ELSE 0) + 1
  BY CallFacts
<1>3. /\ bytes = Append(s, NUL) /\ Len(s) \in Nat /\ First <= Len(s) + 1
      /\ answer = Len(s) + 1 - First + SignsCounted
  BY <1>1, LenProperties DEF Ended
<1>4. /\ Len(bytes) = Len(s) + 1 /\ bytes[Len(s) + 1] = NUL
      /\ \A p \in 1..Len(s) : bytes[p] = s[p] /\ s[p] \in Written
  BY <1>3, ElementOfSeq
<1>5. AnswerIsLength
  <2>1. Len(bytes) = answer + (IF job.fn = "strHex" THEN 2 ELSE 0) + 1
    BY <1>2, <1>3, <1>4
  <2>2. ASSUME NEW k \in 1..Len(bytes) PROVE bytes[k] = NUL <=> k = Len(bytes)
    <3>1. k \in 1..Len(s) \/ k = Len(s) + 1
      BY <1>3, <1>4
    <3>2. k \in 1..Len(s) => bytes[k] # NUL /\ k # Len(bytes)
      BY <1>3, <1>4, NoneIsNUL
    <3> QED BY <1>4, <3>1, <3>2
  <2> QED BY <2>1, <2>2 DEF AnswerIsLength
<1>6. ASSUME job.fn # "uitoa"
      PROVE  /\ SubSeq(bytes, 1, First - 1) = Prefix(job)
             /\ Value(DigitsRead) = Magnitude
             /\ DigitsRead # <<>> => Head(DigitsRead) # "0"
  <2>1. Prefixed(s) /\ Tells(s, Magnitude, 0, Base, First, 1, 0)
    BY <1>1, <1>6 DEF Ended
  <2>2. SubSeq(bytes, 1, First - 1) = Prefix(job)
    <3> DEFINE t == SubSeq(bytes, 1, First - 1)
    <3>1. Prefix(job) \in Seq(Written) /\ Len(Prefix(job)) = First - 1
      <4>1. job.lt \in BOOLEAN
        BY CallFacts
      <4>2. Prefix(job) \in Seq(Written)
        BY <1>2, <4>1, PrefixFacts
      <4> QED BY <4>2, LenProperties DEF First
    <3>2. \A p \in 1..(First - 1) : bytes[p] \in Written /\ bytes[p] = Prefix(job)[p]
      BY <1>2, <1>3, <1>4, <2>1 DEF Prefixed
    <3>3. /\ t \in Seq(Written) /\ Len(t) = First - 1
          /\ \A p \in 1..(First - 1) : t[p] = bytes[p]
      BY <1>2, <3>2, SubSeqProperties
    <3> HIDE DEF t
    <3>4. \A p \in 1..Len(t) : t[p] = Prefix(job)[p]
      BY <3>2, <3>3
    <3>5. t = Prefix(job)
      BY <3>1, <3>3, <3>4, SeqEqual
    <3> QED BY <3>5 DEF t
  <2>3. DigitsRead = SubSeq(s, First, Len(s))
    <3> DEFINE t == SubSeq(bytes, First, Len(s))
               u == SubSeq(s, First, Len(s))
    <3>1. \A p \in First..Len(s) : bytes[p] \in Written /\ s[p] \in Written /\ bytes[p] = s[p]
      BY <1>2, <1>4
    <3>2. /\ t \in Seq(Written) /\ Len(t) = Len(s) - First + 1
          /\ \A p \in 1..(Len(s) - First + 1) : t[p] = bytes[First + p - 1]
      <4>1. /\ First \in Int /\ Len(s) \in Int
            /\ \A p \in First..Len(s) : bytes[p] \in Written
        BY <1>2, <1>3, <3>1
      <4>2. /\ t \in Seq(Written)
            /\ Len(t) = IF First <= Len(s) THEN Len(s) - First + 1 ELSE 0
            /\ \A p \in 1..(Len(s) - First + 1) : t[p] = bytes[First + p - 1]
        BY ONLY <4>1, SubSeqProperties
      <4>3. (IF First <= Len(s) THEN Len(s) - First + 1 ELSE 0) = Len(s) - First + 1
        <5>1. First \in Int /\ Len(s) \in Int /\ First <= Len(s) + 1
          BY <1>3, <4>1
        <5> QED BY ONLY <5>1
      <4> QED BY <4>2, <4>3, Zenon
    <3>3. /\ u \in Seq(Written) /\ Len(u) = Len(s) - First + 1
          /\ \A p \in 1..(Len(s) - First + 1) : u[p] = s[First + p - 1]
      <4>1. /\ First \in Int /\ Len(s) \in Int
            /\ \A p \in First..Len(s) : s[p] \in Written
        BY <1>2, <1>3, <3>1
      <4>2. /\ u \in Seq(Written)
            /\ Len(u) = IF First <= Len(s) THEN Len(s) - First + 1 ELSE 0
            /\ \A p \in 1..(Len(s) - First + 1) : u[p] = s[First + p - 1]
        BY ONLY <4>1, SubSeqProperties
      <4>3. (IF First <= Len(s) THEN Len(s) - First + 1 ELSE 0) = Len(s) - First + 1
        <5>1. First \in Int /\ Len(s) \in Int /\ First <= Len(s) + 1
          BY <1>3, <4>1
        <5> QED BY ONLY <5>1
      <4> QED BY <4>2, <4>3, Zenon
    <3> HIDE DEF t, u
    <3>4. \A p \in 1..Len(t) : t[p] = u[p]
      BY <1>2, <1>3, <3>1, <3>2, <3>3
    <3>5. t = u
      BY <3>2, <3>3, <3>4, SeqEqual
    <3>6. Len(bytes) - 1 = Len(s)
      BY <1>3, <1>4
    <3> QED BY <3>5, <3>6 DEF DigitsRead, t, u
  <2>4. /\ s \in Seq(Written) /\ Magnitude \in Nat /\ First \in Nat \ {0}
        /\ First <= Len(s) + 1 /\ Base \in {10, 16}
        /\ Tells(s, Magnitude, 0, Base, First, 1, 0)
    BY <1>2, <1>3, <2>1
  <2>5. LET d == SubSeq(s, First, Len(s))
        IN Value(d) = Magnitude /\ (d # <<>> => Head(d) # "0")
    BY ONLY <2>4, ReadBack
  <2> QED BY <2>2, <2>3, <2>5
<1>7. TextIsNumber
  BY <1>6 DEF TextIsNumber, Magnitude
<1> QED BY <1>5, <1>7 DEF TextIsRight

(* For integers of every width, every number and either base: the text is  *)
(* read back as the number, and the number returned is its length          *)
(* (include.c:14-73, client.c:66-81).                                      *)
THEOREM TextRight == TextSpec => []TextIsRight
<1> QED BY TextInitInv, TextNextInv, InvIsRight, PTL DEF TextSpec

---------------------------------------------------------------------------
(* A bound on the steps a conversion still takes: a digit takes at least   *)
(* one from what is left of the number and adds one to what is turned      *)
(* round, and a swap takes two of those                                    *)
StepsToText ==
    IF textState = "digits" THEN 2 * rest + (Len(bytes) + 1 - First) + 3
    ELSE IF textState = "rotate" /\ low <= high THEN high - low + 2
    ELSE IF textState = "rotate" THEN 1
    ELSE 0

CloserToText ==
    textState \in {"digits", "rotate"} =>
        StepsToText \in Nat /\ StepsToText' \in Nat /\ StepsToText' < StepsToText

LEMMA StepIsCloser == TextInv /\ [TextNext]_textVars => [CloserToText]_textVars
<1> SUFFICES ASSUME TextInv, TextNext, textState \in {"digits", "rotate"}
             PROVE  StepsToText \in Nat /\ StepsToText' \in Nat /\ StepsToText' < StepsToText
  BY DEF CloserToText
<1>1. First \in Nat \ {0} /\ Base \in {10, 16} /\ rest \in Nat
  BY CallFacts DEF TextInv
<1>2. ASSUME textState = "digits"
      PROVE  /\ Len(bytes) \in Nat /\ bytes \in Seq(Written) /\ First <= Len(bytes) + 1
             /\ StepsToText = 2 * rest + (Len(bytes) + 1 - First) + 3
  <2>1. Storing
    BY <1>2 DEF TextInv
  <2> QED BY <1>2, <2>1, LenProperties DEF Storing, StepsToText
<1>3. ASSUME textState = "rotate" PROVE low \in Int /\ high \in Int
  BY <1>3 DEF TextInv, Turning
<1>4. CASE StoreDigit
  <2>1. /\ textState = "digits" /\ textState' = "digits" /\ rest > 0
        /\ rest' = rest \div Base /\ UNCHANGED job
    BY <1>4 DEF StoreDigit
  <2>2. First' = First
    BY <2>1, SameCall
  <2>3. rest' \in Nat /\ rest' < rest
    <3>1. CASE Base = 10
      BY <1>1, <2>1, <3>1
    <3>2. CASE Base = 16
      BY <1>1, <2>1, <3>2
    <3> QED BY <1>1, <3>1, <3>2
  <2>4. PICK c \in Chars : bytes' = Append(bytes, c)
    BY <1>4 DEF StoreDigit
  <2>5. Len(bytes') = Len(bytes) + 1
    BY <1>2, <2>1, <2>4
  <2>6. StepsToText' = 2 * rest' + (Len(bytes') + 1 - First) + 3
    BY <2>1, <2>2 DEF StepsToText
  <2>7. /\ Len(bytes) \in Nat /\ First \in Nat /\ First <= Len(bytes) + 1
        /\ StepsToText = 2 * rest + (Len(bytes) + 1 - First) + 3
    BY <1>1, <1>2, <2>1
  <2> QED BY ONLY <1>1, <2>3, <2>5, <2>6, <2>7
<1>5. CASE LastDigit
  <2>1. /\ textState = "digits" /\ textState' = "rotate" /\ rest = 0
        /\ low' = First /\ high' = Len(bytes)
    BY <1>5 DEF LastDigit
  <2>2. StepsToText' = IF First <= Len(bytes) THEN Len(bytes) - First + 2 ELSE 1
    BY <2>1 DEF StepsToText
  <2> QED BY <1>1, <1>2, <2>1, <2>2
<1>6. CASE Rotate
  <2>1. /\ textState = "rotate" /\ textState' = "rotate" /\ low <= high
        /\ low' = low + 1 /\ high' = high - 1
    <3>1. Apart => low <= high
      BY <1>3, <1>6 DEF Rotate, Apart
    <3> QED BY <1>6, <3>1 DEF Rotate
  <2>2. StepsToText = high - low + 2
    BY <2>1 DEF StepsToText
  <2>3. StepsToText' = IF low' <= high' THEN high' - low' + 2 ELSE 1
    BY <2>1 DEF StepsToText
  <2> QED BY <1>3, <2>1, <2>2, <2>3
<1>7. CASE Terminate
  <2>1. textState = "rotate" /\ textState' = "done"
    BY <1>7 DEF Terminate
  <2>2. StepsToText' = 0
    BY <2>1 DEF StepsToText
  <2>3. StepsToText = IF low <= high THEN high - low + 2 ELSE 1
    BY <2>1 DEF StepsToText
  <2> QED BY <1>3, <2>1, <2>2, <2>3
<1> QED BY <1>4, <1>5, <1>6, <1>7 DEF TextNext, TextContinue, Call, TextReturn

(* Every step of a conversion takes it closer to its end, for numbers of   *)
(* any width: neither the digits nor the swaps go on for ever              *)
(* (include.c:23-73, client.c:69-78).                                      *)
THEOREM ConversionDescends == TextSpec => [][CloserToText]_textVars
<1> QED BY TextInitInv, TextNextInv, StepIsCloser, PTL DEF TextSpec

---------------------------------------------------------------------------
(* Formats.  What the character c keeps of the old mask, and the byte it   *)
(* sets a bit by                                                           *)
Keeps(c) == clrMask[(mapChar[c] \div 32) + 1]
Byte(c) == IF readsMapped THEN mapChar[c] ELSE Code[c]

FormatChars ==
    {"h", "l", "L", "q", "hash", "i", "d", "u", "x", "o", "f", "e", "c", "s", "p", "other"}

(* The two tables, character by character (v_misc.c:237-264) *)
LEMMA Tables ==
    ASSUME NEW c \in FormatChars
    PROVE  /\ mapChar[c] \in 0..104 /\ Code[c] \in 0..120
           /\ \/ mapChar[c] < 64
              \/ mapChar[c] % 16 > 3 /\ Code[c] % 16 > 3
  BY DEF FormatChars, mapChar, Code

LEMMA CharSet == DOMAIN mapChar = FormatChars
  BY DEF mapChar, FormatChars

(* At most one bit is set, the one named or the next (v_misc.c:236, 283) *)
LEMMA NewBit ==
    ASSUME NEW b \in Nat
    PROVE  \E one \in Nat : setNewMask(b) \subseteq {one} /\ one \in {b % 16, (b % 16) + 1}
<1>1. b % 16 \in Nat
  OBVIOUS
<1> QED BY <1>1 DEF setNewMask

(* Of a type nothing is kept, and of a length nothing by a character that  *)
(* sets a bit among the lengths', in either order of reading               *)
(* (v_misc.c:237-287).                                                     *)
LEMMA KeepsOne ==
    ASSUME NEW c \in FormatChars
    PROVE  /\ Keeps(c) \cap (5..13) = {}
           /\ \/ Keeps(c) \cap {SHRT, LNG, LLNG} = {}
              \/ setNewMask(Byte(c)) \cap {SHRT, LNG, LLNG} = {}
           /\ \E one : setNewMask(Byte(c)) \subseteq {one}
<1> DEFINE m == mapChar[c]
           k == m \div 32
<1>1. m \in 0..104 /\ (m < 64 \/ (m % 16 > 3 /\ Code[c] % 16 > 3)) /\ Code[c] \in 0..120
  BY Tables
<1> HIDE DEF m
<1>2. k \in {0, 1, 2, 3} /\ (m < 64 => k \in {0, 1})
  BY <1>1
<1>3. Byte(c) \in Nat /\ (~(m < 64) => Byte(c) % 16 > 3)
  BY <1>1 DEF Byte, m
<1>4. Keeps(c) = clrMask[k + 1]
  BY DEF Keeps, m
<1> HIDE DEF k
<1>5. Keeps(c) \cap (5..13) = {}
  BY <1>2, <1>4 DEF clrMask, SHRT, LNG, LLNG, HASH
<1>6. k \in {0, 1} => Keeps(c) \cap {SHRT, LNG, LLNG} = {}
  BY <1>4 DEF clrMask, SHRT, LNG, LLNG, HASH
<1>7. PICK one \in Nat : /\ setNewMask(Byte(c)) \subseteq {one}
                         /\ one \in {Byte(c) % 16, (Byte(c) % 16) + 1}
  BY <1>3, NewBit
<1>8. ~(m < 64) => setNewMask(Byte(c)) \cap {SHRT, LNG, LLNG} = {}
  BY <1>3, <1>7 DEF SHRT, LNG, LLNG
<1> QED BY <1>2, <1>5, <1>6, <1>7, <1>8

(* A set inside a set of one has at most one element *)
LEMMA AtMostOne ==
    ASSUME NEW s, NEW one, s \subseteq {one}
    PROVE  Cardinality(s) \in Nat /\ Cardinality(s) <= 1
<1>1. IsFiniteSet({one}) /\ Cardinality({one}) = 1
  BY FS_Singleton
<1> QED BY <1>1, FS_Subset, FS_CardinalityType

LEMMA ReadCharKeepsOne ==
    ASSUME OneReading, NEW c \in DOMAIN mapChar, ReadChar(c), IsFiniteSet(mask)
    PROVE  OneReading' /\ IsFiniteSet(mask')
<1> DEFINE K == Keeps(c)
           B == setNewMask(Byte(c))
           Lengths == {SHRT, LNG, LLNG}
<1>1. mask' = (mask \cap K) \cup B
  BY DEF ReadChar, Keeps, Byte
<1>2. PICK one : B \subseteq {one}
  BY CharSet, KeepsOne
<1>3. K \cap (5..13) = {} /\ (K \cap Lengths = {} \/ B \cap Lengths = {})
  BY CharSet, KeepsOne
<1> HIDE DEF K, B, Lengths
<1>4. mask' \cap (5..13) \subseteq {one}
  BY <1>1, <1>2, <1>3
<1>5. \/ mask' \cap Lengths \subseteq {one}
      \/ mask' \cap Lengths \subseteq mask \cap Lengths
  BY <1>1, <1>2, <1>3
<1>6. IsFiniteSet(mask \cap Lengths)
  BY FS_Intersection
<1>7. Cardinality(mask \cap Lengths) <= 1 /\ Cardinality(mask \cap Lengths) \in Nat
  BY <1>6, FS_CardinalityType DEF OneReading, Lengths
<1>8. Cardinality(mask' \cap Lengths) <= 1
  <2>1. CASE mask' \cap Lengths \subseteq {one}
    BY <2>1, AtMostOne
  <2>2. CASE mask' \cap Lengths \subseteq mask \cap Lengths
    <3>1. /\ Cardinality(mask' \cap Lengths) \in Nat
          /\ Cardinality(mask' \cap Lengths) <= Cardinality(mask \cap Lengths)
      BY <1>6, <2>2, FS_Subset, FS_CardinalityType
    <3> QED BY <1>7, <3>1
  <2> QED BY <1>5, <2>1, <2>2
<1>9. Cardinality(mask' \cap (5..13)) <= 1
  BY <1>4, AtMostOne
<1>10. IsFiniteSet(mask')
  <2>1. IsFiniteSet({one}) /\ IsFiniteSet(mask \cap K)
    BY FS_Singleton, FS_Intersection
  <2>2. IsFiniteSet(B)
    BY <1>2, <2>1, FS_Subset
  <2> QED BY <1>1, <2>1, <2>2, FS_Union
<1> QED BY <1>8, <1>9, <1>10 DEF OneReading, Lengths, SHRT, LNG, LLNG

(* However long a format is and whatever it is made of, it has at most one *)
(* type and at most one length, in either order the build reads c          *)
(* (v_misc.c:225-287).                                                     *)
THEOREM ReadOneWay == MaskSpec => []OneReading
<1> DEFINE Inv == OneReading /\ IsFiniteSet(mask)
<1>1. MaskInit => Inv
  <2>1. {} \cap (5..13) = {} /\ {} \cap {SHRT, LNG, LLNG} = {}
    OBVIOUS
  <2>2. IsFiniteSet({}) /\ Cardinality({}) = 0
    BY FS_EmptySet
  <2> QED BY <2>1, <2>2 DEF MaskInit, OneReading
<1>2. Inv /\ [MaskNext]_maskVars => Inv'
  <2>1. ASSUME Inv, UNCHANGED maskVars PROVE Inv'
    BY <2>1 DEF maskVars, OneReading, SHRT, LNG, LLNG
  <2>2. ASSUME Inv, MaskNext PROVE Inv'
    BY <2>2, ReadCharKeepsOne DEF MaskNext
  <2> QED BY <2>1, <2>2
<1>3. Inv => OneReading
  OBVIOUS
<1> QED BY <1>1, <1>2, <1>3, PTL DEF MaskSpec

---------------------------------------------------------------------------
(* The characters behind the last "other" of a format f *)
Starts(f) == {k \in 0..Len(f) : k = 0 \/ f[k] = "other"}
IsLast(k, f) == k \in Starts(f) /\ \A j \in Starts(f) : j <= k
Behind(f) == SubSeq(f, (CHOOSE k \in Starts(f) : \A j \in Starts(f) : j <= k) + 1, Len(f))

LEMMA RecentIsBehind == Recent = Behind(format)
  BY DEF Recent, Start, Behind, Starts

LEMMA BehindLast ==
    ASSUME NEW f \in Seq(FormatChars), NEW k, IsLast(k, f)
    PROVE  /\ k \in 0..Len(f) /\ Behind(f) = SubSeq(f, k + 1, Len(f))
           /\ Behind(f) \in Seq(FormatChars) /\ Len(Behind(f)) = Len(f) - k
           /\ \A i \in 1..(Len(f) - k) : Behind(f)[i] = f[k + i]
<1> DEFINE x == CHOOSE i \in Starts(f) : \A j \in Starts(f) : j <= i
<1>1. Len(f) \in Nat
  BY LenProperties
<1>2. x \in Starts(f) /\ \A j \in Starts(f) : j <= x
  BY DEF IsLast
<1>3. x \in Int /\ k \in 0..Len(f)
  BY <1>1, <1>2 DEF Starts, IsLast
<1>4. x = k
  BY <1>2, <1>3 DEF IsLast
<1>5. Behind(f) = SubSeq(f, k + 1, Len(f))
  BY <1>4 DEF Behind
<1> DEFINE t == SubSeq(f, k + 1, Len(f))
<1>6. /\ t \in Seq(FormatChars)
      /\ Len(t) = IF k + 1 <= Len(f) THEN Len(f) - (k + 1) + 1 ELSE 0
      /\ \A i \in 1..(Len(f) - (k + 1) + 1) : t[i] = f[(k + 1) + i - 1]
  <2>1. k + 1 \in Int /\ Len(f) \in Int /\ \A i \in (k + 1)..Len(f) : f[i] \in FormatChars
    BY <1>1, <1>3, ElementOfSeq
  <2> QED BY ONLY <2>1, SubSeqProperties
<1> HIDE DEF t
<1>7. Len(t) = Len(f) - k /\ \A i \in 1..(Len(f) - k) : t[i] = f[k + i]
  BY <1>1, <1>3, <1>6
<1> QED BY <1>3, <1>5, <1>6, <1>7 DEF t

(* One more character starts anew or is one more behind the last "other" *)
LEMMA BehindStep ==
    ASSUME NEW f \in Seq(FormatChars), NEW k, IsLast(k, f), NEW c \in FormatChars
    PROVE  LET g == Append(f, c)
           IN /\ \E i : IsLast(i, g)
              /\ Behind(f) \in Seq(FormatChars)
              /\ c = "other" => Behind(g) = <<>>
              /\ c # "other" => Behind(g) = Append(Behind(f), c)
<1> DEFINE g == Append(f, c)
<1>1. /\ Len(f) \in Nat /\ Len(g) = Len(f) + 1 /\ g \in Seq(FormatChars)
      /\ \A i \in 1..Len(f) : g[i] = f[i]
      /\ g[Len(f) + 1] = c
  BY LenProperties, AppendProperties
<1> HIDE DEF g
<1>2. /\ k \in 0..Len(f) /\ Behind(f) \in Seq(FormatChars) /\ Len(Behind(f)) = Len(f) - k
      /\ \A i \in 1..(Len(f) - k) : Behind(f)[i] = f[k + i]
  BY BehindLast
<1>3. CASE c = "other"
  <2>1. IsLast(Len(f) + 1, g)
    BY <1>1, <1>3 DEF IsLast, Starts
  <2>2. Behind(g) \in Seq(FormatChars) /\ Len(Behind(g)) = Len(g) - (Len(f) + 1)
    BY <1>1, <2>1, BehindLast
  <2>3. Behind(g) = <<>>
    BY <1>1, <2>2, EmptySeq
  <2> QED BY <1>2, <1>3, <2>1, <2>3 DEF g
<1>4. CASE c # "other"
  <2>1. IsLast(k, g)
    <3>1. k \in 0..Len(g) /\ (k = 0 \/ g[k] = "other")
      BY <1>1, <1>2 DEF IsLast, Starts
    <3>2. \A j \in Starts(g) : j \in Starts(f)
      BY <1>1, <1>4 DEF Starts
    <3> QED BY <3>1, <3>2 DEF IsLast, Starts
  <2>2. /\ Behind(g) \in Seq(FormatChars) /\ Len(Behind(g)) = Len(g) - k
        /\ \A i \in 1..(Len(g) - k) : Behind(g)[i] = g[k + i]
    BY <1>1, <2>1, BehindLast
  <2> DEFINE t == Append(Behind(f), c)
  <2>3. /\ t \in Seq(FormatChars) /\ Len(t) = Len(f) - k + 1
        /\ \A i \in 1..(Len(f) - k) : t[i] = f[k + i]
        /\ t[Len(f) - k + 1] = c
    BY <1>1, <1>2, AppendProperties
  <2> HIDE DEF t
  <2>4. \A i \in 1..Len(t) : t[i] = Behind(g)[i]
    <3>0. Len(t) = Len(g) - k
      BY <1>1, <1>2, <2>3
    <3> SUFFICES ASSUME NEW i \in 1..(Len(g) - k) PROVE t[i] = g[k + i]
      BY <2>2, <3>0
    <3>1. CASE i = Len(f) - k + 1
      <4>1. k + i = Len(f) + 1
        BY <1>1, <1>2, <3>1
      <4> QED BY <1>1, <2>3, <3>1, <4>1
    <3>2. CASE i # Len(f) - k + 1
      <4>1. i \in 1..(Len(f) - k) /\ k + i \in 1..Len(f)
        BY <1>1, <1>2, <3>2
      <4> QED BY <1>1, <2>3, <4>1
    <3> QED BY <3>1, <3>2
  <2>5. Len(t) = Len(Behind(g))
    BY <1>1, <1>2, <2>2, <2>3
  <2>6. t = Behind(g)
    BY <2>2, <2>3, <2>4, <2>5, SeqEqual
  <2> QED BY <1>2, <1>4, <2>1, <2>6 DEF t, g
<1> QED BY <1>3, <1>4

(* Every way an integer's format may begin, with the mask it gives and the *)
(* byte of its last character                                              *)
Modifiers ==
    { << <<>>, {}, 0 >>, << <<"hash">>, {HASH}, 4 >>,
      << <<"h">>, {SHRT}, 48 >>, << <<"hash", "h">>, {HASH, SHRT}, 48 >>,
      << <<"l">>, {LNG}, 50 >>, << <<"hash", "l">>, {HASH, LNG}, 50 >>,
      << <<"l", "l">>, {LLNG}, 50 >>, << <<"hash", "l", "l">>, {HASH, LLNG}, 50 >>,
      << <<"L">>, {LLNG}, 51 >>, << <<"hash", "L">>, {HASH, LLNG}, 51 >>,
      << <<"q">>, {LLNG}, 51 >>, << <<"hash", "q">>, {HASH, LLNG}, 51 >> }

Begun(r, m, o) == \A p \in Modifiers : r = p[1] => m = p[2] /\ o = p[3]

(* How such a beginning ends: with one character behind a shorter one *)
Extends(r, c, p) ==
    \/ c = "hash" /\ r = <<>> /\ p = << <<"hash">>, {HASH}, 4 >>
    \/ c = "h" /\ r = <<>> /\ p = << <<"h">>, {SHRT}, 48 >>
    \/ c = "h" /\ r = <<"hash">> /\ p = << <<"hash", "h">>, {HASH, SHRT}, 48 >>
    \/ c = "l" /\ r = <<>> /\ p = << <<"l">>, {LNG}, 50 >>
    \/ c = "l" /\ r = <<"hash">> /\ p = << <<"hash", "l">>, {HASH, LNG}, 50 >>
    \/ c = "l" /\ r = <<"l">> /\ p = << <<"l", "l">>, {LLNG}, 50 >>
    \/ c = "l" /\ r = <<"hash", "l">> /\ p = << <<"hash", "l", "l">>, {HASH, LLNG}, 50 >>
    \/ c = "L" /\ r = <<>> /\ p = << <<"L">>, {LLNG}, 51 >>
    \/ c = "L" /\ r = <<"hash">> /\ p = << <<"hash", "L">>, {HASH, LLNG}, 51 >>
    \/ c = "q" /\ r = <<>> /\ p = << <<"q">>, {LLNG}, 51 >>
    \/ c = "q" /\ r = <<"hash">> /\ p = << <<"hash", "q">>, {HASH, LLNG}, 51 >>

(* Longer beginnings out of shorter ones *)
LEMMA Tuples ==
    /\ <<"hash">> = Append(<<>>, "hash") /\ <<"h">> = Append(<<>>, "h")
    /\ <<"l">> = Append(<<>>, "l") /\ <<"L">> = Append(<<>>, "L")
    /\ <<"q">> = Append(<<>>, "q")
    /\ <<"hash", "h">> = Append(<<"hash">>, "h")
    /\ <<"hash", "l">> = Append(<<"hash">>, "l")
    /\ <<"hash", "L">> = Append(<<"hash">>, "L")
    /\ <<"hash", "q">> = Append(<<"hash">>, "q")
    /\ <<"l", "l">> = Append(<<"l">>, "l")
    /\ <<"hash", "l", "l">> = Append(<<"hash", "l">>, "l")
  OBVIOUS

LEMMA ModifierExtends ==
    ASSUME NEW r \in Seq(FormatChars), NEW c \in FormatChars, NEW p \in Modifiers,
           Append(r, c) = p[1]
    PROVE  Extends(r, c, p)
<1>1. p[1] # <<>>
  BY AppendProperties
<1>2. ASSUME NEW t \in Seq(FormatChars), NEW d \in FormatChars, Append(t, d) = p[1]
      PROVE  r = t /\ c = d
  BY <1>2, AppendInjective
<1>3. /\ <<>> \in Seq(FormatChars) /\ <<"hash">> \in Seq(FormatChars)
      /\ <<"l">> \in Seq(FormatChars) /\ <<"hash", "l">> \in Seq(FormatChars)
  BY DEF FormatChars
<1>4. /\ "hash" \in FormatChars /\ "h" \in FormatChars /\ "l" \in FormatChars
      /\ "L" \in FormatChars /\ "q" \in FormatChars
  BY DEF FormatChars
<1>5. CASE p = << <<"hash">>, {HASH}, 4 >>
  <2>1. p[1] = <<"hash">>
    BY <1>5
  <2>2. Append(<<>>, "hash") = p[1]
    BY <2>1, Tuples, Zenon
  <2> QED BY <1>2, <1>3, <1>4, <1>5, <2>2, Zenon DEF Extends
<1>6. CASE p = << <<"h">>, {SHRT}, 48 >>
  <2>1. p[1] = <<"h">>
    BY <1>6
  <2>2. Append(<<>>, "h") = p[1]
    BY <2>1, Tuples, Zenon
  <2> QED BY <1>2, <1>3, <1>4, <1>6, <2>2, Zenon DEF Extends
<1>7. CASE p = << <<"hash", "h">>, {HASH, SHRT}, 48 >>
  <2>1. p[1] = <<"hash", "h">>
    BY <1>7
  <2>2. Append(<<"hash">>, "h") = p[1]
    BY <2>1, Tuples, Zenon
  <2> QED BY <1>2, <1>3, <1>4, <1>7, <2>2, Zenon DEF Extends
<1>8. CASE p = << <<"l">>, {LNG}, 50 >>
  <2>1. p[1] = <<"l">>
    BY <1>8
  <2>2. Append(<<>>, "l") = p[1]
    BY <2>1, Tuples, Zenon
  <2> QED BY <1>2, <1>3, <1>4, <1>8, <2>2, Zenon DEF Extends
<1>9. CASE p = << <<"hash", "l">>, {HASH, LNG}, 50 >>
  <2>1. p[1] = <<"hash", "l">>
    BY <1>9
  <2>2. Append(<<"hash">>, "l") = p[1]
    BY <2>1, Tuples, Zenon
  <2> QED BY <1>2, <1>3, <1>4, <1>9, <2>2, Zenon DEF Extends
<1>10. CASE p = << <<"l", "l">>, {LLNG}, 50 >>
  <2>1. p[1] = <<"l", "l">>
    BY <1>10
  <2>2. Append(<<"l">>, "l") = p[1]
    BY <2>1, Tuples, Zenon
  <2> QED BY <1>2, <1>3, <1>4, <1>10, <2>2, Zenon DEF Extends
<1>11. CASE p = << <<"hash", "l", "l">>, {HASH, LLNG}, 50 >>
  <2>1. p[1] = <<"hash", "l", "l">>
    BY <1>11
  <2>2. Append(<<"hash", "l">>, "l") = p[1]
    BY <2>1, Tuples, Zenon
  <2> QED BY <1>2, <1>3, <1>4, <1>11, <2>2, Zenon DEF Extends
<1>12. CASE p = << <<"L">>, {LLNG}, 51 >>
  <2>1. p[1] = <<"L">>
    BY <1>12
  <2>2. Append(<<>>, "L") = p[1]
    BY <2>1, Tuples, Zenon
  <2> QED BY <1>2, <1>3, <1>4, <1>12, <2>2, Zenon DEF Extends
<1>13. CASE p = << <<"hash", "L">>, {HASH, LLNG}, 51 >>
  <2>1. p[1] = <<"hash", "L">>
    BY <1>13
  <2>2. Append(<<"hash">>, "L") = p[1]
    BY <2>1, Tuples, Zenon
  <2> QED BY <1>2, <1>3, <1>4, <1>13, <2>2, Zenon DEF Extends
<1>14. CASE p = << <<"q">>, {LLNG}, 51 >>
  <2>1. p[1] = <<"q">>
    BY <1>14
  <2>2. Append(<<>>, "q") = p[1]
    BY <2>1, Tuples, Zenon
  <2> QED BY <1>2, <1>3, <1>4, <1>14, <2>2, Zenon DEF Extends
<1>15. CASE p = << <<"hash", "q">>, {HASH, LLNG}, 51 >>
  <2>1. p[1] = <<"hash", "q">>
    BY <1>15
  <2>2. Append(<<"hash">>, "q") = p[1]
    BY <2>1, Tuples, Zenon
  <2> QED BY <1>2, <1>3, <1>4, <1>15, <2>2, Zenon DEF Extends
<1>16. p # << <<>>, {}, 0 >>
  BY <1>1
<1> QED BY <1>5, <1>6, <1>7, <1>8, <1>9, <1>10, <1>11, <1>12, <1>13, <1>14, <1>15, <1>16,
           Zenon DEF Modifiers

(* What one character does to the mask when c is assigned before it is read *)
(* (v_misc.c:283): a modifier                                              *)
LEMMA ModifierRead ==
    ASSUME readsMapped, NEW c \in FormatChars, ReadChar(c)
    PROVE  /\ c = "other" => mask' = {} /\ old' = 0
           /\ c = "hash" => mask' = {HASH} /\ old' = 4
           /\ c = "h" => mask' = (mask \cap {HASH}) \cup {IF old = 48 THEN 1 ELSE SHRT} /\ old' = 48
           /\ c = "l" => mask' = (mask \cap {HASH}) \cup {IF old = 50 THEN LLNG ELSE LNG} /\ old' = 50
           /\ c \in {"L", "q"} =>
                 mask' = (mask \cap {HASH}) \cup {IF old = 51 THEN 4 ELSE LLNG} /\ old' = 51
<1>1. /\ mask' = (mask \cap clrMask[(mapChar[c] \div 32) + 1]) \cup setNewMask(mapChar[c])
      /\ old' = mapChar[c]
  BY DEF ReadChar
<1>2. ASSUME NEW b \in 1..63, NEW k \in 0..14, b = k \/ b = 48 + k
      PROVE  setNewMask(b) = {IF old = b /\ b # k THEN k + 1 ELSE k}
  <2>1. b % 16 = k /\ b # 0 /\ ((b \div 16) % 2 = 1 <=> b # k)
    BY <1>2
  <2>2. Repeats(b) <=> old = b /\ b # k
    BY <2>1, Zenon DEF Repeats
  <2>3. setNewMask(b) = {k + (IF Repeats(b) THEN 1 ELSE 0)} \cap (0..15)
    BY <2>1, Zenon DEF setNewMask
  <2>4. {k + 1} \cap (0..15) = {k + 1} /\ {k + 0} \cap (0..15) = {k}
    <3>1. k + 1 \in 0..15 /\ k \in 0..15 /\ k + 0 = k
      OBVIOUS
    <3> QED BY <3>1, Zenon
  <2>5. CASE old = b /\ b # k
    BY <2>2, <2>3, <2>4, <2>5, Zenon
  <2>6. CASE ~(old = b /\ b # k)
    BY <2>2, <2>3, <2>4, <2>6, Zenon
  <2> QED BY <2>5, <2>6
<1>3. CASE c = "other"
  <2>1. mapChar[c] = 0
    BY <1>3 DEF mapChar
  <2>2. clrMask[(0 \div 32) + 1] = {} /\ setNewMask(0) = {}
    BY DEF clrMask, setNewMask
  <2> QED BY <1>1, <1>3, <2>1, <2>2
<1>4. CASE c = "hash"
  <2>1. mapChar[c] = 4
    BY <1>4 DEF mapChar
  <2>2. clrMask[(4 \div 32) + 1] = {}
    BY DEF clrMask
  <2>3. setNewMask(4) = {HASH}
    BY <1>2 DEF HASH
  <2> QED BY <1>1, <1>4, <2>1, <2>2, <2>3
<1>5. CASE c = "h"
  <2>1. mapChar[c] = 48
    BY <1>5 DEF mapChar
  <2>2. clrMask[(48 \div 32) + 1] = {HASH}
    BY DEF clrMask
  <2>3. setNewMask(48) = {IF old = 48 THEN 1 ELSE SHRT}
    BY <1>2 DEF SHRT
  <2> QED BY <1>1, <1>5, <2>1, <2>2, <2>3
<1>6. CASE c = "l"
  <2>1. mapChar[c] = 50
    BY <1>6 DEF mapChar
  <2>2. clrMask[(50 \div 32) + 1] = {HASH}
    BY DEF clrMask
  <2>3. setNewMask(50) = {IF old = 50 THEN LLNG ELSE LNG}
    BY <1>2 DEF LNG, LLNG
  <2> QED BY <1>1, <1>6, <2>1, <2>2, <2>3
<1>7. CASE c \in {"L", "q"}
  <2>1. mapChar[c] = 51
    BY <1>7 DEF mapChar
  <2>2. clrMask[(51 \div 32) + 1] = {HASH}
    BY DEF clrMask
  <2>3. setNewMask(51) = {IF old = 51 THEN 4 ELSE LLNG}
    BY <1>2 DEF LLNG
  <2> QED BY <1>1, <1>7, <2>1, <2>2, <2>3
<1> QED BY <1>3, <1>4, <1>5, <1>6, <1>7

(* ... and the character of an integer                                     *)
LEMMA TypeRead ==
    ASSUME readsMapped, NEW c \in {"i", "d", "u", "x", "o"}, ReadChar(c),
           old \notin {69, 70, 103, 104}
    PROVE  \E K, b : /\ mask' = (mask \cap K) \cup {b} /\ b \in 5..8
                     /\ {SHRT, LNG, LLNG} \subseteq K
                     /\ HASH \in K <=> c \in {"x", "o"}
                     /\ b = HEX <=> c = "x"
                     /\ b = OCT <=> c = "o"
<1> DEFINE K == clrMask[(mapChar[c] \div 32) + 1]
           b == mapChar[c] % 16
<1>1. mapChar[c] = IF c \in {"i", "d"} THEN 69 ELSE IF c = "u" THEN 70
                   ELSE IF c = "x" THEN 103 ELSE 104
  BY DEF mapChar
<1>2. ~Repeats(mapChar[c])
  BY <1>1 DEF Repeats
<1>3. setNewMask(mapChar[c]) = {b} /\ b \in 5..8
  <2>1. b \in 5..8 /\ mapChar[c] # 0
    BY <1>1
  <2>2. setNewMask(mapChar[c]) = {b + 0} \cap (0..15)
    BY <1>2, <2>1, Zenon DEF setNewMask
  <2> HIDE DEF b
  <2>3. {b + 0} \cap (0..15) = {b}
    <3>1. b \in 0..15 /\ b + 0 = b
      BY <2>1
    <3> QED BY <3>1, Zenon
  <2> QED BY <2>1, <2>2, <2>3, Zenon
<1>4. mask' = (mask \cap K) \cup {b}
  BY <1>3 DEF ReadChar
<1>5. K = IF c \in {"x", "o"} THEN {SHRT, LNG, LLNG, HASH} ELSE {SHRT, LNG, LLNG}
  BY <1>1 DEF clrMask
<1>6. (b = HEX <=> c = "x") /\ (b = OCT <=> c = "o")
  BY <1>1 DEF HEX, OCT
<1> HIDE DEF K, b
<1>7. /\ {SHRT, LNG, LLNG} \subseteq K
      /\ HASH \in K <=> c \in {"x", "o"}
  BY <1>5 DEF SHRT, LNG, LLNG, HASH
<1> QED BY <1>3, <1>4, <1>6, <1>7

LEMMA ModifierTexts ==
    ASSUME NEW p \in Modifiers
    PROVE  p[1] \in Seq(FormatChars) /\ (p[1] = <<>> => p[2] = {} /\ p[3] = 0)
<1>1. <<>> \in Seq(FormatChars)
  OBVIOUS
<1>2. CASE p = << <<"hash">>, {HASH}, 4 >>
  <2>1. p[1] = <<"hash">>
    BY <1>2
  <2>2. <<"hash">> \in Seq(FormatChars) /\ <<"hash">> # <<>>
    BY DEF FormatChars
  <2> QED BY <2>1, <2>2
<1>3. CASE p = << <<"h">>, {SHRT}, 48 >>
  <2>1. p[1] = <<"h">>
    BY <1>3
  <2>2. <<"h">> \in Seq(FormatChars) /\ <<"h">> # <<>>
    BY DEF FormatChars
  <2> QED BY <2>1, <2>2
<1>4. CASE p = << <<"hash", "h">>, {HASH, SHRT}, 48 >>
  <2>1. p[1] = <<"hash", "h">>
    BY <1>4
  <2>2. <<"hash", "h">> \in Seq(FormatChars) /\ <<"hash", "h">> # <<>>
    BY DEF FormatChars
  <2> QED BY <2>1, <2>2
<1>5. CASE p = << <<"l">>, {LNG}, 50 >>
  <2>1. p[1] = <<"l">>
    BY <1>5
  <2>2. <<"l">> \in Seq(FormatChars) /\ <<"l">> # <<>>
    BY DEF FormatChars
  <2> QED BY <2>1, <2>2
<1>6. CASE p = << <<"hash", "l">>, {HASH, LNG}, 50 >>
  <2>1. p[1] = <<"hash", "l">>
    BY <1>6
  <2>2. <<"hash", "l">> \in Seq(FormatChars) /\ <<"hash", "l">> # <<>>
    BY DEF FormatChars
  <2> QED BY <2>1, <2>2
<1>7. CASE p = << <<"l", "l">>, {LLNG}, 50 >>
  <2>1. p[1] = <<"l", "l">>
    BY <1>7
  <2>2. <<"l", "l">> \in Seq(FormatChars) /\ <<"l", "l">> # <<>>
    BY DEF FormatChars
  <2> QED BY <2>1, <2>2
<1>8. CASE p = << <<"hash", "l", "l">>, {HASH, LLNG}, 50 >>
  <2>1. p[1] = <<"hash", "l", "l">>
    BY <1>8
  <2>2. <<"hash", "l", "l">> \in Seq(FormatChars) /\ <<"hash", "l", "l">> # <<>>
    BY DEF FormatChars
  <2> QED BY <2>1, <2>2
<1>9. CASE p = << <<"L">>, {LLNG}, 51 >>
  <2>1. p[1] = <<"L">>
    BY <1>9
  <2>2. <<"L">> \in Seq(FormatChars) /\ <<"L">> # <<>>
    BY DEF FormatChars
  <2> QED BY <2>1, <2>2
<1>10. CASE p = << <<"hash", "L">>, {HASH, LLNG}, 51 >>
  <2>1. p[1] = <<"hash", "L">>
    BY <1>10
  <2>2. <<"hash", "L">> \in Seq(FormatChars) /\ <<"hash", "L">> # <<>>
    BY DEF FormatChars
  <2> QED BY <2>1, <2>2
<1>11. CASE p = << <<"q">>, {LLNG}, 51 >>
  <2>1. p[1] = <<"q">>
    BY <1>11
  <2>2. <<"q">> \in Seq(FormatChars) /\ <<"q">> # <<>>
    BY DEF FormatChars
  <2> QED BY <2>1, <2>2
<1>12. CASE p = << <<"hash", "q">>, {HASH, LLNG}, 51 >>
  <2>1. p[1] = <<"hash", "q">>
    BY <1>12
  <2>2. <<"hash", "q">> \in Seq(FormatChars) /\ <<"hash", "q">> # <<>>
    BY DEF FormatChars
  <2> QED BY <2>1, <2>2
<1>13. CASE p = << <<>>, {}, 0 >>
  BY <1>1, <1>13
<1> QED BY <1>2, <1>3, <1>4, <1>5, <1>6, <1>7, <1>8, <1>9, <1>10, <1>11, <1>12, <1>13,
           Zenon DEF Modifiers

LEMMA BegunFacts ==
    ASSUME NEW r, NEW m, NEW o, Begun(r, m, o)
    PROVE  /\ r = <<>> => m = {} /\ o = 0
           /\ r = <<"hash">> => m = {HASH} /\ o = 4
           /\ r = <<"l">> => m = {LNG} /\ o = 50
           /\ r = <<"hash", "l">> => m = {HASH, LNG} /\ o = 50
<1>1. r = <<>> => m = {} /\ o = 0
  <2> DEFINE p == << <<>>, {}, 0 >>
  <2>1. p \in Modifiers
    BY Zenon DEF Modifiers
  <2>2. p[1] = <<>> /\ p[2] = {} /\ p[3] = 0
    OBVIOUS
  <2> HIDE DEF p
  <2> QED BY <2>1, <2>2, Zenon DEF Begun
<1>2. r = <<"hash">> => m = {HASH} /\ o = 4
  <2> DEFINE p == << <<"hash">>, {HASH}, 4 >>
  <2>1. p \in Modifiers
    BY Zenon DEF Modifiers
  <2>2. p[1] = <<"hash">> /\ p[2] = {HASH} /\ p[3] = 4
    OBVIOUS
  <2> HIDE DEF p
  <2> QED BY <2>1, <2>2, Zenon DEF Begun
<1>3. r = <<"l">> => m = {LNG} /\ o = 50
  <2> DEFINE p == << <<"l">>, {LNG}, 50 >>
  <2>1. p \in Modifiers
    BY Zenon DEF Modifiers
  <2>2. p[1] = <<"l">> /\ p[2] = {LNG} /\ p[3] = 50
    OBVIOUS
  <2> HIDE DEF p
  <2> QED BY <2>1, <2>2, Zenon DEF Begun
<1>4. r = <<"hash", "l">> => m = {HASH, LNG} /\ o = 50
  <2> DEFINE p == << <<"hash", "l">>, {HASH, LNG}, 50 >>
  <2>1. p \in Modifiers
    BY Zenon DEF Modifiers
  <2>2. p[1] = <<"hash", "l">> /\ p[2] = {HASH, LNG} /\ p[3] = 50
    OBVIOUS
  <2> HIDE DEF p
  <2> QED BY <2>1, <2>2, Zenon DEF Begun
<1> QED BY <1>1, <1>2, <1>3, <1>4

(* What printf gives an integer's type for is one of these beginnings *)
Given(p, hash, m) ==
    /\ p[2] \subseteq {SHRT, LNG, LLNG, HASH} /\ p[3] \notin {69, 70, 103, 104}
    /\ HASH \in p[2] <=> hash # <<>>
    /\ m[2] = IF LNG \in p[2] THEN "long" ELSE IF LLNG \in p[2] THEN "long long"
               ELSE IF SHRT \in p[2] THEN "short" ELSE "int"

LEMMA MeantBegins ==
    ASSUME NEW hash \in {<<>>, <<"hash">>}, NEW m \in Meant
    PROVE  \E p \in Modifiers : p[1] = hash \o m[1] /\ Given(p, hash, m)
<1>1. CASE hash = <<>> /\ m = << <<>>, "int" >>
  <2> DEFINE p == << <<>>, {}, 0 >>
  <2>1. p \in Modifiers
    BY Zenon DEF Modifiers
  <2>2. <<>> = <<>> \o <<>>
    OBVIOUS
  <2>3. p[1] = <<>> /\ m[1] = <<>>
    BY <1>1
  <2>4. p[2] = {} /\ p[3] = 0 /\ hash = <<>>
    BY <1>1
  <2>5. m[2] = "int"
    BY <1>1, Zenon
  <2> HIDE DEF p
  <2>6. /\ p[2] \subseteq {SHRT, LNG, LLNG, HASH} /\ p[3] \notin {69, 70, 103, 104}
        /\ HASH \notin p[2] /\ LNG \notin p[2] /\ LLNG \notin p[2] /\ SHRT \notin p[2]
    BY ONLY <2>4 DEF SHRT, LNG, LLNG, HASH
  <2>7. Given(p, hash, m)
    BY <2>4, <2>5, <2>6, Zenon DEF Given
  <2> QED BY <1>1, <2>1, <2>2, <2>3, <2>7, Zenon
<1>2. CASE hash = <<>> /\ m = << <<"h">>, "short" >>
  <2> DEFINE p == << <<"h">>, {SHRT}, 48 >>
  <2>1. p \in Modifiers
    BY Zenon DEF Modifiers
  <2>2. <<"h">> = <<>> \o <<"h">>
    OBVIOUS
  <2>3. p[1] = <<"h">> /\ m[1] = <<"h">>
    BY <1>2
  <2>4. p[2] = {SHRT} /\ p[3] = 48 /\ hash = <<>>
    BY <1>2
  <2>5. m[2] = "short"
    BY <1>2, Zenon
  <2> HIDE DEF p
  <2>6. /\ p[2] \subseteq {SHRT, LNG, LLNG, HASH} /\ p[3] \notin {69, 70, 103, 104}
        /\ HASH \notin p[2] /\ LNG \notin p[2] /\ LLNG \notin p[2] /\ SHRT \in p[2]
    BY ONLY <2>4 DEF SHRT, LNG, LLNG, HASH
  <2>7. Given(p, hash, m)
    BY <2>4, <2>5, <2>6, Zenon DEF Given
  <2> QED BY <1>2, <2>1, <2>2, <2>3, <2>7, Zenon
<1>3. CASE hash = <<>> /\ m = << <<"l">>, "long" >>
  <2> DEFINE p == << <<"l">>, {LNG}, 50 >>
  <2>1. p \in Modifiers
    BY Zenon DEF Modifiers
  <2>2. <<"l">> = <<>> \o <<"l">>
    OBVIOUS
  <2>3. p[1] = <<"l">> /\ m[1] = <<"l">>
    BY <1>3
  <2>4. p[2] = {LNG} /\ p[3] = 50 /\ hash = <<>>
    BY <1>3
  <2>5. m[2] = "long"
    BY <1>3, Zenon
  <2> HIDE DEF p
  <2>6. /\ p[2] \subseteq {SHRT, LNG, LLNG, HASH} /\ p[3] \notin {69, 70, 103, 104}
        /\ HASH \notin p[2] /\ LNG \in p[2] /\ LLNG \notin p[2] /\ SHRT \notin p[2]
    BY ONLY <2>4 DEF SHRT, LNG, LLNG, HASH
  <2>7. Given(p, hash, m)
    BY <2>4, <2>5, <2>6, Zenon DEF Given
  <2> QED BY <1>3, <2>1, <2>2, <2>3, <2>7, Zenon
<1>4. CASE hash = <<>> /\ m = << <<"l", "l">>, "long long" >>
  <2> DEFINE p == << <<"l", "l">>, {LLNG}, 50 >>
  <2>1. p \in Modifiers
    BY Zenon DEF Modifiers
  <2>2. <<"l", "l">> = <<>> \o <<"l", "l">>
    OBVIOUS
  <2>3. p[1] = <<"l", "l">> /\ m[1] = <<"l", "l">>
    BY <1>4
  <2>4. p[2] = {LLNG} /\ p[3] = 50 /\ hash = <<>>
    BY <1>4
  <2>5. m[2] = "long long"
    BY <1>4, Zenon
  <2> HIDE DEF p
  <2>6. /\ p[2] \subseteq {SHRT, LNG, LLNG, HASH} /\ p[3] \notin {69, 70, 103, 104}
        /\ HASH \notin p[2] /\ LNG \notin p[2] /\ LLNG \in p[2] /\ SHRT \notin p[2]
    BY ONLY <2>4 DEF SHRT, LNG, LLNG, HASH
  <2>7. Given(p, hash, m)
    BY <2>4, <2>5, <2>6, Zenon DEF Given
  <2> QED BY <1>4, <2>1, <2>2, <2>3, <2>7, Zenon
<1>5. CASE hash = <<>> /\ m = << <<"L">>, "long long" >>
  <2> DEFINE p == << <<"L">>, {LLNG}, 51 >>
  <2>1. p \in Modifiers
    BY Zenon DEF Modifiers
  <2>2. <<"L">> = <<>> \o <<"L">>
    OBVIOUS
  <2>3. p[1] = <<"L">> /\ m[1] = <<"L">>
    BY <1>5
  <2>4. p[2] = {LLNG} /\ p[3] = 51 /\ hash = <<>>
    BY <1>5
  <2>5. m[2] = "long long"
    BY <1>5, Zenon
  <2> HIDE DEF p
  <2>6. /\ p[2] \subseteq {SHRT, LNG, LLNG, HASH} /\ p[3] \notin {69, 70, 103, 104}
        /\ HASH \notin p[2] /\ LNG \notin p[2] /\ LLNG \in p[2] /\ SHRT \notin p[2]
    BY ONLY <2>4 DEF SHRT, LNG, LLNG, HASH
  <2>7. Given(p, hash, m)
    BY <2>4, <2>5, <2>6, Zenon DEF Given
  <2> QED BY <1>5, <2>1, <2>2, <2>3, <2>7, Zenon
<1>6. CASE hash = <<>> /\ m = << <<"q">>, "long long" >>
  <2> DEFINE p == << <<"q">>, {LLNG}, 51 >>
  <2>1. p \in Modifiers
    BY Zenon DEF Modifiers
  <2>2. <<"q">> = <<>> \o <<"q">>
    OBVIOUS
  <2>3. p[1] = <<"q">> /\ m[1] = <<"q">>
    BY <1>6
  <2>4. p[2] = {LLNG} /\ p[3] = 51 /\ hash = <<>>
    BY <1>6
  <2>5. m[2] = "long long"
    BY <1>6, Zenon
  <2> HIDE DEF p
  <2>6. /\ p[2] \subseteq {SHRT, LNG, LLNG, HASH} /\ p[3] \notin {69, 70, 103, 104}
        /\ HASH \notin p[2] /\ LNG \notin p[2] /\ LLNG \in p[2] /\ SHRT \notin p[2]
    BY ONLY <2>4 DEF SHRT, LNG, LLNG, HASH
  <2>7. Given(p, hash, m)
    BY <2>4, <2>5, <2>6, Zenon DEF Given
  <2> QED BY <1>6, <2>1, <2>2, <2>3, <2>7, Zenon
<1>7. CASE hash = <<"hash">> /\ m = << <<>>, "int" >>
  <2> DEFINE p == << <<"hash">>, {HASH}, 4 >>
  <2>1. p \in Modifiers
    BY Zenon DEF Modifiers
  <2>2. <<"hash">> = <<"hash">> \o <<>>
    OBVIOUS
  <2>3. p[1] = <<"hash">> /\ m[1] = <<>>
    BY <1>7
  <2>4. p[2] = {HASH} /\ p[3] = 4 /\ hash # <<>>
    BY <1>7
  <2>5. m[2] = "int"
    BY <1>7, Zenon
  <2> HIDE DEF p
  <2>6. /\ p[2] \subseteq {SHRT, LNG, LLNG, HASH} /\ p[3] \notin {69, 70, 103, 104}
        /\ HASH \in p[2] /\ LNG \notin p[2] /\ LLNG \notin p[2] /\ SHRT \notin p[2]
    BY ONLY <2>4 DEF SHRT, LNG, LLNG, HASH
  <2>7. Given(p, hash, m)
    BY <2>4, <2>5, <2>6, Zenon DEF Given
  <2> QED BY <1>7, <2>1, <2>2, <2>3, <2>7, Zenon
<1>8. CASE hash = <<"hash">> /\ m = << <<"h">>, "short" >>
  <2> DEFINE p == << <<"hash", "h">>, {HASH, SHRT}, 48 >>
  <2>1. p \in Modifiers
    BY Zenon DEF Modifiers
  <2>2. <<"hash", "h">> = <<"hash">> \o <<"h">>
    OBVIOUS
  <2>3. p[1] = <<"hash", "h">> /\ m[1] = <<"h">>
    BY <1>8
  <2>4. p[2] = {HASH, SHRT} /\ p[3] = 48 /\ hash # <<>>
    BY <1>8
  <2>5. m[2] = "short"
    BY <1>8, Zenon
  <2> HIDE DEF p
  <2>6. /\ p[2] \subseteq {SHRT, LNG, LLNG, HASH} /\ p[3] \notin {69, 70, 103, 104}
        /\ HASH \in p[2] /\ LNG \notin p[2] /\ LLNG \notin p[2] /\ SHRT \in p[2]
    BY ONLY <2>4 DEF SHRT, LNG, LLNG, HASH
  <2>7. Given(p, hash, m)
    BY <2>4, <2>5, <2>6, Zenon DEF Given
  <2> QED BY <1>8, <2>1, <2>2, <2>3, <2>7, Zenon
<1>9. CASE hash = <<"hash">> /\ m = << <<"l">>, "long" >>
  <2> DEFINE p == << <<"hash", "l">>, {HASH, LNG}, 50 >>
  <2>1. p \in Modifiers
    BY Zenon DEF Modifiers
  <2>2. <<"hash", "l">> = <<"hash">> \o <<"l">>
    OBVIOUS
  <2>3. p[1] = <<"hash", "l">> /\ m[1] = <<"l">>
    BY <1>9
  <2>4. p[2] = {HASH, LNG} /\ p[3] = 50 /\ hash # <<>>
    BY <1>9
  <2>5. m[2] = "long"
    BY <1>9, Zenon
  <2> HIDE DEF p
  <2>6. /\ p[2] \subseteq {SHRT, LNG, LLNG, HASH} /\ p[3] \notin {69, 70, 103, 104}
        /\ HASH \in p[2] /\ LNG \in p[2] /\ LLNG \notin p[2] /\ SHRT \notin p[2]
    BY ONLY <2>4 DEF SHRT, LNG, LLNG, HASH
  <2>7. Given(p, hash, m)
    BY <2>4, <2>5, <2>6, Zenon DEF Given
  <2> QED BY <1>9, <2>1, <2>2, <2>3, <2>7, Zenon
<1>10. CASE hash = <<"hash">> /\ m = << <<"l", "l">>, "long long" >>
  <2> DEFINE p == << <<"hash", "l", "l">>, {HASH, LLNG}, 50 >>
  <2>1. p \in Modifiers
    BY Zenon DEF Modifiers
  <2>2. <<"hash", "l", "l">> = <<"hash">> \o <<"l", "l">>
    OBVIOUS
  <2>3. p[1] = <<"hash", "l", "l">> /\ m[1] = <<"l", "l">>
    BY <1>10
  <2>4. p[2] = {HASH, LLNG} /\ p[3] = 50 /\ hash # <<>>
    BY <1>10
  <2>5. m[2] = "long long"
    BY <1>10, Zenon
  <2> HIDE DEF p
  <2>6. /\ p[2] \subseteq {SHRT, LNG, LLNG, HASH} /\ p[3] \notin {69, 70, 103, 104}
        /\ HASH \in p[2] /\ LNG \notin p[2] /\ LLNG \in p[2] /\ SHRT \notin p[2]
    BY ONLY <2>4 DEF SHRT, LNG, LLNG, HASH
  <2>7. Given(p, hash, m)
    BY <2>4, <2>5, <2>6, Zenon DEF Given
  <2> QED BY <1>10, <2>1, <2>2, <2>3, <2>7, Zenon
<1>11. CASE hash = <<"hash">> /\ m = << <<"L">>, "long long" >>
  <2> DEFINE p == << <<"hash", "L">>, {HASH, LLNG}, 51 >>
  <2>1. p \in Modifiers
    BY Zenon DEF Modifiers
  <2>2. <<"hash", "L">> = <<"hash">> \o <<"L">>
    OBVIOUS
  <2>3. p[1] = <<"hash", "L">> /\ m[1] = <<"L">>
    BY <1>11
  <2>4. p[2] = {HASH, LLNG} /\ p[3] = 51 /\ hash # <<>>
    BY <1>11
  <2>5. m[2] = "long long"
    BY <1>11, Zenon
  <2> HIDE DEF p
  <2>6. /\ p[2] \subseteq {SHRT, LNG, LLNG, HASH} /\ p[3] \notin {69, 70, 103, 104}
        /\ HASH \in p[2] /\ LNG \notin p[2] /\ LLNG \in p[2] /\ SHRT \notin p[2]
    BY ONLY <2>4 DEF SHRT, LNG, LLNG, HASH
  <2>7. Given(p, hash, m)
    BY <2>4, <2>5, <2>6, Zenon DEF Given
  <2> QED BY <1>11, <2>1, <2>2, <2>3, <2>7, Zenon
<1>12. CASE hash = <<"hash">> /\ m = << <<"q">>, "long long" >>
  <2> DEFINE p == << <<"hash", "q">>, {HASH, LLNG}, 51 >>
  <2>1. p \in Modifiers
    BY Zenon DEF Modifiers
  <2>2. <<"hash", "q">> = <<"hash">> \o <<"q">>
    OBVIOUS
  <2>3. p[1] = <<"hash", "q">> /\ m[1] = <<"q">>
    BY <1>12
  <2>4. p[2] = {HASH, LLNG} /\ p[3] = 51 /\ hash # <<>>
    BY <1>12
  <2>5. m[2] = "long long"
    BY <1>12, Zenon
  <2> HIDE DEF p
  <2>6. /\ p[2] \subseteq {SHRT, LNG, LLNG, HASH} /\ p[3] \notin {69, 70, 103, 104}
        /\ HASH \in p[2] /\ LNG \notin p[2] /\ LLNG \in p[2] /\ SHRT \notin p[2]
    BY ONLY <2>4 DEF SHRT, LNG, LLNG, HASH
  <2>7. Given(p, hash, m)
    BY <2>4, <2>5, <2>6, Zenon DEF Given
  <2> QED BY <1>12, <2>1, <2>2, <2>3, <2>7, Zenon
<1> QED BY <1>1, <1>2, <1>3, <1>4, <1>5, <1>6, <1>7,
           <1>8, <1>9, <1>10, <1>11, <1>12, Zenon DEF Meant

(* The mask while an integer's format may still go on *)
MaskInv ==
    /\ format \in Seq(FormatChars) /\ readsMapped \in BOOLEAN
    /\ \E k : IsLast(k, format)
    /\ readsMapped => Begun(Recent, mask, old)
    /\ LengthAndBase

(* One more character of such a beginning gives its mask *)
LEMMA BegunStep ==
    ASSUME readsMapped, NEW r \in Seq(FormatChars), Begun(r, mask, old),
           NEW c \in FormatChars, ReadChar(c), NEW p \in Modifiers,
           IF c = "other" THEN p[1] = <<>> ELSE p[1] = Append(r, c)
    PROVE  mask' = p[2] /\ old' = p[3]
<1>1. CASE c = "other"
  <2>1. mask' = {} /\ old' = 0
    BY <1>1, ModifierRead
  <2>2. p[1] = <<>>
    BY <1>1
  <2>3. p[2] = {} /\ p[3] = 0
    BY <2>2, ModifierTexts
  <2> QED BY <2>1, <2>3
<1>2. CASE c # "other"
  <2>1. Extends(r, c, p)
    BY <1>2, ModifierExtends
  <2>2. /\ r = <<>> => mask = {} /\ old = 0
        /\ r = <<"hash">> => mask = {HASH} /\ old = 4
        /\ r = <<"l">> => mask = {LNG} /\ old = 50
        /\ r = <<"hash", "l">> => mask = {HASH, LNG} /\ old = 50
    BY BegunFacts
  <2>3. /\ c = "hash" => mask' = {HASH} /\ old' = 4
        /\ c = "h" => mask' = (mask \cap {HASH}) \cup {IF old = 48 THEN 1 ELSE SHRT} /\ old' = 48
        /\ c = "l" => mask' = (mask \cap {HASH}) \cup {IF old = 50 THEN LLNG ELSE LNG} /\ old' = 50
        /\ c \in {"L", "q"} =>
              mask' = (mask \cap {HASH}) \cup {IF old = 51 THEN 4 ELSE LLNG} /\ old' = 51
    BY ModifierRead
  <2>4. HASH = 4 /\ SHRT = 0 /\ LNG = 2 /\ LLNG = 3
    BY DEF HASH, SHRT, LNG, LLNG
  <2>5. c = "h" /\ r = <<>> => mask' = {SHRT} /\ old' = 48
    BY ONLY <2>2, <2>3, <2>4
  <2>6. c = "h" /\ r = <<"hash">> => mask' = {HASH, SHRT} /\ old' = 48
    BY ONLY <2>2, <2>3, <2>4
  <2>7. c = "l" /\ r = <<>> => mask' = {LNG} /\ old' = 50
    BY ONLY <2>2, <2>3, <2>4
  <2>8. c = "l" /\ r = <<"hash">> => mask' = {HASH, LNG} /\ old' = 50
    BY ONLY <2>2, <2>3, <2>4
  <2>9. c = "l" /\ r = <<"l">> => mask' = {LLNG} /\ old' = 50
    BY ONLY <2>2, <2>3, <2>4
  <2>10. c = "l" /\ r = <<"hash", "l">> => mask' = {HASH, LLNG} /\ old' = 50
    BY ONLY <2>2, <2>3, <2>4
  <2>11. c \in {"L", "q"} /\ r = <<>> => mask' = {LLNG} /\ old' = 51
    BY ONLY <2>2, <2>3, <2>4
  <2>12. c \in {"L", "q"} /\ r = <<"hash">> => mask' = {HASH, LLNG} /\ old' = 51
    BY ONLY <2>2, <2>3, <2>4
  <2>13. c \in {"hash", "h", "l", "L", "q"}
    BY <2>1, Zenon DEF Extends
  <2>14. CASE c = "hash"
    <3>1. p[2] = {HASH} /\ p[3] = 4
      BY <2>1, <2>14 DEF Extends
    <3> QED BY <2>3, <2>14, <3>1, Zenon
  <2>15. CASE c = "h"
    <3>1. \/ r = <<>> /\ p[2] = {SHRT} /\ p[3] = 48
          \/ r = <<"hash">> /\ p[2] = {HASH, SHRT} /\ p[3] = 48
      BY <2>1, <2>15 DEF Extends
    <3> QED BY <2>5, <2>6, <2>15, <3>1, Zenon
  <2>16. CASE c = "l"
    <3>1. \/ r = <<>> /\ p[2] = {LNG} /\ p[3] = 50
          \/ r = <<"hash">> /\ p[2] = {HASH, LNG} /\ p[3] = 50
          \/ r = <<"l">> /\ p[2] = {LLNG} /\ p[3] = 50
          \/ r = <<"hash", "l">> /\ p[2] = {HASH, LLNG} /\ p[3] = 50
      BY <2>1, <2>16 DEF Extends
    <3> QED BY <2>7, <2>8, <2>9, <2>10, <2>16, <3>1, Zenon
  <2>17. CASE c = "L" \/ c = "q"
    <3>1. \/ r = <<>> /\ p[2] = {LLNG} /\ p[3] = 51
          \/ r = <<"hash">> /\ p[2] = {HASH, LLNG} /\ p[3] = 51
      BY <2>1, <2>17 DEF Extends
    <3> QED BY <2>11, <2>12, <2>17, <3>1, Zenon
  <2> QED BY <2>13, <2>14, <2>15, <2>16, <2>17, Zenon
<1> QED BY <1>1, <1>2

(* The character of an integer behind such a beginning gives printf's      *)
(* length and base                                                         *)
LEMMA MeantStep ==
    ASSUME readsMapped, NEW hash, NEW m, NEW k \in {"i", "d", "u", "x", "o"},
           NEW p, Given(p, hash, m), mask = p[2], old = p[3], ReadChar(k)
    PROVE  /\ valInt' = m[2] /\ mask' \cap (5..8) # {}
           /\ HEX \in mask' <=> k = "x"
           /\ OCT \in mask' <=> k = "o"
           /\ HASH \in mask' <=> hash # <<>> /\ k \in {"x", "o"}
<1>1. mask \subseteq {SHRT, LNG, LLNG, HASH} /\ old \notin {69, 70, 103, 104}
  BY Zenon DEF Given
<1>2. PICK K, b : /\ mask' = (mask \cap K) \cup {b} /\ b \in 5..8
                  /\ {SHRT, LNG, LLNG} \subseteq K
                  /\ HASH \in K <=> k \in {"x", "o"}
                  /\ b = HEX <=> k = "x"
                  /\ b = OCT <=> k = "o"
  <2>1. old \notin {69, 70, 103, 104}
    BY <1>1
  <2> QED BY <2>1, TypeRead, Zenon
<1>3. /\ \A bit \in {SHRT, LNG, LLNG, HASH} : bit # b
      /\ HEX \notin mask /\ OCT \notin mask
  BY <1>1, <1>2 DEF SHRT, LNG, LLNG, HASH, HEX, OCT
<1>4. /\ SHRT \in mask' <=> SHRT \in mask
      /\ LNG \in mask' <=> LNG \in mask
      /\ LLNG \in mask' <=> LLNG \in mask
      /\ HASH \in mask' <=> HASH \in mask /\ k \in {"x", "o"}
      /\ HEX \in mask' <=> k = "x"
      /\ OCT \in mask' <=> k = "o"
      /\ b \in mask' \cap (5..8)
  BY <1>2, <1>3, Zenon
<1>5. valInt' = m[2]
  BY <1>4, Zenon DEF valInt, Given, SHRT, LNG, LLNG
<1>6. HASH \in mask <=> hash # <<>>
  BY Zenon DEF Given
<1> QED BY <1>4, <1>5, <1>6, Zenon

LEMMA ReadCharMeant ==
    ASSUME MaskInv, NEW c \in DOMAIN mapChar, ReadChar(c)
    PROVE  MaskInv'
<1>1. c \in FormatChars /\ format' = Append(format, c) /\ readsMapped' = readsMapped
  BY CharSet DEF ReadChar
<1>2. format \in Seq(FormatChars) /\ readsMapped \in BOOLEAN
  BY DEF MaskInv
<1>3. PICK k : IsLast(k, format)
  BY DEF MaskInv
<1>4. /\ \E i : IsLast(i, format')
      /\ Behind(format) \in Seq(FormatChars)
      /\ c = "other" => Behind(format') = <<>>
      /\ c # "other" => Behind(format') = Append(Behind(format), c)
  <2>1. LET g == Append(format, c)
        IN /\ \E i : IsLast(i, g)
           /\ Behind(format) \in Seq(FormatChars)
           /\ c = "other" => Behind(g) = <<>>
           /\ c # "other" => Behind(g) = Append(Behind(format), c)
    BY ONLY <1>1, <1>2, <1>3, BehindStep
  <2> QED BY <1>1, <2>1
<1>5. /\ Recent \in Seq(FormatChars)
      /\ c = "other" => Recent' = <<>>
      /\ c # "other" => Recent' = Append(Recent, c)
  <2>1. Recent' = Behind(format')
    BY RecentIsBehind DEF Recent, Start, Behind, Starts
  <2> QED BY <1>4, <2>1, RecentIsBehind
<1>6. format' \in Seq(FormatChars)
  BY <1>1, <1>2, AppendProperties
<1>7. ASSUME readsMapped, NEW p \in Modifiers, Recent' = p[1]
      PROVE  mask' = p[2] /\ old' = p[3]
  <2>1. Begun(Recent, mask, old)
    BY <1>7 DEF MaskInv
  <2>2. IF c = "other" THEN p[1] = <<>> ELSE p[1] = Append(Recent, c)
    BY <1>5, <1>7
  <2> QED BY <1>1, <1>5, <1>7, <2>1, <2>2, BegunStep
<1>8. LengthAndBase'
  <2> SUFFICES ASSUME readsMapped, NEW hash \in {<<>>, <<"hash">>}, NEW m \in Meant,
                      NEW i \in {"i", "d", "u", "x", "o"}, Recent' = hash \o m[1] \o <<i>>
               PROVE  /\ valInt' = m[2] /\ mask' \cap (5..8) # {}
                      /\ HEX \in mask' <=> i = "x"
                      /\ OCT \in mask' <=> i = "o"
                      /\ HASH \in mask' <=> hash # <<>> /\ i \in {"x", "o"}
    BY <1>1, Zenon DEF LengthAndBase, Meant, HEX, OCT, HASH
  <2>1. PICK p \in Modifiers : p[1] = hash \o m[1] /\ Given(p, hash, m)
    BY MeantBegins, Zenon
  <2>2. p[1] \in Seq(FormatChars) /\ i \in FormatChars
    BY ModifierTexts DEF FormatChars
  <2>3. Recent' = Append(p[1], i)
    BY <2>1, <2>2, AppendIsConcat
  <2>4. c # "other" /\ Recent = p[1] /\ c = i
    <3>1. Recent' # <<>>
      BY <2>2, <2>3, AppendProperties
    <3>2. Append(Recent, c) = Append(p[1], i) /\ c # "other"
      BY <1>5, <2>3, <3>1
    <3> QED BY <1>1, <1>5, <2>2, <3>2, AppendInjective
  <2>5. mask = p[2] /\ old = p[3]
    BY <2>4, Zenon DEF MaskInv, Begun
  <2>6. ReadChar(i)
    BY <2>4
  <2> QED BY <2>1, <2>5, <2>6, MeantStep, Zenon
<1> QED BY <1>1, <1>2, <1>4, <1>6, <1>7, <1>8, Zenon DEF MaskInv, Begun

(* The length, base and # of an integer's format are read as printf's,     *)
(* whatever stands in front and however long it is, if the build assigns   *)
(* to c before it reads it; nothing is said of the sign and of hh          *)
(* (v_misc.c:225-228, 256-257, 269-287).                                   *)
THEOREM LengthAndBaseRead == MaskSpec => []LengthAndBase
<1>1. MaskInit => MaskInv
  <2> SUFFICES ASSUME MaskInit PROVE MaskInv
    OBVIOUS
  <2>1. /\ mask = {} /\ old = 0 /\ format = <<>> /\ readsMapped \in BOOLEAN
    BY DEF MaskInit
  <2>2. format \in Seq(FormatChars) /\ IsLast(0, format)
    BY <2>1 DEF IsLast, Starts
  <2>3. Recent = <<>>
    <3>1. Recent \in Seq(FormatChars) /\ Len(Recent) = Len(format) - 0
      BY <2>2, BehindLast, RecentIsBehind
    <3> QED BY <2>1, <3>1, EmptySeq
  <2>4. Begun(Recent, mask, old)
    BY <2>1, <2>3, ModifierTexts DEF Begun
  <2>5. LengthAndBase
    <3> SUFFICES ASSUME NEW hash \in {<<>>, <<"hash">>}, NEW m \in Meant,
                        NEW i \in {"i", "d", "u", "x", "o"}, Recent = hash \o m[1] \o <<i>>
                 PROVE  FALSE
      BY Zenon DEF LengthAndBase
    <3>1. PICK p \in Modifiers : p[1] = hash \o m[1]
      BY MeantBegins, Zenon
    <3>2. p[1] \in Seq(FormatChars) /\ i \in FormatChars
      BY ModifierTexts DEF FormatChars
    <3>3. Recent = Append(p[1], i)
      BY <3>1, <3>2, AppendIsConcat
    <3> QED BY <2>3, <3>2, <3>3, AppendProperties
  <2> QED BY <2>1, <2>2, <2>4, <2>5, Zenon DEF MaskInv
<1>2. MaskInv /\ [MaskNext]_maskVars => MaskInv'
  <2>1. ASSUME MaskInv, UNCHANGED maskVars PROVE MaskInv'
    <3>1. UNCHANGED <<mask, old, format, readsMapped>>
      BY <2>1 DEF maskVars
    <3>2. Recent' = Recent /\ valInt' = valInt
      BY <3>1 DEF Recent, Start, valInt, SHRT, LNG, LLNG
    <3>3. LengthAndBase' <=> LengthAndBase
      BY <3>1, <3>2 DEF LengthAndBase
    <3> QED BY <2>1, <3>1, <3>2, <3>3, Zenon DEF MaskInv, Begun
  <2>2. ASSUME MaskInv, MaskNext PROVE MaskInv'
    BY <2>2, ReadCharMeant, Zenon DEF MaskNext
  <2> QED BY <2>1, <2>2
<1>3. MaskInv => LengthAndBase
  BY Zenon DEF MaskInv
<1> QED BY <1>1, <1>2, <1>3, PTL DEF MaskSpec
=============================================================================
