-------------------------- MODULE DebugPrintf_proofs --------------------------
(***************************************************************************)
(* semihosted_printf writes what its format says, on every call that suits *)
(* it and for every unsigned long of at most 32 bits.  The invariant says, *)
(* at each place of the function, how far the format, the arguments and    *)
(* the output have come: always to the same text or directive.             *)
(***************************************************************************)
EXTENDS DebugPrintf, FiniteSetTheorems, SequenceTheorems, TLAPS

\* What is left of the format from a, and of the arguments after the first k.
FormatFrom(a) ==
  format = [i \in 1..Len(call.format) - a + 1 |-> call.format[a - 1 + i]]

\* How many arguments the whole format takes.
ArgumentCount == ArgsBefore(call, Len(call.format) + 1)

ArgumentsAfter(k) ==
  vaArgP = [i \in 1..ArgumentCount - k |-> call.args[k + i]]

\* The output holds the pieces of everything before s, and n more.
Holds(out, c, s, n) ==
  /\ out = [i \in 1..Len(out) |-> out[i]]
  /\ Len(out) = PiecesBefore(c, s) + n
  /\ \A r \in Starts(c) : r < s => out[PiecesBefore(c, r) + 1] = Piece(c, r)

Written(s, n) == Holds(output, call, s, n)

\* A directive starts at s.
DirectiveAt(s) == s \in Starts(call) /\ call.format[s] = "%"

\* Between texts and directives: format, arguments and output stand at the same place.
InFormat ==
  pc = "format" =>
    \E s \in Starts(call) \union {Len(call.format) + 1} :
      FormatFrom(s) /\ ArgumentsAfter(ArgsBefore(call, s)) /\ Written(s, 0)

\* In a directive: at its first character, or at its H with the number of bytes taken.
InDirective ==
  pc = "directive" =>
    \E s \in Starts(call) :
      /\ DirectiveAt(s) /\ Written(s, 0) /\ ulCount = 0
      /\ LET k == ArgsBefore(call, s)
         IN  \/ FormatFrom(s + 1) /\ ArgumentsAfter(k) /\ ulStrlen = 0
             \/ /\ call.format[s + 1] = "."
                /\ FormatFrom(s + 3) /\ ArgumentsAfter(k + 1)
                /\ ulStrlen = call.args[k + 1]

\* A power of the base.
Power(k) == 10^k

\* The search for the highest power of ten, each further digit taken off the padding.
Searching ==
  \E k \in 0..9 :
    /\ ulIdx = Power(k)
    /\ k = 0 \/ Power(k) <= ulValue
    /\ ulCount = IF k = 0 THEN 0 ELSE ULONG - k

\* The sign and m digits of the number are in pcBuf.
DigitsOut(n) ==
  \E m \in 0..DigitCount(Magnitude(n)) :
    /\ ulIdx = IF m = DigitCount(Magnitude(n)) THEN 0 ELSE Power(DigitCount(Magnitude(n)) - m - 1)
    /\ pcBuf = [i \in 1..m + (IF n < 0 THEN 1 ELSE 0) |-> Numeral(n)[i]]

\* In a number: its directive is behind, its argument taken, its piece not written yet.
InNumber ==
  pc \in {"convert", "digits"} =>
    \E s \in Starts(call) :
      /\ DirectiveAt(s) /\ call.format[s + 1] = "d"
      /\ FormatFrom(s + 2) /\ ArgumentsAfter(ArgsBefore(call, s) + 1) /\ Written(s, 0)
      /\ LET n == call.args[ArgsBefore(call, s) + 1]
         IN  /\ ulValue = Magnitude(n) /\ ulNeg = (n < 0)
             /\ pc = "convert" => Searching /\ pcBuf = <<>>
             /\ pc = "digits" => DigitsOut(n)

\* In the bytes: the last piece has the first ulCount of them.
InBytes ==
  pc = "bytes" =>
    \E s \in Starts(call) :
      /\ DirectiveAt(s) /\ call.format[s + 1] = "."
      /\ FormatFrom(s + 4) /\ ArgumentsAfter(ArgsBefore(call, s) + 2) /\ Written(s, 1)
      /\ ulIdx = call.args[ArgsBefore(call, s) + 1]
      /\ pcStr = call.args[ArgsBefore(call, s) + 2]
      /\ ulCount <= ulIdx
      /\ output[Len(output)] = <<"bytes", Hexadecimal(pcStr, ulCount)>>

\* The inductive invariant.
IInv ==
  /\ call \in Calls /\ TypeOK
  /\ InFormat /\ InDirective /\ InNumber /\ InBytes /\ MeaningWritten

-----------------------------------------------------------------------------
(***************************************************************************)
(* Numbers of an unsigned long.                                            *)
(***************************************************************************)

\* Ten digits are enough.
LEMMA WidthOfULONG == ULONG \in Nat /\ ULONG > 256 /\ ULONG < 10000000000
<1>1. ULONG \in Nat /\ ULONG > 256 /\ ULONG \div 65536 <= 65536
  BY ULONGAssumption
<1>2. ULONG < 10000000000
  BY <1>1
<1> QED
  BY <1>1, <1>2

\* What unsigned arithmetic leaves is in the width; a value in the width is left alone.
LEMMA WrapType == \A x \in Int : x % ULONG \in 0..ULONG - 1
BY WidthOfULONG

LEMMA WrapSmall == \A x \in 0..ULONG - 1 : x % ULONG = x
BY WidthOfULONG

\* Wrapping makes no natural number larger.
LEMMA WrapBelow == \A x \in Nat : x % ULONG <= x
BY WidthOfULONG

\* Below zero the count wraps.
LEMMA WrapMinusOne == (0 - 1) % ULONG = ULONG - 1
BY WidthOfULONG

\* The powers of ten, one by one.
LEMMA PowerSteps ==
  /\ Power(0) = 1 /\ Power(9) = 1000000000
  /\ \A k \in 0..9 : Power(k) \in Nat /\ Power(k) > 0
  /\ \A k \in 0..8 : Power(k + 1) = 10 * Power(k)
<1>1. Power(0) = 1 /\ Power(1) = 10 /\ Power(2) = 100
  BY DEF Power
<1>2. Power(3) = 1000 /\ Power(4) = 10000
  BY DEF Power
<1>3. Power(5) = 100000
  BY DEF Power
<1>4. Power(6) = 1000000
  BY DEF Power
<1>5. Power(7) = 10000000
  BY DEF Power
<1>6. Power(8) = 100000000
  BY DEF Power
<1>7. Power(9) = 1000000000
  BY DEF Power
<1>8. \A k \in 0..9 : Power(k) \in Nat /\ Power(k) > 0
  <2> TAKE k \in 0..9
  <2>1. \/ k = 0 \/ k = 1 \/ k = 2 \/ k = 3 \/ k = 4
        \/ k = 5 \/ k = 6 \/ k = 7 \/ k = 8 \/ k = 9
    OBVIOUS
  <2> QED
    BY <2>1, <1>1, <1>2, <1>3, <1>4, <1>5, <1>6, <1>7
<1>9. \A k \in 0..8 : Power(k + 1) = 10 * Power(k)
  <2> TAKE k \in 0..8
  <2>1. k \in 0..3 \/ k = 4 \/ k = 5 \/ k = 6 \/ k = 7 \/ k = 8
    OBVIOUS
  <2>2. CASE k \in 0..3
    BY <2>2, <1>1, <1>2
  <2>3. CASE k = 4
    BY <2>3, <1>2, <1>3
  <2>4. CASE k = 5
    BY <2>4, <1>3, <1>4
  <2>5. CASE k = 6
    BY <2>5, <1>4, <1>5
  <2>6. CASE k = 7
    BY <2>6, <1>5, <1>6
  <2>7. CASE k = 8
    BY <2>7, <1>6, <1>7
  <2> QED
    BY <2>1, <2>2, <2>3, <2>4, <2>5, <2>6, <2>7
<1> QED
  BY <1>1, <1>7, <1>8, <1>9

\* A greater exponent, a power at least as great.
LEMMA PowerMonotone ==
  \A j, k \in 0..9 : j <= k => Power(j) <= Power(k)
<1>1. \A i \in 0..9 : Power(i) \in Nat
  BY PowerSteps
<1>2. \A i \in 0..8 : Power(i) <= Power(i + 1)
  <2> TAKE i \in 0..8
  <2>1. Power(i) \in Nat /\ Power(i + 1) = 10 * Power(i)
    BY PowerSteps
  <2> QED
    BY <2>1
<1>3. Power(0) <= Power(1) /\ Power(1) <= Power(2)
  BY <1>2
<1>4. Power(2) <= Power(3) /\ Power(3) <= Power(4)
  BY <1>2
<1>5. Power(4) <= Power(5) /\ Power(5) <= Power(6)
  BY <1>2
<1>6. Power(6) <= Power(7) /\ Power(7) <= Power(8)
  BY <1>2
<1>7. Power(8) <= Power(9)
  BY <1>2
<1> QED
  BY <1>1, <1>3, <1>4, <1>5, <1>6, <1>7

\* There are k numbers from 1 to k.
LEMMA CountTo ==
  ASSUME NEW k \in Nat
  PROVE  IsFiniteSet(1..k) /\ Cardinality(1..k) = k
<1>1. /\ IsFiniteSet(1..k)
      /\ Cardinality(1..k) = IF 1 > k THEN 0 ELSE k - 1 + 1
  BY FS_Interval
<1> QED
  BY <1>1

\* A number from 10^k on and below the next power has k + 1 digits.
LEMMA DigitCountIs ==
  ASSUME NEW n \in Nat, NEW k \in 0..9, k = 0 \/ Power(k) <= n,
         k < 9 => n < Power(k + 1)
  PROVE  DigitCount(n) = k + 1
<1>1. \A j \in 1..9 : Power(j) <= n <=> j <= k
  <2> TAKE j \in 1..9
  <2>1. CASE j <= k
    <3>1. Power(j) <= Power(k)
      BY <2>1, PowerMonotone
    <3>2. Power(j) \in Nat /\ Power(k) \in Nat
      BY PowerSteps
    <3> QED
      BY <2>1, <3>1, <3>2
  <2>2. CASE j > k
    <3>1. k + 1 \in 0..9 /\ k + 1 <= j /\ k < 9
      BY <2>2
    <3>2. Power(k + 1) <= Power(j)
      BY <3>1, PowerMonotone
    <3>3. Power(j) \in Nat /\ Power(k + 1) \in Nat
      BY <3>1, PowerSteps
    <3> QED
      BY <2>2, <3>1, <3>2, <3>3
  <2> QED
    BY <2>1, <2>2
<1> DEFINE S == {j \in 1..9 : Power(j) <= n}
<1>2. S = 1..k
  BY <1>1
<1>3. Cardinality(1..k) = k
  BY CountTo
<1>4. DigitCount(n) = 1 + Cardinality(S)
  BY DEF DigitCount, Power
<1> HIDE DEF S
<1> QED
  BY <1>2, <1>3, <1>4

\* A number has at least a digit and at most ten.
LEMMA DigitCountType == \A n \in Nat : DigitCount(n) \in 1..10
<1> TAKE n \in Nat
<1> DEFINE S == {j \in 1..9 : Power(j) <= n}
<1>1. IsFiniteSet(1..9) /\ Cardinality(1..9) = 9
  <2>1. PICK k \in Nat : k = 9
    OBVIOUS
  <2>2. IsFiniteSet(1..k) /\ Cardinality(1..k) = k
    BY CountTo
  <2> QED
    BY <2>1, <2>2
<1>2. S \in SUBSET (1..9)
  OBVIOUS
<1>3. DigitCount(n) = 1 + Cardinality(S)
  BY DEF DigitCount, Power
<1> HIDE DEF S
<1>4. IsFiniteSet(S) /\ Cardinality(S) <= Cardinality(1..9)
  BY <1>1, <1>2, FS_Subset
<1>5. Cardinality(S) \in Nat
  BY <1>4, FS_CardinalityType
<1> QED
  BY <1>1, <1>3, <1>4, <1>5

-----------------------------------------------------------------------------
(***************************************************************************)
(* Where texts and directives start, and what is before them.              *)
(***************************************************************************)

\* What a call that suits the function is made of.
LEMMA CallFormat ==
  ASSUME NEW c \in Calls
  PROVE  /\ c.format \in Seq(STRING) /\ Len(c.format) \in Nat
         /\ \A s \in 1..Len(c.format) : c.format[s] = "%" =>
              \/ s + 1 <= Len(c.format) /\ c.format[s + 1] = "d"
              \/ /\ s + 3 <= Len(c.format) /\ c.format[s + 1] = "."
                 /\ c.format[s + 2] = "*" /\ c.format[s + 3] = "H"
         /\ \A s \in Starts(c) :
              s < Len(c.format) => c.format[s] = "%" \/ c.format[s + 1] = "%"
         /\ c.args = [k \in 1..ArgsBefore(c, Len(c.format) + 1) |-> c.args[k]]
<1>1. Suits(c)
  BY CallsAssumption
<1>2. c.format \in Seq(STRING)
  BY <1>1 DEF Suits
<1>3. Len(c.format) \in Nat
  BY <1>2
<1>4. \A s \in 1..Len(c.format) : c.format[s] = "%" =>
        \/ s + 1 <= Len(c.format) /\ c.format[s + 1] = "d"
        \/ /\ s + 3 <= Len(c.format) /\ c.format[s + 1] = "."
           /\ c.format[s + 2] = "*" /\ c.format[s + 3] = "H"
  BY <1>1 DEF Suits
<1>5. \A s \in Starts(c) :
        s < Len(c.format) => c.format[s] = "%" \/ c.format[s + 1] = "%"
  BY <1>1 DEF Suits
<1>6. c.args = [k \in 1..ArgsBefore(c, Len(c.format) + 1) |-> c.args[k]]
  BY <1>1 DEF Suits
<1> QED
  BY <1>2, <1>3, <1>4, <1>5, <1>6

\* The arguments of a directive.
LEMMA CallArguments ==
  ASSUME NEW c \in Calls, NEW s \in Starts(c), c.format[s] = "%"
  PROVE  LET k == ArgsBefore(c, s) + 1
         IN  /\ c.format[s + 1] = "d" =>
                  c.args[k] \in 1 - ULONG \div 2..ULONG \div 2 - 1
             /\ c.format[s + 1] # "d" =>
                  /\ c.args[k] \in 0..ULONG - 1
                  /\ c.args[k + 1] \in Seq(0..255)
                  /\ Len(c.args[k + 1]) >= c.args[k]
<1> DEFINE first == [r \in Starts(c) |-> ArgsBefore(c, r) + 1]
<1>1. Suits(c)
  BY CallsAssumption
<1>2. IF c.format[s + 1] = "d"
      THEN c.args[first[s]] \in 1 - ULONG \div 2..ULONG \div 2 - 1
      ELSE /\ c.args[first[s]] \in 0..ULONG - 1
           /\ c.args[first[s] + 1] \in Seq(0..255)
           /\ Len(c.args[first[s] + 1]) >= c.args[first[s]]
  BY <1>1 DEF Suits
<1>3. first[s] = ArgsBefore(c, s) + 1
  OBVIOUS
<1> HIDE DEF first
<1> QED
  BY <1>2, <1>3

\* The tokens of a text or of a directive.
LEMMA Spans ==
  ASSUME NEW c \in Calls, NEW s \in Starts(c)
  PROVE  /\ s \in 1..Len(c.format) /\ Len(c.format) \in Nat
         /\ c.format[s] # "%" => Length(c, s) = 1
         /\ c.format[s] = "%" =>
              \/ /\ c.format[s + 1] = "d" /\ Length(c, s) = 2 /\ s + 1 <= Len(c.format)
              \/ /\ c.format[s + 1] = "." /\ c.format[s + 2] = "*"
                 /\ c.format[s + 3] = "H" /\ Length(c, s) = 4 /\ s + 3 <= Len(c.format)
<1>1. s \in 1..Len(c.format) /\ Len(c.format) \in Nat
  BY CallFormat DEF Starts
<1>2. CASE c.format[s] # "%"
  BY <1>1, <1>2 DEF Length
<1>3. CASE c.format[s] = "%"
  <2>1. \/ s + 1 <= Len(c.format) /\ c.format[s + 1] = "d"
        \/ /\ s + 3 <= Len(c.format) /\ c.format[s + 1] = "."
           /\ c.format[s + 2] = "*" /\ c.format[s + 3] = "H"
    BY <1>1, <1>3, CallFormat
  <2>2. CASE s + 1 <= Len(c.format) /\ c.format[s + 1] = "d"
    BY <1>1, <1>3, <2>2 DEF Length
  <2>3. CASE /\ s + 3 <= Len(c.format) /\ c.format[s + 1] = "."
             /\ c.format[s + 2] = "*" /\ c.format[s + 3] = "H"
    <3> "." # "d"
      OBVIOUS
    <3> QED
      BY <1>1, <1>3, <2>3 DEF Length
  <2> QED
    BY <2>1, <2>2, <2>3
<1> QED
  BY <1>2, <1>3

\* Inside of a directive there is no other one.
LEMMA NothingInside ==
  ASSUME NEW c \in Calls, NEW s \in Starts(c), NEW r \in Int,
         s < r, r < s + Length(c, s)
  PROVE  c.format[s] = "%" /\ c.format[r] # "%" /\ r \notin Starts(c)
<1>1. s \in 1..Len(c.format)
  BY Spans
<1>2. c.format[s] = "%"
  BY <1>1, Spans
<1>3. c.format[r] # "%"
  <2>1. CASE c.format[s + 1] = "d" /\ Length(c, s) = 2
    <3> r = s + 1
      BY <1>1, <2>1
    <3> QED
      BY <2>1
  <2>2. CASE /\ c.format[s + 1] = "." /\ c.format[s + 2] = "*" /\ c.format[s + 3] = "H"
             /\ Length(c, s) = 4
    <3> r = s + 1 \/ r = s + 2 \/ r = s + 3
      BY <1>1, <2>2
    <3> QED
      BY <2>2
  <2> QED
    BY <1>2, <2>1, <2>2, Spans
<1>4. r \notin Starts(c)
  <2> SUFFICES ASSUME r \in Starts(c) PROVE FALSE
    OBVIOUS
  <2>1. \A q \in 1..r - 1 : c.format[q] = "%" => r >= q + Length(c, q)
    BY DEF Starts
  <2>2. s \in 1..r - 1
    BY <1>1
  <2>3. r >= s + Length(c, s)
    BY <2>1, <2>2, <1>2
  <2>4. Length(c, s) \in Int
    BY DEF Length
  <2> QED
    BY <1>1, <2>3, <2>4
<1> QED
  BY <1>2, <1>3, <1>4

\* After a text or a directive there is another one, or the end.
LEMMA NextStart ==
  ASSUME NEW c \in Calls, NEW s \in Starts(c)
  PROVE  /\ Length(c, s) \in {1, 2, 4}
         /\ s + Length(c, s) \in Starts(c) \union {Len(c.format) + 1}
         /\ {r \in Starts(c) : r < s + Length(c, s)} = {r \in Starts(c) : r < s} \union {s}
<1> DEFINE n == Len(c.format)
           t == s + Length(c, s)
<1>1. s \in 1..n /\ n \in Nat /\ Length(c, s) \in {1, 2, 4} /\ t <= n + 1
  <2>1. s \in 1..n /\ n \in Nat
    BY Spans
  <2>2. CASE c.format[s] # "%"
    BY <2>1, <2>2, Spans
  <2>3. CASE c.format[s] = "%"
    BY <2>1, <2>3, Spans
  <2> QED
    BY <2>2, <2>3
<1>2. t \in Int /\ t > s
  BY <1>1
<1>3. ASSUME t # n + 1
      PROVE  t \in Starts(c)
  <2>1. t \in 1..n
    BY <1>1, <1>2, <1>3
  <2>2. ASSUME NEW r \in 1..t - 1, c.format[r] = "%"
        PROVE  t >= r + Length(c, r)
    <3>1. CASE r < s
      <4>1. s >= r + Length(c, r)
        <5> r \in 1..s - 1
          BY <3>1, <1>1
        <5> QED
          BY <2>2 DEF Starts
      <4>2. Length(c, r) \in Int
        BY DEF Length
      <4> QED
        BY <1>1, <1>2, <4>1, <4>2
    <3>2. CASE r = s
      BY <1>1, <1>2, <3>2
    <3>3. CASE r > s
      <4> r \in Int /\ r < s + Length(c, s)
        BY <1>2
      <4> QED
        BY <3>3, <2>2, NothingInside
    <3> QED
      BY <3>1, <3>2, <3>3, <1>1
  <2> QED
    BY <2>1, <2>2 DEF Starts
<1>4. ASSUME NEW r \in Starts(c)
      PROVE  r < t <=> r < s \/ r = s
  <2>1. r \in Int
    BY DEF Starts
  <2>2. ~(s < r /\ r < t)
    BY <2>1, NothingInside
  <2> QED
    BY <1>1, <1>2, <2>1, <2>2
<1> HIDE DEF t
<1>5. {r \in Starts(c) : r < t} = {r \in Starts(c) : r < s} \union {s}
  BY <1>4
<1> QED
  BY <1>1, <1>3, <1>5 DEF t

\* How many pieces there are before a text or a directive.
LEMMA PiecesCount ==
  ASSUME NEW c \in Calls, NEW s
  PROVE  /\ IsFiniteSet({r \in Starts(c) : r < s})
         /\ PiecesBefore(c, s) \in Nat
<1>1. Len(c.format) \in Nat
  BY CallFormat
<1>2. IsFiniteSet(1..Len(c.format))
  BY <1>1, CountTo
<1> DEFINE S == {r \in Starts(c) : r < s}
<1>3. S \in SUBSET (1..Len(c.format))
  BY DEF Starts
<1>4. PiecesBefore(c, s) = Cardinality(S)
  BY DEF PiecesBefore
<1> HIDE DEF S
<1>5. IsFiniteSet(S)
  BY <1>2, <1>3, FS_Subset
<1>6. Cardinality(S) \in Nat
  BY <1>5, FS_CardinalityType
<1> QED
  BY <1>4, <1>5, <1>6 DEF S

\* The next text or directive has one piece more before it.
LEMMA PiecesNext ==
  ASSUME NEW c \in Calls, NEW s \in Starts(c)
  PROVE  PiecesBefore(c, s + Length(c, s)) = PiecesBefore(c, s) + 1
<1> DEFINE S == {r \in Starts(c) : r < s}
           T == {r \in Starts(c) : r < s + Length(c, s)}
<1>1. IsFiniteSet(S)
  BY PiecesCount
<1>2. T = S \union {s}
  BY NextStart
<1>3. s \notin S
  <2> s \in Int
    BY DEF Starts
  <2> QED
    OBVIOUS
<1>4. PiecesBefore(c, s) = Cardinality(S) /\ PiecesBefore(c, s + Length(c, s)) = Cardinality(T)
  BY DEF PiecesBefore
<1> HIDE DEF S, T
<1>5. Cardinality(S \union {s}) = Cardinality(S) + 1
  BY <1>1, <1>3, FS_AddElement
<1> QED
  BY <1>2, <1>4, <1>5

\* An earlier text or directive has an earlier piece.
LEMMA PiecesOrder ==
  ASSUME NEW c \in Calls, NEW r \in Starts(c), NEW s \in Int, r < s
  PROVE  PiecesBefore(c, r) + 1 <= PiecesBefore(c, s)
<1> DEFINE S == {q \in Starts(c) : q < r + Length(c, r)}
           T == {q \in Starts(c) : q < s}
<1>1. IsFiniteSet(T)
  BY PiecesCount
<1>2. S = {q \in Starts(c) : q < r} \union {r}
  BY NextStart
<1>3. \A q \in Starts(c) : q \in Int
  BY DEF Starts
<1>4. S \in SUBSET T
  <2> SUFFICES ASSUME NEW q \in S PROVE q \in T
    OBVIOUS
  <2>1. q \in Starts(c) /\ (q < r \/ q = r)
    BY <1>2
  <2> QED
    BY <1>3, <2>1
<1>5. PiecesBefore(c, r) + 1 = Cardinality(S) /\ PiecesBefore(c, s) = Cardinality(T)
  BY PiecesNext DEF PiecesBefore
<1> HIDE DEF S, T
<1>6. Cardinality(S) <= Cardinality(T)
  BY <1>1, <1>4, FS_Subset
<1> QED
  BY <1>5, <1>6

\* Nothing is before the first one; everything is before the end.
LEMMA PiecesEnds ==
  ASSUME NEW c \in Calls
  PROVE  /\ PiecesBefore(c, 1) = 0
         /\ PiecesBefore(c, Len(c.format) + 1) = Cardinality(Starts(c))
         /\ 1 \in Starts(c) \union {Len(c.format) + 1}
<1>1. Len(c.format) \in Nat
  BY CallFormat
<1>2. \A r \in Starts(c) : r \in 1..Len(c.format)
  BY DEF Starts
<1>3. {r \in Starts(c) : r < 1} = {}
  BY <1>2
<1>4. {r \in Starts(c) : r < Len(c.format) + 1} = Starts(c)
  BY <1>1, <1>2
<1>5. 1 \in Starts(c) \union {Len(c.format) + 1}
  <2>1. CASE Len(c.format) = 0
    BY <2>1
  <2>2. CASE Len(c.format) # 0
    <3> 1 \in 1..Len(c.format) /\ 1..(1 - 1) = {}
      BY <1>1, <2>2
    <3> QED
      BY DEF Starts
  <2> QED
    BY <2>1, <2>2
<1>6. Cardinality({}) = 0
  BY FS_EmptySet
<1>7. PiecesBefore(c, 1) = 0
  BY <1>3, <1>6 DEF PiecesBefore
<1>8. PiecesBefore(c, Len(c.format) + 1) = Cardinality(Starts(c))
  BY <1>4 DEF PiecesBefore
<1> QED
  BY <1>5, <1>7, <1>8

\* The token at r takes an argument.
Takes(c, r) ==
  \/ c.format[r] = "%"
  \/ r > 1 /\ c.format[r - 1] = "%" /\ c.format[r] = "."

\* The arguments taken before a token are counted.
LEMMA ArgsCount ==
  ASSUME NEW c, NEW s \in Nat
  PROVE  /\ IsFiniteSet({r \in 1..s - 1 : Takes(c, r)})
         /\ ArgsBefore(c, s) = Cardinality({r \in 1..s - 1 : Takes(c, r)})
         /\ ArgsBefore(c, s) \in Nat
<1> DEFINE S == {r \in 1..s - 1 : Takes(c, r)}
<1>1. PICK k \in Nat : 1..s - 1 = 1..k
  <2>1. CASE s = 0
    <3> 1..s - 1 = 1..0
      BY <2>1
    <3> QED
      OBVIOUS
  <2>2. CASE s # 0
    <3> s - 1 \in Nat
      BY <2>2
    <3> QED
      OBVIOUS
  <2> QED
    BY <2>1, <2>2
<1>2. IsFiniteSet(1..s - 1)
  BY <1>1, CountTo
<1>3. S \in SUBSET (1..s - 1)
  OBVIOUS
<1>4. ArgsBefore(c, s) = Cardinality(S)
  BY DEF ArgsBefore, Takes
<1> HIDE DEF S
<1>5. IsFiniteSet(S)
  BY <1>2, <1>3, FS_Subset
<1>6. Cardinality(S) \in Nat
  BY <1>5, FS_CardinalityType
<1> QED
  BY <1>4, <1>5, <1>6 DEF S

\* One token further: an argument more if the token takes one.
LEMMA ArgsStep ==
  ASSUME NEW c, NEW s \in Nat, s > 0
  PROVE  ArgsBefore(c, s + 1) = ArgsBefore(c, s) + IF Takes(c, s) THEN 1 ELSE 0
<1> DEFINE S == {r \in 1..s - 1 : Takes(c, r)}
           T == {r \in 1..(s + 1) - 1 : Takes(c, r)}
<1>1. IsFiniteSet(S) /\ ArgsBefore(c, s) = Cardinality(S) /\ Cardinality(S) \in Nat
  BY ArgsCount
<1>2. ArgsBefore(c, s + 1) = Cardinality(T)
  <2> s + 1 \in Nat
    OBVIOUS
  <2> QED
    BY ArgsCount
<1>3. 1..(s + 1) - 1 = (1..s - 1) \union {s} /\ s \notin 1..s - 1
  OBVIOUS
<1>4. CASE Takes(c, s)
  <2>1. T = S \union {s} /\ s \notin S
    BY <1>3, <1>4
  <2> HIDE DEF S, T
  <2>2. Cardinality(S \union {s}) = Cardinality(S) + 1
    BY <1>1, <2>1, FS_AddElement
  <2> QED
    BY <1>1, <1>2, <1>4, <2>1, <2>2
<1>5. CASE ~Takes(c, s)
  <2>1. T = S
    BY <1>3, <1>5
  <2> HIDE DEF S, T
  <2> QED
    BY <1>1, <1>2, <1>5, <2>1
<1> QED
  BY <1>4, <1>5

\* A text takes no argument, a number one, bytes two.
LEMMA ArgsNext ==
  ASSUME NEW c \in Calls, NEW s \in Starts(c)
  PROVE  /\ ArgsBefore(c, s) \in Nat
         /\ c.format[s] # "%" => ArgsBefore(c, s + 1) = ArgsBefore(c, s)
         /\ c.format[s] = "%" /\ c.format[s + 1] = "d" =>
              ArgsBefore(c, s + 2) = ArgsBefore(c, s) + 1
         /\ c.format[s] = "%" /\ c.format[s + 1] = "." =>
              ArgsBefore(c, s + 4) = ArgsBefore(c, s) + 2
<1>1. s \in Nat /\ s > 0 /\ ArgsBefore(c, s) \in Nat
  <2>1. s \in Nat /\ s > 0
    BY DEF Starts
  <2> QED
    BY <2>1, ArgsCount
<1>2. ArgsBefore(c, s + 1) = ArgsBefore(c, s) + IF Takes(c, s) THEN 1 ELSE 0
  BY <1>1, ArgsStep
<1>3. CASE c.format[s] # "%"
  <2>1. ~Takes(c, s)
    <3> SUFFICES ASSUME Takes(c, s) PROVE FALSE
      OBVIOUS
    <3>1. s > 1 /\ c.format[s - 1] = "%" /\ c.format[s] = "."
      BY <1>3 DEF Takes
    <3>2. s >= (s - 1) + Length(c, s - 1)
      <4>1. s - 1 \in 1..s - 1
        BY <1>1, <3>1
      <4> QED
        BY <3>1, <4>1 DEF Starts
    <3>3. Length(c, s - 1) \in {2, 4}
      BY <3>1 DEF Length
    <3> QED
      BY <1>1, <3>2, <3>3
  <2> QED
    BY <1>1, <1>2, <1>3, <2>1
<1>4. CASE c.format[s] = "%"
  <2>1. Takes(c, s)
    BY <1>4 DEF Takes
  <2>2. ArgsBefore(c, s + 1) = ArgsBefore(c, s) + 1
    BY <1>2, <2>1
  <2>3. s + 1 \in Nat /\ s + 1 > 0 /\ (s + 1) - 1 = s /\ (s + 1) + 1 = s + 2
    BY <1>1
  <2>4. ArgsBefore(c, s + 2) = ArgsBefore(c, s + 1) + IF Takes(c, s + 1) THEN 1 ELSE 0
    <3>1. ArgsBefore(c, (s + 1) + 1)
            = ArgsBefore(c, s + 1) + IF Takes(c, s + 1) THEN 1 ELSE 0
      BY <2>3, ArgsStep
    <3> QED
      BY <2>3, <3>1
  <2>5. CASE c.format[s + 1] = "d"
    <3>1. ~Takes(c, s + 1)
      BY <2>5 DEF Takes
    <3> QED
      BY <1>1, <1>4, <2>2, <2>4, <2>5, <3>1
  <2>6. CASE c.format[s + 1] = "."
    <3>1. Takes(c, s + 1)
      BY <1>1, <1>4, <2>3, <2>6 DEF Takes
    <3>2. c.format[s + 2] = "*" /\ c.format[s + 3] = "H"
      <4> "." # "d"
        OBVIOUS
      <4> QED
        BY <1>4, <2>6, Spans
    <3>3. ~Takes(c, s + 2)
      BY <3>2 DEF Takes
    <3>4. ~Takes(c, s + 3)
      BY <3>2 DEF Takes
    <3>5. ArgsBefore(c, s + 3) = ArgsBefore(c, s + 2)
      <4>1. s + 2 \in Nat /\ s + 2 > 0 /\ (s + 2) + 1 = s + 3
        BY <1>1
      <4>2. ArgsBefore(c, s + 2) \in Nat
        BY <4>1, ArgsCount
      <4>3. ArgsBefore(c, (s + 2) + 1) = ArgsBefore(c, s + 2) + 0
        BY <4>1, <3>3, ArgsStep
      <4> QED
        BY <4>1, <4>2, <4>3
    <3>6. ArgsBefore(c, s + 4) = ArgsBefore(c, s + 3)
      <4>1. s + 3 \in Nat /\ s + 3 > 0 /\ (s + 3) + 1 = s + 4
        BY <1>1
      <4>2. ArgsBefore(c, s + 3) \in Nat
        BY <4>1, ArgsCount
      <4>3. ArgsBefore(c, (s + 3) + 1) = ArgsBefore(c, s + 3) + 0
        BY <4>1, <3>4, ArgsStep
      <4> QED
        BY <4>1, <4>2, <4>3
    <3> QED
      BY <1>1, <1>4, <2>2, <2>4, <2>6, <3>1, <3>5, <3>6
  <2> QED
    BY <1>1, <1>4, <2>5, <2>6
<1> QED
  BY <1>1, <1>3, <1>4

\* There are as many arguments as are taken.
LEMMA ArgsLimit ==
  ASSUME NEW c \in Calls, NEW s \in Nat, s <= Len(c.format) + 1
  PROVE  /\ ArgsBefore(c, s) <= ArgsBefore(c, Len(c.format) + 1)
         /\ ArgsBefore(c, s) \in Nat
         /\ ArgsBefore(c, Len(c.format) + 1) \in Nat
<1> DEFINE e == Len(c.format) + 1
           S == {r \in 1..s - 1 : Takes(c, r)}
           T == {r \in 1..e - 1 : Takes(c, r)}
<1>1. e \in Nat /\ s <= e
  BY CallFormat
<1>2. ArgsBefore(c, s) = Cardinality(S) /\ ArgsBefore(c, s) \in Nat
  BY ArgsCount
<1> HIDE DEF e
<1>3. /\ IsFiniteSet(T) /\ ArgsBefore(c, e) = Cardinality(T)
      /\ ArgsBefore(c, e) \in Nat
  BY <1>1, ArgsCount
<1>4. S \in SUBSET T
  BY <1>1
<1> HIDE DEF S, T
<1>5. Cardinality(S) <= Cardinality(T)
  BY <1>3, <1>4, FS_Subset
<1> QED
  BY <1>2, <1>3, <1>5 DEF e

\* No argument is taken before the first token.
LEMMA NoArgsAtFirst ==
  ASSUME NEW c
  PROVE  ArgsBefore(c, 1) = 0
<1>1. {r \in 1..1 - 1 : Takes(c, r)} = {}
  OBVIOUS
<1>2. Cardinality({}) = 0
  BY FS_EmptySet
<1>3. PICK s \in Nat : s = 1
  OBVIOUS
<1>4. ArgsBefore(c, s) = Cardinality({r \in 1..s - 1 : Takes(c, r)})
  BY ArgsCount
<1> QED
  BY <1>1, <1>2, <1>3, <1>4

-----------------------------------------------------------------------------
(***************************************************************************)
(* What is left of the format and of the arguments.                        *)
(***************************************************************************)

\* What is left of the format from a: its tokens, and what is left of it later.
LEMMA FormatLeft ==
  ASSUME call \in Calls, NEW a \in Nat, a > 0, a <= Len(call.format) + 1, FormatFrom(a)
  PROVE  /\ Len(format) = Len(call.format) - a + 1
         /\ format = <<>> <=> a = Len(call.format) + 1
         /\ \A i \in 1..Len(format) : format[i] = call.format[a - 1 + i]
         /\ \A i \in Nat : i > 0 /\ a + i - 1 <= Len(call.format) + 1 =>
              SubSeq(format, i, Len(format))
                = [j \in 1..Len(call.format) - (a + i - 1) + 1
                     |-> call.format[(a + i - 1) - 1 + j]]
<1> DEFINE n == Len(call.format)
           m == n - a + 1
<1>1. n \in Nat /\ m \in Nat
  BY CallFormat
<1> HIDE DEF n
<1>2. format = [i \in 1..m |-> call.format[a - 1 + i]]
  BY DEF FormatFrom, n
<1>3. Len(format) = m
  BY <1>1, <1>2
<1>4. \A i \in 1..m : format[i] = call.format[a - 1 + i]
  BY <1>2
<1>5. format = <<>> <=> m = 0
  BY <1>1, <1>2, <1>3
<1>6. ASSUME NEW i \in Nat, i > 0, a + i - 1 <= n + 1
      PROVE  SubSeq(format, i, m)
               = [j \in 1..n - (a + i - 1) + 1 |-> call.format[(a + i - 1) - 1 + j]]
  <2>1. SubSeq(format, i, m) = [j \in 1..m - i + 1 |-> format[i + j - 1]]
    BY <1>1
  <2>2. m - i + 1 = n - (a + i - 1) + 1
    BY <1>1
  <2>3. \A j \in 1..m - i + 1 : format[i + j - 1] = call.format[(a + i - 1) - 1 + j]
    <3> TAKE j \in 1..m - i + 1
    <3>1. i + j - 1 \in 1..m
      BY <1>1, <1>6
    <3>2. a - 1 + (i + j - 1) = (a + i - 1) - 1 + j
      BY <1>1
    <3> QED
      BY <1>4, <3>1, <3>2
  <2> QED
    BY <2>1, <2>2, <2>3
<1>7. Len(format) = n - a + 1 /\ (format = <<>> <=> a = n + 1)
  BY <1>1, <1>3, <1>5
<1> QED
  BY <1>3, <1>4, <1>6, <1>7 DEF n

\* There is a number of arguments.
LEMMA ArgumentCountType ==
  ASSUME call \in Calls
  PROVE  ArgumentCount \in Nat
<1>1. Len(call.format) + 1 \in Nat
  BY CallFormat
<1> QED
  BY <1>1, ArgsCount DEF ArgumentCount

\* The next argument, and what is left after it.
LEMMA ArgumentsLeft ==
  ASSUME call \in Calls, NEW k \in Nat, k < ArgumentCount, ArgumentsAfter(k)
  PROVE  /\ Head(vaArgP) = call.args[k + 1]
         /\ Tail(vaArgP) = [i \in 1..ArgumentCount - (k + 1) |-> call.args[(k + 1) + i]]
<1> DEFINE m == ArgumentCount - k
<1>1. ArgumentCount \in Nat /\ m \in Nat /\ m > 0
  <2>1. ArgumentCount \in Nat
    BY ArgumentCountType
  <2> QED
    BY <2>1
<1>2. vaArgP = [i \in 1..m |-> call.args[k + i]]
  BY DEF ArgumentsAfter
<1>3. Len(vaArgP) = m
  BY <1>1, <1>2
<1>4. Head(vaArgP) = vaArgP[1]
  BY <1>1, <1>2, <1>3
<1>5. vaArgP[1] = call.args[k + 1]
  <2> 1 \in 1..m
    BY <1>1
  <2> QED
    BY <1>2
<1>6. Tail(vaArgP) = [i \in 1..m - 1 |-> vaArgP[i + 1]]
  BY <1>1, <1>2, <1>3
<1>7. \A i \in 1..m - 1 : vaArgP[i + 1] = call.args[(k + 1) + i]
  <2> TAKE i \in 1..m - 1
  <2>1. i + 1 \in 1..m /\ k + (i + 1) = (k + 1) + i
    BY <1>1
  <2> QED
    BY <1>2, <2>1
<1>8. m - 1 = ArgumentCount - (k + 1)
  BY <1>1
<1> QED
  BY <1>4, <1>5, <1>6, <1>7, <1>8

\* The text up to a directive that starts where the format is.
LEMMA NoText ==
  ASSUME call \in Calls, NEW s \in Starts(call), FormatFrom(s), call.format[s] = "%"
  PROVE  TextLength = 0 /\ Len(format) > 0
<1>1. s \in 1..Len(call.format) /\ Len(call.format) \in Nat
  BY Spans
<1>2. Len(format) = Len(call.format) - s + 1
  BY <1>1, FormatLeft
<1>3. Len(format) \in Nat /\ Len(format) > 0
  BY <1>1, <1>2
<1>4. format[1] = "%"
  <2>1. 1 \in 1..Len(format)
    BY <1>3
  <2>2. format[1] = call.format[s - 1 + 1]
    BY <1>1, <2>1, FormatLeft
  <2>3. s - 1 + 1 = s
    BY <1>1
  <2> QED
    BY <2>2, <2>3
<1> DEFINE P(n) == /\ \A i \in 1..n : format[i] # "%"
                   /\ n = Len(format) \/ format[n + 1] = "%"
<1>5. P(0)
  BY <1>4
<1>6. \A n \in 0..Len(format) : P(n) => n = 0
  BY <1>3, <1>4
<1>7. 0 \in 0..Len(format)
  BY <1>3
<1>8. TextLength = CHOOSE n \in 0..Len(format) : P(n)
  BY DEF TextLength
<1> HIDE DEF P
<1> QED
  BY <1>3, <1>5, <1>6, <1>7, <1>8

\* The text that starts where the format is: one token, up to a directive or the end.
LEMMA OneText ==
  ASSUME call \in Calls, NEW s \in Starts(call), FormatFrom(s), call.format[s] # "%"
  PROVE  TextLength = 1 /\ Len(format) > 0
<1>1. s \in 1..Len(call.format) /\ Len(call.format) \in Nat
  BY Spans
<1>2. Len(format) = Len(call.format) - s + 1
  BY <1>1, FormatLeft
<1>3. Len(format) \in Nat /\ Len(format) > 0
  BY <1>1, <1>2
<1>4. format[1] # "%"
  <2>1. 1 \in 1..Len(format)
    BY <1>3
  <2>2. format[1] = call.format[s - 1 + 1]
    BY <1>1, <2>1, FormatLeft
  <2>3. s - 1 + 1 = s
    BY <1>1
  <2> QED
    BY <2>2, <2>3
<1>5. ASSUME Len(format) # 1
      PROVE  format[2] = "%"
  <2>1. 2 \in 1..Len(format) /\ s < Len(call.format)
    BY <1>1, <1>2, <1>3, <1>5
  <2>2. format[2] = call.format[s - 1 + 2]
    BY <1>1, <2>1, FormatLeft
  <2>3. s - 1 + 2 = s + 1
    BY <1>1
  <2>4. call.format[s + 1] = "%"
    BY <2>1, CallFormat
  <2> QED
    BY <2>2, <2>3, <2>4
<1> DEFINE P(n) == /\ \A i \in 1..n : format[i] # "%"
                   /\ n = Len(format) \/ format[n + 1] = "%"
<1>6. P(1)
  BY <1>4, <1>5
<1>7. \A n \in 0..Len(format) : P(n) => n = 1
  <2> TAKE n \in 0..Len(format)
  <2>1. n = 0 => ~P(n)
    BY <1>3, <1>4
  <2>2. n > 1 => ~P(n)
    <3> SUFFICES ASSUME n > 1, P(n) PROVE FALSE
      OBVIOUS
    <3>1. 2 \in 1..n /\ Len(format) # 1
      BY <1>3
    <3> QED
      BY <1>5, <3>1
  <2> QED
    BY <1>3, <2>1, <2>2
<1>8. 1 \in 0..Len(format)
  BY <1>3
<1>9. TextLength = CHOOSE n \in 0..Len(format) : P(n)
  BY DEF TextLength
<1> HIDE DEF P
<1> QED
  BY <1>3, <1>6, <1>7, <1>8, <1>9

-----------------------------------------------------------------------------
(***************************************************************************)
(* The output and the characters of a number.                              *)
(***************************************************************************)

\* Appending leaves what was there.
LEMMA Appended ==
  ASSUME NEW q, Len(q) \in Nat, q = [i \in 1..Len(q) |-> q[i]], NEW x
  PROVE  LET p == Append(q, x)
         IN  /\ Len(p) = Len(q) + 1
             /\ p = [i \in 1..Len(p) |-> p[i]]
             /\ p[Len(p)] = x
             /\ \A i \in 1..Len(q) : p[i] = q[i]
<1> DEFINE S == {q[i] : i \in 1..Len(q)} \union {x}
           n == Len(q)
<1>1. q \in [1..n -> S]
  OBVIOUS
<1>2. q \in Seq(S) /\ x \in S
  BY <1>1
<1> HIDE DEF S
<1>3. Append(q, x) \in Seq(S) /\ Len(Append(q, x)) = n + 1
  BY <1>2
<1>4. Append(q, x)[n + 1] = x
  BY <1>2
<1>5. \A i \in 1..n : Append(q, x)[i] = q[i]
  BY <1>2
<1> DEFINE p == Append(q, x)
<1> HIDE DEF p
<1>6. p \in [1..Len(p) -> S]
  <2> p \in Seq(S)
    BY <1>3 DEF p
  <2> QED
    OBVIOUS
<1>7. p = [i \in 1..Len(p) |-> p[i]]
  BY <1>6
<1> QED
  BY <1>3, <1>4, <1>5, <1>7 DEF p

\* A piece appended is one more than there are before s.
LEMMA OnePiece ==
  ASSUME NEW c \in Calls, NEW s \in Int, NEW out, Holds(out, c, s, 0), NEW x
  PROVE  Holds(Append(out, x), c, s, 1) /\ Append(out, x)[Len(Append(out, x))] = x
<1> DEFINE p == Append(out, x)
<1>1. /\ Len(out) \in Nat /\ out = [i \in 1..Len(out) |-> out[i]]
      /\ Len(out) = PiecesBefore(c, s)
  <2>1. PiecesBefore(c, s) \in Nat
    BY PiecesCount
  <2>2. out = [i \in 1..Len(out) |-> out[i]]
    BY DEF Holds
  <2>3. Len(out) = PiecesBefore(c, s) + 0
    BY DEF Holds
  <2> QED
    BY <2>1, <2>2, <2>3
<1>2. /\ Len(p) = Len(out) + 1
      /\ p = [i \in 1..Len(p) |-> p[i]]
      /\ p[Len(p)] = x
      /\ \A i \in 1..Len(out) : p[i] = out[i]
  BY <1>1, Appended
<1> HIDE DEF p
<1>3. ASSUME NEW r \in Starts(c), r < s
      PROVE  p[PiecesBefore(c, r) + 1] = Piece(c, r)
  <2>1. PiecesBefore(c, r) \in Nat /\ PiecesBefore(c, r) + 1 <= PiecesBefore(c, s)
    BY <1>3, PiecesCount, PiecesOrder
  <2>2. PiecesBefore(c, r) + 1 \in 1..Len(out)
    BY <1>1, <2>1
  <2>3. out[PiecesBefore(c, r) + 1] = Piece(c, r)
    BY <1>3 DEF Holds
  <2> QED
    BY <1>2, <2>2, <2>3
<1>4. Len(p) = PiecesBefore(c, s) + 1
  BY <1>1, <1>2
<1>5. Holds(p, c, s, 1)
  BY <1>2, <1>3, <1>4 DEF Holds
<1> QED
  BY <1>2, <1>5 DEF p

\* When the last piece is the one of s, what is before the next one is written.
LEMMA WholePiece ==
  ASSUME NEW c \in Calls, NEW s \in Starts(c), NEW out, Holds(out, c, s, 1),
         out[Len(out)] = Piece(c, s)
  PROVE  Holds(out, c, s + Length(c, s), 0)
<1> DEFINE t == s + Length(c, s)
<1>1. PiecesBefore(c, t) = PiecesBefore(c, s) + 1 /\ PiecesBefore(c, s) \in Nat
  BY PiecesNext, PiecesCount
<1>2. \A r \in Starts(c) : r < t => r < s \/ r = s
  BY NextStart
<1> HIDE DEF t
<1>3. Len(out) = PiecesBefore(c, t) + 0
  BY <1>1 DEF Holds
<1>4. ASSUME NEW r \in Starts(c), r < t
      PROVE  out[PiecesBefore(c, r) + 1] = Piece(c, r)
  <2>1. CASE r < s
    BY <2>1 DEF Holds
  <2>2. CASE r = s
    <3> Len(out) = PiecesBefore(c, s) + 1
      BY DEF Holds
    <3> QED
      BY <2>2
  <2> QED
    BY <1>2, <1>4, <2>1, <2>2
<1>5. out = [i \in 1..Len(out) |-> out[i]]
  BY DEF Holds
<1>6. Holds(out, c, t, 0)
  BY <1>3, <1>4, <1>5 DEF Holds
<1> QED
  BY <1>6 DEF t

\* The characters of a number: the sign, then the digits.
LEMMA NumeralForm ==
  ASSUME NEW n \in Int
  PROVE  LET d    == DigitCount(Magnitude(n))
             sign == IF n < 0 THEN 1 ELSE 0
         IN  /\ Magnitude(n) \in Nat /\ d \in 1..10
             /\ Numeral(n) = [i \in 1..d + sign |-> Numeral(n)[i]]
             /\ n < 0 => Numeral(n)[1] = Minus
             /\ \A j \in 1..d :
                  Numeral(n)[j + sign] = (Magnitude(n) \div Power(d - j)) % 10
<1> DEFINE v == Magnitude(n)
           d == DigitCount(v)
<1>1. v \in Nat
  BY DEF Magnitude
<1>2. d \in 1..10
  BY <1>1, DigitCountType
<1>3. Digits(v) = [i \in 1..d |-> (v \div Power(d - i)) % 10]
  BY DEF Digits, Power
<1>4. CASE n < 0
  <2>1. v = -n
    BY <1>4 DEF Magnitude
  <2>2. Numeral(n) = [i \in 1..d + 1 |-> IF i = 1 THEN Minus ELSE Digits(v)[i - 1]]
    BY <1>4, <2>1 DEF Numeral
  <2> HIDE DEF v, d
  <2>3. Numeral(n) = [i \in 1..d + 1 |-> Numeral(n)[i]]
    BY <2>2
  <2>4. 1 \in 1..d + 1
    BY <1>2
  <2>5. Numeral(n)[1] = Minus
    BY <2>2, <2>4
  <2>6. ASSUME NEW j \in 1..d
        PROVE  Numeral(n)[j + 1] = (v \div Power(d - j)) % 10
    <3>1. j + 1 \in 1..d + 1 /\ j + 1 # 1 /\ (j + 1) - 1 = j
      BY <1>2
    <3>2. Numeral(n)[j + 1] = Digits(v)[j]
      BY <2>2, <3>1
    <3> QED
      BY <1>3, <3>2
  <2>7. (IF n < 0 THEN 1 ELSE 0) = 1
    BY <1>4
  <2> QED
    BY <1>1, <1>2, <2>3, <2>5, <2>6, <2>7 DEF v, d
<1>5. CASE ~(n < 0)
  <2>1. v = n
    BY <1>5 DEF Magnitude
  <2>2. Numeral(n) = Digits(v)
    BY <1>5, <2>1 DEF Numeral
  <2> HIDE DEF v, d
  <2>3. (IF n < 0 THEN 1 ELSE 0) = 0
    BY <1>5
  <2>4. d + 0 = d /\ \A j \in 1..d : j + 0 = j
    BY <1>2
  <2>5. Numeral(n) = [i \in 1..d + 0 |-> Numeral(n)[i]]
    BY <1>3, <2>2, <2>4
  <2>6. \A j \in 1..d : Numeral(n)[j + 0] = (v \div Power(d - j)) % 10
    BY <1>3, <2>2, <2>4
  <2> QED
    BY <1>1, <1>2, <1>5, <2>3, <2>5, <2>6 DEF v, d
<1> QED
  BY <1>4, <1>5

\* The search for the highest power goes on exactly while the next power is no greater
\* than the number: a product that wrapped does not divide back.
LEMMA NextPowerExact ==
  ASSUME NEW v \in 0..ULONG - 1, NEW p \in Nat
  PROVE  LET product == (p * 10) % ULONG
         IN  product <= v /\ product \div 10 = p <=> 10 * p <= v
<1> DEFINE x == p * 10
           product == x % ULONG
<1>1. ULONG \in Nat /\ x \in Nat /\ x = 10 * p
  BY WidthOfULONG
<1>2. product \in 0..ULONG - 1 /\ product <= x
  <2> HIDE DEF x
  <2>1. x % ULONG \in 0..ULONG - 1
    BY <1>1, WrapType
  <2>2. x % ULONG <= x
    BY <1>1, WrapBelow
  <2> QED
    BY <2>1, <2>2
<1>3. ASSUME 10 * p <= v
      PROVE  product <= v /\ product \div 10 = p
  <2>1. x \in 0..ULONG - 1
    BY <1>1, <1>3
  <2> HIDE DEF x
  <2>2. x % ULONG = x
    BY <2>1, WrapSmall
  <2>3. (10 * p) \div 10 = p
    OBVIOUS
  <2> QED
    BY <1>1, <1>3, <2>2, <2>3
<1> HIDE DEF product
<1>4. ASSUME product <= v, product \div 10 = p
      PROVE  10 * p <= v
  <2>1. 10 * p <= product
    BY <1>1, <1>2, <1>4
  <2> QED
    BY <1>1, <1>2, <1>4, <2>1
<1> QED
  BY <1>3, <1>4 DEF product

-----------------------------------------------------------------------------
(***************************************************************************)
(* The invariant: the beginning, and the text of the format.               *)
(***************************************************************************)

\* At the beginning nothing is written or taken.
LEMMA Initially == Init => IInv
<1> SUFFICES ASSUME Init PROVE IInv
  OBVIOUS
<1>1. call \in Calls /\ pc = "format" /\ format = call.format /\ vaArgP = call.args
  BY DEF Init
<1>2. TypeOK
  <2>1. 0 \in 0..ULONG - 1
    BY WidthOfULONG
  <2>2. ulCount = 0 /\ ulValue = 0 /\ ulIdx = 0 /\ ulStrlen = 0 /\ ulNeg = FALSE
    BY DEF Init
  <2>3. {ulCount, ulValue, ulIdx, ulStrlen} \subseteq 0..ULONG - 1
    BY <2>1, <2>2
  <2>4. pcBuf = <<>> /\ Len(<<>>) <= BufferSize
    BY DEF Init, BufferSize
  <2> QED
    BY <1>1, <2>2, <2>3, <2>4 DEF TypeOK
<1>3. InFormat
  <2> DEFINE n == Len(call.format)
  <2>1. n \in Nat /\ 1 \in Starts(call) \union {n + 1}
    BY <1>1, CallFormat, PiecesEnds
  <2>2. FormatFrom(1)
    <3>1. call.format \in Seq(STRING)
      BY <1>1, CallFormat
    <3>2. format = [i \in 1..n |-> call.format[i]]
      BY <1>1, <3>1
    <3>3. n - 1 + 1 = n
      BY <2>1
    <3>4. \A i \in 1..n : 1 - 1 + i = i
      BY <2>1
    <3> QED
      BY <3>2, <3>3, <3>4 DEF FormatFrom
  <2>3. ArgsBefore(call, 1) = 0
    BY NoArgsAtFirst
  <2>4. ArgumentsAfter(0)
    <3>1. call.args = [k \in 1..ArgumentCount |-> call.args[k]]
      BY <1>1, CallFormat DEF ArgumentCount
    <3>2. ArgumentCount \in Nat
      BY <1>1, ArgumentCountType
    <3>3. ArgumentCount - 0 = ArgumentCount /\ \A i \in 1..ArgumentCount : 0 + i = i
      BY <3>2
    <3> QED
      BY <1>1, <3>1, <3>3 DEF ArgumentsAfter
  <2>5. Written(1, 0)
    <3>1. output = <<>> /\ PiecesBefore(call, 1) = 0
      BY <1>1, PiecesEnds DEF Init
    <3>2. Len(output) = PiecesBefore(call, 1) + 0 /\ output = [i \in 1..Len(output) |-> output[i]]
      BY <3>1
    <3>3. \A r \in Starts(call) : ~(r < 1)
      BY DEF Starts
    <3> QED
      BY <3>2, <3>3 DEF Written, Holds
  <2> QED
    BY <2>1, <2>2, <2>3, <2>4, <2>5 DEF InFormat
<1>4. InDirective /\ InNumber /\ InBytes /\ MeaningWritten
  BY <1>1 DEF InDirective, InNumber, InBytes, MeaningWritten
<1> QED
  BY <1>1, <1>2, <1>3, <1>4 DEF IInv

\* The text that comes first is written, if there is one: on to the end of the format, or
\* into the directive that follows.
LEMMA TextStep == IInv /\ WriteText => IInv'
<1> SUFFICES ASSUME IInv, WriteText PROVE IInv'
  OBVIOUS
<1> DEFINE n == Len(call.format)
<1>1. call \in Calls /\ call' = call /\ pc = "format" /\ format # <<>>
      /\ vaArgP' = vaArgP
  BY DEF IInv, WriteText
<1>2. n \in Nat
  BY <1>1, CallFormat
<1>3. PICK s \in Starts(call) \union {n + 1} :
        FormatFrom(s) /\ ArgumentsAfter(ArgsBefore(call, s)) /\ Written(s, 0)
  BY <1>1 DEF IInv, InFormat
<1>4. s \in Starts(call) /\ s \in 1..n
  <2>1. s # n + 1
    <3> SUFFICES ASSUME s = n + 1 PROVE FALSE
      OBVIOUS
    <3> format = <<>>
      BY <1>1, <1>2, <1>3, FormatLeft
    <3> QED
      BY <1>1
  <2> QED
    BY <1>3, <2>1 DEF Starts
<1>5. /\ Len(format) = n - s + 1
      /\ \A i \in 1..Len(format) : format[i] = call.format[s - 1 + i]
      /\ \A i \in Nat : i > 0 /\ s + i - 1 <= n + 1 =>
           SubSeq(format, i, Len(format))
             = [j \in 1..n - (s + i - 1) + 1 |-> call.format[(s + i - 1) - 1 + j]]
  BY <1>1, <1>2, <1>3, <1>4, FormatLeft
<1>6. /\ output' = IF SubSeq(format, 1, TextLength) = <<>> THEN output
                   ELSE Append(output, <<"text", SubSeq(format, 1, TextLength)>>)
      /\ IF TextLength = Len(format)
         THEN pc' = "format" /\ UNCHANGED <<ulCount, ulStrlen>>
         ELSE pc' = "directive" /\ ulCount' = 0 /\ ulStrlen' = 0
      /\ format' = SubSeq(format, TextLength + 2, Len(format))
      /\ UNCHANGED <<numberVars, pcStr>>
  BY DEF WriteText, Prints
<1>7. TypeOK'
  BY <1>6, ULONGAssumption DEF IInv, TypeOK, numberVars
<1>8. CASE call.format[s] = "%"
  <2>1. TextLength = 0 /\ Len(format) > 0
    BY <1>1, <1>3, <1>4, <1>8, NoText
  <2>2. SubSeq(format, 1, 0) = <<>>
    OBVIOUS
  <2>3. output' = output /\ pc' = "directive" /\ ulCount' = 0 /\ ulStrlen' = 0
        /\ format' = SubSeq(format, 2, Len(format))
    BY <1>6, <2>1, <2>2
  <2>4. FormatFrom(s + 1)'
    <3>1. 2 \in Nat /\ 2 > 0 /\ s + 2 - 1 <= n + 1 /\ s + 2 - 1 = s + 1
      BY <1>2, <1>4
    <3>2. SubSeq(format, 2, Len(format))
            = [j \in 1..n - (s + 2 - 1) + 1 |-> call.format[(s + 2 - 1) - 1 + j]]
      BY <1>5, <3>1
    <3> QED
      BY <1>1, <2>3, <3>1, <3>2 DEF FormatFrom
  <2>5. Written(s, 0)' /\ ArgumentsAfter(ArgsBefore(call, s))'
    BY <1>1, <1>3, <2>3 DEF Written, ArgumentsAfter, ArgumentCount
  <2>6. DirectiveAt(s)'
    BY <1>1, <1>4, <1>8 DEF DirectiveAt
  <2>7. InDirective'
    BY <1>1, <1>4, <2>3, <2>4, <2>5, <2>6 DEF InDirective
  <2>8. InFormat' /\ InNumber' /\ InBytes' /\ MeaningWritten'
    BY <2>3 DEF InFormat, InNumber, InBytes, MeaningWritten
  <2> QED
    BY <1>1, <1>7, <2>7, <2>8 DEF IInv
<1>9. CASE call.format[s] # "%"
  <2> DEFINE t == s + 1
             x == <<"text", <<call.format[s]>>>>
  <2>1. TextLength = 1 /\ Len(format) > 0
    BY <1>1, <1>3, <1>4, <1>9, OneText
  <2>2. SubSeq(format, 1, 1) = <<call.format[s]>>
    <3>1. 1 \in 1..Len(format) /\ s - 1 + 1 = s
      BY <1>4, <1>5, <2>1
    <3>2. format[1] = call.format[s]
      BY <1>5, <3>1
    <3>3. SubSeq(format, 1, 1) = [i \in 1..1 - 1 + 1 |-> format[i + 1 - 1]]
      OBVIOUS
    <3>4. 1..1 - 1 + 1 = {1} /\ \A i \in {1} : i + 1 - 1 = 1
      OBVIOUS
    <3>5. SubSeq(format, 1, 1) = [i \in {1} |-> call.format[s]]
      BY <3>2, <3>3, <3>4
    <3>6. <<call.format[s]>> = [i \in {1} |-> call.format[s]]
      OBVIOUS
    <3> QED
      BY <3>5, <3>6
  <2>3. output' = Append(output, x) /\ format' = SubSeq(format, 3, Len(format))
    <3>1. SubSeq(format, 1, TextLength) = <<call.format[s]>>
      BY <2>1, <2>2
    <3>2. <<call.format[s]>> # <<>>
      OBVIOUS
    <3>3. output' = Append(output, <<"text", SubSeq(format, 1, TextLength)>>)
      BY <1>6, <3>1, <3>2
    <3>4. TextLength + 2 = 3
      BY <2>1
    <3> QED
      BY <1>6, <3>1, <3>3, <3>4
  <2>4. Written(t, 0)'
    <3>1. x = Piece(call, s)
      BY <1>9 DEF Piece
    <3>2. /\ Holds(Append(output, x), call, s, 1)
          /\ Append(output, x)[Len(Append(output, x))] = x
      BY <1>1, <1>3, <1>4, OnePiece DEF Written
    <3>3. s + Length(call, s) = t
      BY <1>9 DEF Length
    <3>4. Holds(Append(output, x), call, t, 0)
      BY <1>1, <1>4, <3>1, <3>2, <3>3, WholePiece
    <3> QED
      BY <1>1, <2>3, <3>4 DEF Written
  <2>5. ArgumentsAfter(ArgsBefore(call, t))'
    <3> ArgsBefore(call, t) = ArgsBefore(call, s)
      BY <1>1, <1>4, <1>9, ArgsNext
    <3> QED
      BY <1>1, <1>3 DEF ArgumentsAfter, ArgumentCount
  <2>6. CASE t = n + 1
    <3>1. Len(format) = 1 /\ pc' = "format"
      BY <1>2, <1>4, <1>5, <1>6, <2>1, <2>6
    <3>2. FormatFrom(t)'
      <4>1. format' = SubSeq(format, 3, 1)
        BY <2>3, <3>1
      <4>2. format' = <<>>
        BY <4>1
      <4>3. n - t + 1 = 0 /\ 1..0 = {}
        BY <1>2, <2>6
      <4>4. [i \in 1..n - t + 1 |-> call.format[t - 1 + i]] = <<>>
        BY <4>3
      <4> QED
        BY <1>1, <4>2, <4>4 DEF FormatFrom
    <3>3. InFormat'
      BY <1>1, <2>4, <2>5, <2>6, <3>2 DEF InFormat
    <3>4. InDirective' /\ InNumber' /\ InBytes' /\ MeaningWritten'
      BY <3>1 DEF InDirective, InNumber, InBytes, MeaningWritten
    <3> QED
      BY <1>1, <1>7, <3>3, <3>4 DEF IInv
  <2>7. CASE t # n + 1
    <3>1. t \in Starts(call) /\ t <= n /\ s < n
      <4>1. Length(call, s) = 1
        BY <1>9 DEF Length
      <4>2. t \in Starts(call) \union {n + 1}
        BY <1>1, <1>4, <4>1, NextStart
      <4> QED
        BY <1>2, <1>4, <2>7, <4>2
    <3>2. call.format[t] = "%"
      BY <1>1, <1>4, <1>9, <3>1, CallFormat
    <3>3. Len(format) # 1
      BY <1>2, <1>4, <1>5, <2>7
    <3>4. pc' = "directive" /\ ulCount' = 0 /\ ulStrlen' = 0
      BY <1>6, <2>1, <3>3
    <3>5. FormatFrom(t + 1)'
      <4>1. 3 \in Nat /\ 3 > 0 /\ s + 3 - 1 <= n + 1 /\ s + 3 - 1 = t + 1
        BY <1>2, <1>4, <3>1
      <4>2. SubSeq(format, 3, Len(format))
              = [j \in 1..n - (s + 3 - 1) + 1 |-> call.format[(s + 3 - 1) - 1 + j]]
        BY <1>5, <4>1
      <4> QED
        BY <1>1, <2>3, <4>1, <4>2 DEF FormatFrom
    <3>6. DirectiveAt(t)'
      BY <1>1, <3>1, <3>2 DEF DirectiveAt
    <3> HIDE DEF t
    <3>7. InDirective'
      BY <1>1, <2>4, <2>5, <3>1, <3>4, <3>5, <3>6 DEF InDirective
    <3>8. InFormat' /\ InNumber' /\ InBytes' /\ MeaningWritten'
      BY <3>4 DEF InFormat, InNumber, InBytes, MeaningWritten
    <3> QED
      BY <1>1, <1>7, <3>7, <3>8 DEF IInv
  <2> QED
    BY <2>6, <2>7
<1> QED
  BY <1>8, <1>9

-----------------------------------------------------------------------------
(***************************************************************************)
(* The invariant: the characters of a directive.                           *)
(***************************************************************************)

\* The next character of the format.
LEMMA NextCharacter ==
  ASSUME call \in Calls, NEW a \in Nat, a > 0, a <= Len(call.format), FormatFrom(a)
  PROVE  /\ Head(format) = call.format[a]
         /\ Tail(format) = [j \in 1..Len(call.format) - (a + 1) + 1
                              |-> call.format[(a + 1) - 1 + j]]
<1> DEFINE n == Len(call.format)
           m == n - a + 1
<1>1. n \in Nat /\ m \in Nat /\ m > 0
  BY CallFormat
<1>2. format = [i \in 1..m |-> call.format[a - 1 + i]]
  BY DEF FormatFrom
<1> HIDE DEF n
<1>3. Len(format) = m
  BY <1>1, <1>2
<1>4. Head(format) = format[1]
  BY <1>1, <1>2, <1>3
<1>5. format[1] = call.format[a]
  <2> 1 \in 1..m /\ a - 1 + 1 = a
    BY <1>1
  <2> QED
    BY <1>2
<1>6. Tail(format) = [i \in 1..m - 1 |-> format[i + 1]]
  BY <1>1, <1>2, <1>3
<1>7. \A i \in 1..m - 1 : format[i + 1] = call.format[(a + 1) - 1 + i]
  <2> TAKE i \in 1..m - 1
  <2>1. i + 1 \in 1..m /\ a - 1 + (i + 1) = (a + 1) - 1 + i
    BY <1>1
  <2> QED
    BY <1>2, <2>1
<1>8. m - 1 = n - (a + 1) + 1
  BY <1>1
<1>9. Tail(format) = [j \in 1..n - (a + 1) + 1 |-> call.format[(a + 1) - 1 + j]]
  BY <1>6, <1>7, <1>8
<1> QED
  BY <1>4, <1>5, <1>9 DEF n

\* Where the function is in a directive: at its first character, or at the H of %.*H.
LEMMA InsideDirective ==
  ASSUME IInv, pc = "directive"
  PROVE  \E s \in Starts(call) :
           /\ DirectiveAt(s) /\ Written(s, 0) /\ ulCount = 0
           /\ \/ /\ Head(format) = "d" /\ call.format[s + 1] = "d" /\ s + 1 <= Len(call.format)
                 /\ FormatFrom(s + 1) /\ ArgumentsAfter(ArgsBefore(call, s))
              \/ /\ Head(format) = "." /\ call.format[s + 1] = "." /\ s + 3 <= Len(call.format)
                 /\ FormatFrom(s + 1) /\ ArgumentsAfter(ArgsBefore(call, s))
              \/ /\ Head(format) = "H" /\ call.format[s + 1] = "." /\ s + 3 <= Len(call.format)
                 /\ FormatFrom(s + 3) /\ ArgumentsAfter(ArgsBefore(call, s) + 1)
                 /\ ulStrlen = call.args[ArgsBefore(call, s) + 1]
<1>1. call \in Calls
  BY DEF IInv
<1>2. PICK s \in Starts(call) :
        /\ DirectiveAt(s) /\ Written(s, 0) /\ ulCount = 0
        /\ \/ /\ FormatFrom(s + 1) /\ ArgumentsAfter(ArgsBefore(call, s))
              /\ ulStrlen = 0
           \/ /\ call.format[s + 1] = "."
              /\ FormatFrom(s + 3) /\ ArgumentsAfter(ArgsBefore(call, s) + 1)
              /\ ulStrlen = call.args[ArgsBefore(call, s) + 1]
  BY DEF IInv, InDirective
<1>3. /\ s \in 1..Len(call.format) /\ Len(call.format) \in Nat
      /\ \/ call.format[s + 1] = "d" /\ s + 1 <= Len(call.format)
         \/ /\ call.format[s + 1] = "." /\ call.format[s + 3] = "H"
            /\ s + 3 <= Len(call.format)
  <2>1. call.format[s] = "%"
    BY <1>2 DEF DirectiveAt
  <2> QED
    BY <1>1, <2>1, Spans
<1>4. CASE FormatFrom(s + 1) /\ ArgumentsAfter(ArgsBefore(call, s))
  <2>1. s + 1 \in Nat /\ s + 1 > 0 /\ s + 1 <= Len(call.format)
    BY <1>3
  <2>2. Head(format) = call.format[s + 1]
    BY <1>1, <1>4, <2>1, NextCharacter
  <2> QED
    BY <1>2, <1>3, <1>4, <2>2
<1>5. CASE /\ call.format[s + 1] = "."
           /\ FormatFrom(s + 3) /\ ArgumentsAfter(ArgsBefore(call, s) + 1)
           /\ ulStrlen = call.args[ArgsBefore(call, s) + 1]
  <2>1. s + 3 <= Len(call.format) /\ call.format[s + 3] = "H"
    <3> "." # "d"
      OBVIOUS
    <3> QED
      BY <1>3, <1>5
  <2>2. s + 3 \in Nat /\ s + 3 > 0
    BY <1>3
  <2>3. Head(format) = call.format[s + 3]
    BY <1>1, <1>5, <2>1, <2>2, NextCharacter
  <2> QED
    BY <1>2, <1>5, <2>1, <2>3
<1> QED
  BY <1>2, <1>4, <1>5

\* The arguments that a directive takes are there.
LEMMA ArgumentsThere ==
  ASSUME call \in Calls, NEW s \in Starts(call), call.format[s] = "%"
  PROVE  /\ ArgsBefore(call, s) \in Nat /\ ArgumentCount \in Nat
         /\ ArgsBefore(call, s) < ArgumentCount
         /\ call.format[s + 1] = "." => ArgsBefore(call, s) + 1 < ArgumentCount
<1>1. s \in 1..Len(call.format) /\ Len(call.format) \in Nat
  BY Spans
<1>2. ArgsBefore(call, s) \in Nat /\ ArgumentCount \in Nat
  BY ArgsNext, ArgumentCountType
<1>3. CASE call.format[s + 1] = "d" /\ s + 1 <= Len(call.format)
  <2>1. ArgsBefore(call, s + 2) = ArgsBefore(call, s) + 1
    BY <1>3, ArgsNext
  <2>2. s + 2 \in Nat /\ s + 2 <= Len(call.format) + 1
    BY <1>1, <1>3
  <2>3. ArgsBefore(call, s + 2) <= ArgumentCount
    BY <2>2, ArgsLimit DEF ArgumentCount
  <2>4. call.format[s + 1] # "."
    BY <1>3
  <2> QED
    BY <1>2, <2>1, <2>3, <2>4
<1>4. CASE call.format[s + 1] = "." /\ s + 3 <= Len(call.format)
  <2>1. ArgsBefore(call, s + 4) = ArgsBefore(call, s) + 2
    BY <1>4, ArgsNext
  <2>2. s + 4 \in Nat /\ s + 4 <= Len(call.format) + 1
    BY <1>1, <1>4
  <2>3. ArgsBefore(call, s + 4) <= ArgumentCount
    BY <2>2, ArgsLimit DEF ArgumentCount
  <2> QED
    BY <1>2, <2>1, <2>3
<1> QED
  BY <1>3, <1>4, Spans

\* %d: the search begins at one.
LEMMA NumberStep == IInv /\ TakeNumber => IInv'
<1> SUFFICES ASSUME IInv, TakeNumber PROVE IInv'
  OBVIOUS
<1>1. /\ call \in Calls /\ call' = call /\ pc = "directive" /\ Head(format) = "d"
      /\ vaArgP' = Tail(vaArgP) /\ format' = Tail(format)
      /\ ulNeg' = (Head(vaArgP) < 0) /\ ulValue' = Magnitude(Head(vaArgP))
      /\ ulIdx' = 1 /\ pcBuf' = <<>> /\ pc' = "convert"
      /\ output' = output /\ ulCount' = ulCount /\ ulStrlen' = ulStrlen
  BY DEF IInv, TakeNumber, Take, bytesVars
<1>2. PICK s \in Starts(call) :
        /\ DirectiveAt(s) /\ Written(s, 0) /\ ulCount = 0
        /\ call.format[s + 1] = "d" /\ s + 1 <= Len(call.format)
        /\ FormatFrom(s + 1) /\ ArgumentsAfter(ArgsBefore(call, s))
  BY <1>1, InsideDirective
<1> DEFINE k == ArgsBefore(call, s)
           v == call.args[k + 1]
<1>3. s \in 1..Len(call.format) /\ Len(call.format) \in Nat /\ call.format[s] = "%"
  BY <1>1, <1>2, Spans DEF DirectiveAt
<1>4. k \in Nat /\ k < ArgumentCount
  BY <1>1, <1>3, ArgumentsThere
<1>5. Head(vaArgP) = v /\ ArgumentsAfter(k + 1)'
  <2>1. /\ Head(vaArgP) = v
        /\ Tail(vaArgP) = [i \in 1..ArgumentCount - (k + 1) |-> call.args[(k + 1) + i]]
    BY <1>1, <1>2, <1>4, ArgumentsLeft
  <2> QED
    BY <1>1, <2>1 DEF ArgumentsAfter, ArgumentCount
<1>6. FormatFrom(s + 2)'
  <2>1. s + 1 \in Nat /\ s + 1 > 0 /\ (s + 1) + 1 = s + 2
    BY <1>3
  <2>2. Tail(format) = [j \in 1..Len(call.format) - ((s + 1) + 1) + 1
                          |-> call.format[((s + 1) + 1) - 1 + j]]
    BY <1>1, <1>2, <2>1, NextCharacter
  <2> QED
    BY <1>1, <2>1, <2>2 DEF FormatFrom
<1>7. v \in 1 - ULONG \div 2..ULONG \div 2 - 1
  BY <1>1, <1>2, <1>3, CallArguments
<1>8. Magnitude(v) \in 0..ULONG - 1 /\ (v < 0) \in BOOLEAN
  <2>1. ULONG \div 2 \in Nat /\ ULONG \div 2 <= ULONG /\ ULONG \in Nat
    BY WidthOfULONG
  <2> HIDE DEF v
  <2> QED
    BY <1>7, <2>1 DEF Magnitude
<1>9. TypeOK'
  <2> HIDE DEF v
  <2>1. 1 \in 0..ULONG - 1
    BY WidthOfULONG
  <2>2. {ulCount, ulStrlen} \subseteq 0..ULONG - 1
    BY DEF IInv, TypeOK
  <2>3. {ulCount', ulValue', ulIdx', ulStrlen'} \subseteq 0..ULONG - 1
    BY <1>1, <1>5, <1>8, <2>1, <2>2
  <2>4. ulNeg' \in BOOLEAN
    BY <1>1, <1>5, <1>8
  <2>5. Len(pcBuf') <= BufferSize
    BY <1>1 DEF BufferSize
  <2> QED
    BY <1>1, <2>3, <2>4, <2>5 DEF TypeOK
<1>10. Written(s, 0)' /\ DirectiveAt(s)'
  BY <1>1, <1>2 DEF Written, DirectiveAt
<1>11. Searching'
  BY <1>1, <1>2, PowerSteps DEF Searching
<1>12. InNumber'
  BY <1>1, <1>2, <1>5, <1>6, <1>10, <1>11 DEF InNumber
<1>13. InFormat' /\ InDirective' /\ InBytes' /\ MeaningWritten'
  BY <1>1 DEF InFormat, InDirective, InBytes, MeaningWritten
<1> QED
  BY <1>1, <1>9, <1>12, <1>13 DEF IInv

\* %.*: the directive goes on, with its second argument.
LEMMA LengthStep == IInv /\ TakeLength => IInv'
<1> SUFFICES ASSUME IInv, TakeLength PROVE IInv'
  OBVIOUS
<1>1. /\ call \in Calls /\ call' = call /\ pc = "directive" /\ Head(format) = "."
      /\ vaArgP' = Tail(vaArgP) /\ format' = SubSeq(format, 3, Len(format))
      /\ ulStrlen' = Head(vaArgP) /\ pc' = pc
      /\ output' = output /\ ulCount' = ulCount /\ ulValue' = ulValue
      /\ ulNeg' = ulNeg /\ ulIdx' = ulIdx /\ pcBuf' = pcBuf
  BY DEF IInv, TakeLength, Take, numberVars
<1>2. PICK s \in Starts(call) :
        /\ DirectiveAt(s) /\ Written(s, 0) /\ ulCount = 0
        /\ call.format[s + 1] = "." /\ s + 3 <= Len(call.format)
        /\ FormatFrom(s + 1) /\ ArgumentsAfter(ArgsBefore(call, s))
  BY <1>1, InsideDirective
<1> DEFINE k == ArgsBefore(call, s)
<1>3. s \in 1..Len(call.format) /\ Len(call.format) \in Nat /\ call.format[s] = "%"
  BY <1>1, <1>2, Spans DEF DirectiveAt
<1>4. k \in Nat /\ k < ArgumentCount
  BY <1>1, <1>3, ArgumentsThere
<1>5. Head(vaArgP) = call.args[k + 1] /\ ArgumentsAfter(k + 1)'
  <2>1. /\ Head(vaArgP) = call.args[k + 1]
        /\ Tail(vaArgP) = [i \in 1..ArgumentCount - (k + 1) |-> call.args[(k + 1) + i]]
    BY <1>1, <1>2, <1>4, ArgumentsLeft
  <2> QED
    BY <1>1, <2>1 DEF ArgumentsAfter, ArgumentCount
<1>6. FormatFrom(s + 3)'
  <2>1. s + 1 \in Nat /\ s + 1 > 0 /\ s + 1 <= Len(call.format) + 1
    BY <1>3
  <2>2. 3 \in Nat /\ 3 > 0 /\ (s + 1) + 3 - 1 <= Len(call.format) + 1 /\ (s + 1) + 3 - 1 = s + 3
    BY <1>2, <1>3
  <2>3. \A i \in Nat : i > 0 /\ (s + 1) + i - 1 <= Len(call.format) + 1 =>
          SubSeq(format, i, Len(format))
            = [j \in 1..Len(call.format) - ((s + 1) + i - 1) + 1
                 |-> call.format[((s + 1) + i - 1) - 1 + j]]
    BY <1>1, <1>2, <2>1, FormatLeft
  <2>4. SubSeq(format, 3, Len(format))
          = [j \in 1..Len(call.format) - ((s + 1) + 3 - 1) + 1
               |-> call.format[((s + 1) + 3 - 1) - 1 + j]]
    BY <2>2, <2>3
  <2> QED
    BY <1>1, <2>2, <2>4 DEF FormatFrom
<1>7. call.args[k + 1] \in 0..ULONG - 1
  <2> "." # "d"
    OBVIOUS
  <2> QED
    BY <1>1, <1>2, <1>3, CallArguments
<1>8. TypeOK'
  <2>1. {ulCount, ulValue, ulIdx} \subseteq 0..ULONG - 1
    BY DEF IInv, TypeOK
  <2>2. {ulCount', ulValue', ulIdx', ulStrlen'} \subseteq 0..ULONG - 1
    BY <1>1, <1>5, <1>7, <2>1
  <2> QED
    BY <1>1, <2>2 DEF IInv, TypeOK
<1>9. Written(s, 0)' /\ DirectiveAt(s)'
  BY <1>1, <1>2 DEF Written, DirectiveAt
<1>10. InDirective'
  BY <1>1, <1>2, <1>5, <1>6, <1>9 DEF InDirective
<1>11. InFormat' /\ InNumber' /\ InBytes' /\ MeaningWritten'
  BY <1>1 DEF InFormat, InNumber, InBytes, MeaningWritten
<1> QED
  BY <1>1, <1>8, <1>10, <1>11 DEF IInv

\* %H: a piece with no byte in it yet.
LEMMA BytesStep == IInv /\ TakeBytes => IInv'
<1> SUFFICES ASSUME IInv, TakeBytes PROVE IInv'
  OBVIOUS
<1>1. /\ call \in Calls /\ call' = call /\ pc = "directive" /\ Head(format) = "H"
      /\ vaArgP' = Tail(vaArgP) /\ format' = Tail(format)
      /\ pcStr' = Head(vaArgP) /\ ulIdx' = ulStrlen /\ ulCount' = 0 /\ pc' = "bytes"
      /\ output' = Append(output, <<"bytes", <<>>>>)
      /\ ulValue' = ulValue /\ ulNeg' = ulNeg /\ pcBuf' = pcBuf /\ ulStrlen' = ulStrlen
  BY DEF IInv, TakeBytes, Take
<1>2. PICK s \in Starts(call) :
        /\ DirectiveAt(s) /\ Written(s, 0)
        /\ call.format[s + 1] = "." /\ s + 3 <= Len(call.format)
        /\ FormatFrom(s + 3) /\ ArgumentsAfter(ArgsBefore(call, s) + 1)
        /\ ulStrlen = call.args[ArgsBefore(call, s) + 1]
  BY <1>1, InsideDirective
<1> DEFINE k == ArgsBefore(call, s)
<1>3. s \in 1..Len(call.format) /\ Len(call.format) \in Nat /\ call.format[s] = "%"
  BY <1>1, <1>2, Spans DEF DirectiveAt
<1>4. k \in Nat /\ k + 1 \in Nat /\ k + 1 < ArgumentCount /\ (k + 1) + 1 = k + 2
  <2>1. k \in Nat /\ k + 1 < ArgumentCount
    BY <1>1, <1>2, <1>3, ArgumentsThere
  <2> QED
    BY <2>1
<1>5. Head(vaArgP) = call.args[k + 2] /\ ArgumentsAfter(k + 2)'
  <2>1. /\ Head(vaArgP) = call.args[(k + 1) + 1]
        /\ Tail(vaArgP) = [i \in 1..ArgumentCount - ((k + 1) + 1) |-> call.args[((k + 1) + 1) + i]]
    BY <1>1, <1>2, <1>4, ArgumentsLeft
  <2> QED
    BY <1>1, <1>4, <2>1 DEF ArgumentsAfter, ArgumentCount
<1>6. FormatFrom(s + 4)'
  <2>1. s + 3 \in Nat /\ s + 3 > 0 /\ (s + 3) + 1 = s + 4
    BY <1>3
  <2>2. Tail(format) = [j \in 1..Len(call.format) - ((s + 3) + 1) + 1
                          |-> call.format[((s + 3) + 1) - 1 + j]]
    BY <1>1, <1>2, <2>1, NextCharacter
  <2> QED
    BY <1>1, <2>1, <2>2 DEF FormatFrom
<1>7. ulStrlen \in 0..ULONG - 1
  BY DEF IInv, TypeOK
<1>8. TypeOK'
  <2>1. ulValue \in 0..ULONG - 1 /\ 0 \in 0..ULONG - 1
    BY WidthOfULONG DEF IInv, TypeOK
  <2>2. {ulCount', ulValue', ulIdx', ulStrlen'} \subseteq 0..ULONG - 1
    BY <1>1, <1>7, <2>1
  <2> QED
    BY <1>1, <2>2 DEF IInv, TypeOK
<1>9. Written(s, 1)' /\ output'[Len(output')] = <<"bytes", <<>>>>
  <2>1. s \in Int
    BY <1>3
  <2>2. /\ Holds(output', call, s, 1)
        /\ output'[Len(output')] = <<"bytes", <<>>>>
    BY <1>1, <1>2, <2>1, OnePiece DEF Written
  <2> QED
    BY <1>1, <2>2 DEF Written
<1>10. Hexadecimal(pcStr', 0) = <<>>
  BY DEF Hexadecimal
<1>11. DirectiveAt(s)'
  BY <1>1, <1>2 DEF DirectiveAt
<1>12. ulCount' <= ulIdx'
  BY <1>1, <1>7
<1>13. InBytes'
  BY <1>1, <1>2, <1>5, <1>6, <1>9, <1>10, <1>11, <1>12 DEF InBytes
<1>14. InFormat' /\ InDirective' /\ InNumber' /\ MeaningWritten'
  BY <1>1 DEF InFormat, InDirective, InNumber, MeaningWritten
<1> QED
  BY <1>1, <1>8, <1>13, <1>14 DEF IInv

-----------------------------------------------------------------------------
(***************************************************************************)
(* The invariant: the conversion of a number.                              *)
(***************************************************************************)

\* A turn of the search: the power found is no greater than the number, and the
\* padding has lost as many as there are digits after the first.
LEMMA SearchTurn ==
  ASSUME ulValue \in 0..ULONG - 1, Searching, FindPower
  PROVE  Searching' /\ ulIdx' \in 0..ULONG - 1 /\ ulCount' \in 0..ULONG - 1
<1>1. PICK k \in 0..9 :
        /\ ulIdx = Power(k)
        /\ k = 0 \/ Power(k) <= ulValue
        /\ ulCount = IF k = 0 THEN 0 ELSE ULONG - k
  BY DEF Searching
<1>2. /\ ulIdx' = ulIdx * 10 /\ ulCount' = (ulCount - 1) % ULONG /\ ulValue' = ulValue
      /\ (ulIdx * 10) % ULONG <= ulValue /\ ((ulIdx * 10) % ULONG) \div 10 = ulIdx
  BY DEF FindPower, NextPower, ulBase
<1>3. ulIdx \in Nat /\ ulIdx > 0
  BY <1>1, PowerSteps
<1>4. 10 * ulIdx <= ulValue
  BY <1>2, <1>3, NextPowerExact
<1>5. ULONG \in Nat /\ ULONG > 256 /\ ULONG < 10000000000
  BY WidthOfULONG
<1>6. k < 9
  <2> SUFFICES ASSUME k = 9 PROVE FALSE
    OBVIOUS
  <2>1. ulIdx = 1000000000
    BY <1>1, PowerSteps
  <2>2. ulValue < 10000000000
    BY <1>5
  <2> QED
    BY <1>4, <2>1, <2>2
<1>7. ulIdx' = Power(k + 1) /\ Power(k + 1) <= ulValue'
  <2>1. Power(k + 1) = 10 * Power(k)
    BY <1>6, PowerSteps
  <2>2. ulIdx * 10 = 10 * ulIdx
    BY <1>3
  <2> QED
    BY <1>1, <1>2, <1>4, <2>1, <2>2
<1>8. ulCount' = ULONG - (k + 1)
  <2>1. CASE k = 0
    <3>1. ulCount = 0
      BY <1>1, <2>1
    <3> QED
      BY <1>2, <2>1, <3>1, WrapMinusOne
  <2>2. CASE k # 0
    <3>1. ulCount = ULONG - k
      BY <1>1, <2>2
    <3> DEFINE x == ULONG - (k + 1)
    <3>2. ulCount - 1 = x
      BY <1>5, <3>1
    <3>3. x \in 0..ULONG - 1
      BY <1>5
    <3> HIDE DEF x
    <3>4. x % ULONG = x
      BY <3>3, WrapSmall
    <3> QED
      BY <1>2, <3>2, <3>4 DEF x
  <2> QED
    BY <2>1, <2>2
<1>9. k + 1 \in 0..9 /\ k + 1 # 0
  BY <1>6
<1>10. Searching'
  BY <1>7, <1>8, <1>9 DEF Searching
<1>11. ulCount' \in 0..ULONG - 1
  BY <1>5, <1>8
<1>12. ulIdx' \in 0..ULONG - 1
  <2>1. ulIdx' \in Nat /\ ulIdx' <= ulValue
    BY <1>2, <1>3, <1>4
  <2> QED
    BY <1>5, <2>1
<1> QED
  BY <1>10, <1>11, <1>12

\* At the end of the search the padding that is left is none, or far too much.
LEMMA NeverPads ==
  ASSUME Searching, ulNeg \in BOOLEAN
  PROVE  Padding = <<>> /\ PaddingCount \in 0..ULONG - 1
<1>1. PICK k \in 0..9 : ulCount = IF k = 0 THEN 0 ELSE ULONG - k
  BY DEF Searching
<1>2. ULONG \in Nat /\ ULONG > 256
  BY WidthOfULONG
<1>3. PaddingCount = 0 \/ PaddingCount \in ULONG - 10..ULONG - 1
  <2>1. CASE ~ulNeg
    <3>1. PaddingCount = ulCount
      BY <2>1 DEF PaddingCount
    <3> QED
      BY <1>1, <1>2, <3>1
  <2>2. CASE ulNeg
    <3>1. PaddingCount = (ulCount - 1) % ULONG
      BY <2>2 DEF PaddingCount
    <3>2. CASE k = 0
      <4>1. ulCount = 0
        BY <1>1, <3>2
      <4>2. PaddingCount = ULONG - 1
        BY <3>1, <4>1, WrapMinusOne
      <4> QED
        BY <1>2, <4>2
    <3>3. CASE k # 0
      <4> DEFINE x == ULONG - (k + 1)
      <4>1. ulCount - 1 = x
        BY <1>1, <1>2, <3>3
      <4>2. x \in 0..ULONG - 1 /\ x \in ULONG - 10..ULONG - 1
        BY <1>2
      <4> HIDE DEF x
      <4>3. x % ULONG = x
        BY <4>2, WrapSmall
      <4> QED
        BY <3>1, <4>1, <4>2, <4>3
    <3> QED
      BY <3>2, <3>3
  <2> QED
    BY <2>1, <2>2
<1>4. ~(PaddingCount > 1 /\ PaddingCount < 16)
  BY <1>2, <1>3
<1>5. PaddingCount \in 0..ULONG - 1
  BY <1>2, <1>3
<1> QED
  BY <1>4, <1>5 DEF Padding

\* At the end of the search the power is the one of the first digit.
LEMMA SearchEnd ==
  ASSUME ulValue \in 0..ULONG - 1, Searching, ~NextPower
  PROVE  DigitCount(ulValue) \in 1..10 /\ ulIdx = Power(DigitCount(ulValue) - 0 - 1)
<1>1. PICK k \in 0..9 : ulIdx = Power(k) /\ (k = 0 \/ Power(k) <= ulValue)
  BY DEF Searching
<1>2. ulIdx \in Nat /\ ulValue \in Nat
  BY <1>1, PowerSteps
<1>3. ~(10 * ulIdx <= ulValue)
  <2>1. ~((ulIdx * 10) % ULONG <= ulValue /\ ((ulIdx * 10) % ULONG) \div 10 = ulIdx)
    BY DEF NextPower, ulBase
  <2> QED
    BY <1>2, <2>1, NextPowerExact
<1>4. k < 9 => ulValue < Power(k + 1)
  <2> SUFFICES ASSUME k < 9 PROVE ulValue < Power(k + 1)
    OBVIOUS
  <2>1. Power(k + 1) = 10 * ulIdx
    BY <1>1, PowerSteps
  <2> QED
    BY <1>2, <1>3, <2>1
<1>5. DigitCount(ulValue) = k + 1
  BY <1>1, <1>2, <1>4, DigitCountIs
<1>6. k + 1 - 0 - 1 = k /\ k + 1 \in 1..10
  OBVIOUS
<1> QED
  BY <1>1, <1>5, <1>6

\* Where the function is in a number.
LEMMA InsideNumber ==
  ASSUME IInv, pc \in {"convert", "digits"}
  PROVE  \E s \in Starts(call) :
           /\ DirectiveAt(s) /\ call.format[s + 1] = "d" /\ call.format[s] = "%"
           /\ FormatFrom(s + 2) /\ ArgumentsAfter(ArgsBefore(call, s) + 1) /\ Written(s, 0)
           /\ call.args[ArgsBefore(call, s) + 1] \in Int
           /\ ulValue = Magnitude(call.args[ArgsBefore(call, s) + 1])
           /\ ulNeg = (call.args[ArgsBefore(call, s) + 1] < 0)
           /\ pc = "convert" => Searching /\ pcBuf = <<>>
           /\ pc = "digits" => DigitsOut(call.args[ArgsBefore(call, s) + 1])
<1>1. PICK s \in Starts(call) :
        /\ DirectiveAt(s) /\ call.format[s + 1] = "d"
        /\ FormatFrom(s + 2) /\ ArgumentsAfter(ArgsBefore(call, s) + 1) /\ Written(s, 0)
        /\ ulValue = Magnitude(call.args[ArgsBefore(call, s) + 1])
        /\ ulNeg = (call.args[ArgsBefore(call, s) + 1] < 0)
        /\ pc = "convert" => Searching /\ pcBuf = <<>>
        /\ pc = "digits" => DigitsOut(call.args[ArgsBefore(call, s) + 1])
  BY DEF IInv, InNumber
<1>2. call.format[s] = "%" /\ call \in Calls
  BY <1>1 DEF DirectiveAt, IInv
<1>3. call.args[ArgsBefore(call, s) + 1] \in 1 - ULONG \div 2..ULONG \div 2 - 1
  BY <1>1, <1>2, CallArguments
<1>4. ULONG \div 2 \in Int
  BY WidthOfULONG
<1>5. call.args[ArgsBefore(call, s) + 1] \in Int
  BY <1>3, <1>4
<1> QED
  BY <1>1, <1>2, <1>5

\* The directive is the same while a number is converted.
LEMMA SameNumber ==
  ASSUME IInv, NEW s \in Starts(call), UNCHANGED <<call, format, vaArgP, output>>,
         pc' \in {"convert", "digits"},
         ulValue' = ulValue, ulNeg' = ulNeg,
         DirectiveAt(s), call.format[s + 1] = "d",
         FormatFrom(s + 2), ArgumentsAfter(ArgsBefore(call, s) + 1), Written(s, 0),
         ulValue = Magnitude(call.args[ArgsBefore(call, s) + 1]),
         ulNeg = (call.args[ArgsBefore(call, s) + 1] < 0),
         pc' = "convert" => Searching' /\ pcBuf' = <<>>,
         pc' = "digits" => DigitsOut(call.args[ArgsBefore(call, s) + 1])',
         TypeOK'
  PROVE  IInv'
<1>1. call \in Calls /\ call' = call
  BY DEF IInv
<1>2. DirectiveAt(s)' /\ FormatFrom(s + 2)' /\ ArgumentsAfter(ArgsBefore(call, s) + 1)'
      /\ Written(s, 0)'
  BY DEF DirectiveAt, FormatFrom, ArgumentsAfter, ArgumentCount, Written
<1>3. InNumber'
  BY <1>1, <1>2 DEF InNumber
<1>4. InFormat' /\ InDirective' /\ InBytes' /\ MeaningWritten'
  BY DEF InFormat, InDirective, InBytes, MeaningWritten
<1> QED
  BY <1>1, <1>3, <1>4 DEF IInv

\* A further turn of the search for the highest power.
LEMMA PowerStep == IInv /\ FindPower => IInv'
<1> SUFFICES ASSUME IInv, FindPower PROVE IInv'
  OBVIOUS
<1>1. /\ pc = "convert" /\ pc' = "convert"
      /\ UNCHANGED <<call, format, vaArgP, output, ulValue, ulNeg, pcBuf, ulStrlen>>
  BY DEF FindPower, bytesVars
<1>2. PICK s \in Starts(call) :
        /\ DirectiveAt(s) /\ call.format[s + 1] = "d"
        /\ FormatFrom(s + 2) /\ ArgumentsAfter(ArgsBefore(call, s) + 1) /\ Written(s, 0)
        /\ ulValue = Magnitude(call.args[ArgsBefore(call, s) + 1])
        /\ ulNeg = (call.args[ArgsBefore(call, s) + 1] < 0)
        /\ Searching /\ pcBuf = <<>>
  BY <1>1, InsideNumber
<1>3. {ulValue, ulStrlen} \subseteq 0..ULONG - 1 /\ ulNeg \in BOOLEAN
  BY DEF IInv, TypeOK
<1>4. Searching' /\ ulIdx' \in 0..ULONG - 1 /\ ulCount' \in 0..ULONG - 1
  BY <1>2, <1>3, SearchTurn
<1>5. TypeOK'
  <2>1. {ulCount', ulValue', ulIdx', ulStrlen'} \subseteq 0..ULONG - 1
    BY <1>1, <1>3, <1>4
  <2> QED
    BY <1>1, <2>1 DEF IInv, TypeOK
<1> QED
  BY <1>1, <1>2, <1>4, <1>5, SameNumber

\* The search is over: no padding, and the sign if there is one.
LEMMA SignStep == IInv /\ WriteSign => IInv'
<1> SUFFICES ASSUME IInv, WriteSign PROVE IInv'
  OBVIOUS
<1>1. /\ pc = "convert" /\ pc' = "digits" /\ ~NextPower
      /\ UNCHANGED <<call, format, vaArgP, output, ulValue, ulNeg, ulIdx, ulStrlen>>
      /\ ulCount' = IF Padding = <<>> THEN PaddingCount ELSE 0
      /\ pcBuf' = Padding \o (IF ulNeg THEN <<Minus>> ELSE <<>>)
  BY DEF WriteSign, bytesVars
<1>2. PICK s \in Starts(call) :
        /\ DirectiveAt(s) /\ call.format[s + 1] = "d"
        /\ FormatFrom(s + 2) /\ ArgumentsAfter(ArgsBefore(call, s) + 1) /\ Written(s, 0)
        /\ call.args[ArgsBefore(call, s) + 1] \in Int
        /\ ulValue = Magnitude(call.args[ArgsBefore(call, s) + 1])
        /\ ulNeg = (call.args[ArgsBefore(call, s) + 1] < 0)
        /\ Searching
  BY <1>1, InsideNumber
<1> DEFINE v == call.args[ArgsBefore(call, s) + 1]
           d == DigitCount(Magnitude(v))
           sign == IF v < 0 THEN 1 ELSE 0
<1>3. {ulValue, ulIdx, ulStrlen} \subseteq 0..ULONG - 1 /\ ulNeg \in BOOLEAN
  BY DEF IInv, TypeOK
<1>4. Padding = <<>> /\ PaddingCount \in 0..ULONG - 1
  BY <1>2, <1>3, NeverPads
<1>5. pcBuf' = IF v < 0 THEN <<Minus>> ELSE <<>>
  <2>1. <<>> \o <<Minus>> = <<Minus>> /\ <<>> \o <<>> = <<>>
    BY DEF Minus
  <2> QED
    BY <1>1, <1>2, <1>4, <2>1
<1>6. d \in 1..10 /\ ulIdx' = Power(d - 0 - 1)
  BY <1>1, <1>2, <1>3, SearchEnd
<1>7. v < 0 => Numeral(v)[1] = Minus
  BY <1>2, NumeralForm
<1> HIDE DEF v
<1>8. pcBuf' = [i \in 1..0 + sign |-> Numeral(v)[i]]
  <2>1. CASE v < 0
    <3>1. 0 + sign = 1 /\ 1..1 = {1}
      BY <2>1
    <3>2. pcBuf' = <<Minus>>
      BY <1>5, <2>1
    <3>3. <<Minus>> = [i \in {1} |-> Minus]
      OBVIOUS
    <3>4. [i \in {1} |-> Minus] = [i \in {1} |-> Numeral(v)[i]]
      BY <1>7, <2>1
    <3> QED
      BY <3>1, <3>2, <3>3, <3>4
  <2>2. CASE ~(v < 0)
    <3>1. 0 + sign = 0 /\ 1..0 = {}
      BY <2>2
    <3>2. pcBuf' = <<>>
      BY <1>5, <2>2
    <3>3. <<>> = [i \in {} |-> Numeral(v)[i]]
      OBVIOUS
    <3> QED
      BY <3>1, <3>2, <3>3
  <2> QED
    BY <2>1, <2>2
<1>9. DigitsOut(v)'
  <2>1. v' = v
    BY <1>1 DEF v
  <2>2. 0 \in 0..d /\ 0 # d
    BY <1>6
  <2>3. \E m \in 0..d :
          /\ ulIdx' = IF m = d THEN 0 ELSE Power(d - m - 1)
          /\ pcBuf' = [i \in 1..m + sign |-> Numeral(v)[i]]
    BY <1>6, <1>8, <2>2
  <2> QED
    BY <2>1, <2>3 DEF DigitsOut
<1>10. TypeOK'
  <2>1. {ulCount', ulValue', ulIdx', ulStrlen'} \subseteq 0..ULONG - 1
    BY <1>1, <1>3, <1>4
  <2>2. Len(pcBuf') <= BufferSize
    <3>1. Len(<<Minus>>) = 1 /\ Len(<<>>) = 0
      OBVIOUS
    <3> QED
      BY <1>5, <3>1 DEF BufferSize
  <2> QED
    BY <1>1, <1>3, <2>1, <2>2 DEF TypeOK
<1>11. DigitsOut(call.args[ArgsBefore(call, s) + 1])'
  BY <1>9 DEF v
<1> QED
  BY <1>1, <1>2, <1>10, <1>11, SameNumber

\* A further digit is the next character of the numeral.
LEMMA DigitStep == IInv /\ WriteDigit => IInv'
<1> SUFFICES ASSUME IInv, WriteDigit PROVE IInv'
  OBVIOUS
<1>1. /\ pc = "digits" /\ ulIdx # 0 /\ pc' = "digits"
      /\ UNCHANGED <<call, format, vaArgP, output, ulCount, ulValue, ulNeg, ulStrlen>>
      /\ pcBuf' = Append(pcBuf, (ulValue \div ulIdx) % 10)
      /\ ulIdx' = ulIdx \div 10
  BY DEF WriteDigit, bytesVars, ulBase
<1>2. PICK s \in Starts(call) :
        /\ DirectiveAt(s) /\ call.format[s + 1] = "d"
        /\ FormatFrom(s + 2) /\ ArgumentsAfter(ArgsBefore(call, s) + 1) /\ Written(s, 0)
        /\ call.args[ArgsBefore(call, s) + 1] \in Int
        /\ ulValue = Magnitude(call.args[ArgsBefore(call, s) + 1])
        /\ ulNeg = (call.args[ArgsBefore(call, s) + 1] < 0)
        /\ DigitsOut(call.args[ArgsBefore(call, s) + 1])
  BY <1>1, InsideNumber
<1> DEFINE v == call.args[ArgsBefore(call, s) + 1]
           d == DigitCount(Magnitude(v))
           sign == IF v < 0 THEN 1 ELSE 0
<1>3. /\ Magnitude(v) \in Nat /\ d \in 1..10
      /\ Numeral(v) = [i \in 1..d + sign |-> Numeral(v)[i]]
      /\ \A j \in 1..d : Numeral(v)[j + sign] = (Magnitude(v) \div Power(d - j)) % 10
  BY <1>2, NumeralForm
<1>4. PICK m \in 0..d :
        /\ ulIdx = IF m = d THEN 0 ELSE Power(d - m - 1)
        /\ pcBuf = [i \in 1..m + sign |-> Numeral(v)[i]]
  BY <1>2 DEF DigitsOut
<1>5. v' = v /\ sign \in {0, 1} /\ ulValue = Magnitude(v)
  BY <1>1, <1>2
<1> HIDE DEF v, d, sign
<1>6. m < d /\ ulIdx = Power(d - m - 1) /\ d - m - 1 \in 0..9 /\ m \in 0..9
  <2>1. m # d
    BY <1>1, <1>4
  <2> QED
    BY <1>3, <1>4, <2>1
<1>7. pcBuf' = [i \in 1..(m + 1) + sign |-> Numeral(v)[i]]
  <2> DEFINE x == (ulValue \div ulIdx) % 10
             l == m + sign
  <2>1. x = Numeral(v)[m + 1 + sign]
    <3>1. m + 1 \in 1..d /\ d - (m + 1) = d - m - 1
      BY <1>3, <1>6
    <3>2. Numeral(v)[m + 1 + sign] = (Magnitude(v) \div Power(d - (m + 1))) % 10
      BY <1>3, <3>1
    <3> QED
      BY <1>5, <1>6, <3>1, <3>2
  <2>2. l \in Nat /\ m + 1 + sign = l + 1 /\ (m + 1) + sign = l + 1
    BY <1>5, <1>6
  <2> HIDE DEF x, l
  <2>3. pcBuf = [i \in 1..l |-> Numeral(v)[i]]
    BY <1>4 DEF l
  <2>4. Len(pcBuf) = l /\ pcBuf = [i \in 1..Len(pcBuf) |-> pcBuf[i]]
    BY <2>2, <2>3
  <2> DEFINE p == Append(pcBuf, x)
  <2>5. /\ Len(p) = l + 1
        /\ p = [i \in 1..Len(p) |-> p[i]]
        /\ p[Len(p)] = x
        /\ \A i \in 1..l : p[i] = pcBuf[i]
    BY <2>2, <2>4, Appended
  <2> HIDE DEF p
  <2>6. \A i \in 1..l + 1 : p[i] = Numeral(v)[i]
    <3> TAKE i \in 1..l + 1
    <3>1. CASE i = l + 1
      BY <2>1, <2>2, <2>5, <3>1
    <3>2. CASE i # l + 1
      <4> i \in 1..l
        BY <2>2, <3>2
      <4> QED
        BY <2>3, <2>5
    <3> QED
      BY <3>1, <3>2
  <2>7. p = [i \in 1..l + 1 |-> Numeral(v)[i]]
    BY <2>5, <2>6
  <2>8. pcBuf' = p
    BY <1>1 DEF p, x
  <2> QED
    BY <2>2, <2>7, <2>8
<1>8. ulIdx' = IF m + 1 = d THEN 0 ELSE Power(d - (m + 1) - 1)
  <2>1. CASE m + 1 = d
    <3>1. d - m - 1 = 0
      BY <1>3, <1>6, <2>1
    <3>2. ulIdx = 1
      BY <1>6, <3>1, PowerSteps
    <3> QED
      BY <1>1, <2>1, <3>2
  <2>2. CASE m + 1 # d
    <3> DEFINE e == d - (m + 1) - 1
    <3>1. d \in Int /\ m \in Int /\ d <= 10 /\ m >= 0 /\ m < d
      BY <1>3, <1>6
    <3>2. e \in Int /\ e >= 0 /\ e <= 8
      BY <2>2, <3>1
    <3>3. e + 1 = d - m - 1
      BY <3>1
    <3> HIDE DEF e
    <3>4. e \in 0..8
      BY <3>2
    <3>5. Power(e) \in Nat /\ Power(e + 1) = 10 * Power(e)
      BY <3>4, PowerSteps
    <3>6. (10 * Power(e)) \div 10 = Power(e)
      BY <3>5
    <3>7. ulIdx = 10 * Power(e)
      BY <1>6, <3>3, <3>5
    <3>8. ulIdx' = Power(e)
      BY <1>1, <3>6, <3>7
    <3> QED
      BY <2>2, <3>8 DEF e
  <2> QED
    BY <2>1, <2>2
<1>9. DigitsOut(v)'
  <2>1. m + 1 \in 0..d
    BY <1>3, <1>6
  <2>2. \E j \in 0..d :
          /\ ulIdx' = IF j = d THEN 0 ELSE Power(d - j - 1)
          /\ pcBuf' = [i \in 1..j + sign |-> Numeral(v)[i]]
    BY <1>7, <1>8, <2>1
  <2> QED
    BY <1>5, <2>2 DEF DigitsOut, d, sign
<1>10. TypeOK'
  <2>1. {ulCount, ulValue, ulIdx, ulStrlen} \subseteq 0..ULONG - 1 /\ ulNeg \in BOOLEAN
    BY DEF IInv, TypeOK
  <2>2. ulIdx' \in 0..ULONG - 1
    <3>1. ulIdx \in Nat /\ ulIdx <= ULONG - 1 /\ ULONG \in Nat
      BY <2>1, WidthOfULONG
    <3>2. ulIdx \div 10 \in Nat /\ ulIdx \div 10 <= ulIdx
      BY <3>1
    <3> QED
      BY <1>1, <3>1, <3>2
  <2>3. {ulCount', ulValue', ulIdx', ulStrlen'} \subseteq 0..ULONG - 1
    BY <1>1, <2>1, <2>2
  <2>4. Len(pcBuf') <= BufferSize
    <3> DEFINE l == (m + 1) + sign
    <3>1. l \in Nat /\ l <= 16
      BY <1>3, <1>5, <1>6
    <3> HIDE DEF l
    <3>2. pcBuf' = [i \in 1..l |-> Numeral(v)[i]]
      BY <1>7 DEF l
    <3>3. Len(pcBuf') = l
      BY <3>1, <3>2
    <3> QED
      BY <3>1, <3>3 DEF BufferSize
  <2> QED
    BY <1>1, <2>1, <2>3, <2>4 DEF TypeOK
<1>11. DigitsOut(call.args[ArgsBefore(call, s) + 1])'
  BY <1>9 DEF v
<1> QED
  BY <1>1, <1>2, <1>10, <1>11, SameNumber

\* The directive is over: the format goes on after it.
LEMMA BackInFormat ==
  ASSUME IInv, NEW s \in Starts(call), NEW w, w = s + Length(call, s),
         UNCHANGED <<call, format, vaArgP>>, pc' = "format",
         FormatFrom(w), ArgumentsAfter(ArgsBefore(call, w)),
         Holds(output', call, w, 0), TypeOK'
  PROVE  IInv'
<1>1. call \in Calls /\ call' = call
  BY DEF IInv
<1>2. w \in Starts(call) \union {Len(call.format) + 1}
  BY <1>1, NextStart
<1>3. FormatFrom(w)' /\ ArgumentsAfter(ArgsBefore(call, w))' /\ Written(w, 0)'
  BY <1>1 DEF FormatFrom, ArgumentsAfter, ArgumentCount, Written
<1>4. InFormat'
  BY <1>1, <1>2, <1>3 DEF InFormat
<1>5. InDirective' /\ InNumber' /\ InBytes' /\ MeaningWritten'
  BY DEF InDirective, InNumber, InBytes, MeaningWritten
<1> QED
  BY <1>1, <1>4, <1>5 DEF IInv

\* The number is out: its piece is the one of the directive.
LEMMA NumberOut == IInv /\ WriteNumber => IInv'
<1> SUFFICES ASSUME IInv, WriteNumber PROVE IInv'
  OBVIOUS
<1>1. /\ call \in Calls /\ pc = "digits" /\ ulIdx = 0 /\ pc' = "format"
      /\ UNCHANGED <<call, format, vaArgP>>
      /\ output' = IF pcBuf = <<>> THEN output ELSE Append(output, <<"number", pcBuf>>)
  BY DEF IInv, WriteNumber, Prints
<1>2. UNCHANGED <<ulCount, ulValue, ulNeg, ulIdx, pcBuf, ulStrlen>>
  BY DEF WriteNumber, numberVars, bytesVars
<1>3. PICK s \in Starts(call) :
        /\ DirectiveAt(s) /\ call.format[s + 1] = "d" /\ call.format[s] = "%"
        /\ FormatFrom(s + 2) /\ ArgumentsAfter(ArgsBefore(call, s) + 1) /\ Written(s, 0)
        /\ call.args[ArgsBefore(call, s) + 1] \in Int
        /\ DigitsOut(call.args[ArgsBefore(call, s) + 1])
  BY <1>1, InsideNumber
<1> DEFINE v == call.args[ArgsBefore(call, s) + 1]
           d == DigitCount(Magnitude(v))
           sign == IF v < 0 THEN 1 ELSE 0
<1>4. d \in 1..10 /\ Numeral(v) = [i \in 1..d + sign |-> Numeral(v)[i]]
  BY <1>3, NumeralForm
<1>5. PICK m \in 0..d :
        /\ ulIdx = IF m = d THEN 0 ELSE Power(d - m - 1)
        /\ pcBuf = [i \in 1..m + sign |-> Numeral(v)[i]]
  BY <1>3 DEF DigitsOut
<1>6. sign \in {0, 1}
  OBVIOUS
<1>7. <<"number", Numeral(v)>> = Piece(call, s)
  BY <1>3 DEF Piece
<1> HIDE DEF v, d, sign
<1>8. m = d
  <2> SUFFICES ASSUME m # d PROVE FALSE
    OBVIOUS
  <2>1. d - m - 1 \in 0..9
    BY <1>4
  <2>2. Power(d - m - 1) > 0
    BY <2>1, PowerSteps
  <2> QED
    BY <1>1, <1>5, <2>2
<1>9. pcBuf = Numeral(v) /\ pcBuf # <<>>
  <2> DEFINE l == d + sign
  <2>1. l \in Nat /\ l > 0
    BY <1>4, <1>6
  <2>2. pcBuf = [i \in 1..l |-> Numeral(v)[i]]
    BY <1>5, <1>8
  <2>3. pcBuf = Numeral(v)
    BY <1>4, <2>2
  <2> HIDE DEF l
  <2>4. Len(pcBuf) = l
    BY <2>1, <2>2
  <2> QED
    BY <2>1, <2>3, <2>4
<1>10. output' = Append(output, Piece(call, s))
  BY <1>1, <1>7, <1>9
<1>11. s \in Int
  BY DEF Starts
<1>12. /\ Holds(output', call, s, 1)
       /\ output'[Len(output')] = Piece(call, s)
  BY <1>1, <1>3, <1>10, <1>11, OnePiece DEF Written
<1>13. s + Length(call, s) = s + 2
  BY <1>3 DEF Length
<1>14. Holds(output', call, s + 2, 0)
  BY <1>1, <1>12, <1>13, WholePiece
<1>15. ArgsBefore(call, s + 2) = ArgsBefore(call, s) + 1
  BY <1>1, <1>3, ArgsNext
<1>16. TypeOK'
  BY <1>1, <1>2 DEF IInv, TypeOK
<1> QED
  BY <1>1, <1>3, <1>13, <1>14, <1>15, <1>16, BackInFormat

-----------------------------------------------------------------------------
(***************************************************************************)
(* The invariant: the bytes, and the end.                                  *)
(***************************************************************************)

\* Where the function is among the bytes.
LEMMA InsideBytes ==
  ASSUME IInv, pc = "bytes"
  PROVE  \E s \in Starts(call) :
           /\ DirectiveAt(s) /\ call.format[s + 1] = "." /\ call.format[s] = "%"
           /\ FormatFrom(s + 4) /\ ArgumentsAfter(ArgsBefore(call, s) + 2) /\ Written(s, 1)
           /\ ulIdx = call.args[ArgsBefore(call, s) + 1]
           /\ pcStr = call.args[ArgsBefore(call, s) + 2]
           /\ ulIdx \in Nat /\ ulCount \in Nat /\ ulCount <= ulIdx /\ ulIdx < ULONG
           /\ pcStr \in Seq(0..255) /\ ulIdx <= Len(pcStr)
           /\ output[Len(output)] = <<"bytes", Hexadecimal(pcStr, ulCount)>>
<1>1. PICK s \in Starts(call) :
        /\ DirectiveAt(s) /\ call.format[s + 1] = "."
        /\ FormatFrom(s + 4) /\ ArgumentsAfter(ArgsBefore(call, s) + 2) /\ Written(s, 1)
        /\ ulIdx = call.args[ArgsBefore(call, s) + 1]
        /\ pcStr = call.args[ArgsBefore(call, s) + 2]
        /\ ulCount <= ulIdx
        /\ output[Len(output)] = <<"bytes", Hexadecimal(pcStr, ulCount)>>
  BY DEF IInv, InBytes
<1>2. call.format[s] = "%" /\ call \in Calls
  BY <1>1 DEF DirectiveAt, IInv
<1>3. call.format[s + 1] # "d"
  BY <1>1
<1>4. (ArgsBefore(call, s) + 1) + 1 = ArgsBefore(call, s) + 2
  <2> ArgsBefore(call, s) \in Nat
    BY <1>2, ArgsNext
  <2> QED
    OBVIOUS
<1>5. /\ call.args[ArgsBefore(call, s) + 1] \in 0..ULONG - 1
      /\ call.args[(ArgsBefore(call, s) + 1) + 1] \in Seq(0..255)
      /\ Len(call.args[(ArgsBefore(call, s) + 1) + 1]) >= call.args[ArgsBefore(call, s) + 1]
  BY <1>2, <1>3, CallArguments
<1>6. ulIdx \in 0..ULONG - 1 /\ pcStr \in Seq(0..255) /\ Len(pcStr) >= ulIdx
  BY <1>1, <1>4, <1>5
<1>7. ulCount \in 0..ULONG - 1 /\ ULONG \in Nat
  BY WidthOfULONG DEF IInv, TypeOK
<1>8. ulIdx \in Nat /\ ulCount \in Nat /\ ulIdx < ULONG
  BY <1>6, <1>7
<1>9. ulIdx <= Len(pcStr)
  <2> Len(pcStr) \in Nat
    BY <1>6
  <2> QED
    BY <1>6, <1>8
<1> QED
  BY <1>1, <1>2, <1>6, <1>8, <1>9

\* A byte more, two digits more.
LEMMA HexadecimalNext ==
  ASSUME NEW bytes, NEW k \in Nat
  PROVE  Hexadecimal(bytes, k) \o <<bytes[k + 1] \div 16, bytes[k + 1] % 16>>
           = Hexadecimal(bytes, k + 1)
<1> DEFINE n == 2 * k
           dig == [i \in 1..2 * k + 2 |-> IF i % 2 = 1 THEN bytes[(i + 1) \div 2] \div 16
                                                      ELSE bytes[i \div 2] % 16]
           hi == bytes[k + 1] \div 16
           lo == bytes[k + 1] % 16
           h == Hexadecimal(bytes, k)
           e == <<hi, lo>>
<1>1. n \in Nat /\ 2 * (k + 1) = n + 2 /\ 2 * k + 2 = n + 2
  OBVIOUS
<1>2. dig[n + 1] = hi
  <2>1. (n + 1) % 2 = 1 /\ (n + 1 + 1) \div 2 = k + 1 /\ n + 1 \in 1..2 * k + 2
    OBVIOUS
  <2> QED
    BY <2>1
<1>3. dig[n + 2] = lo
  <2>1. (n + 2) % 2 = 0 /\ (n + 2) \div 2 = k + 1 /\ n + 2 \in 1..2 * k + 2
    OBVIOUS
  <2> QED
    BY <2>1
<1>4. h = [i \in 1..n |-> dig[i]]
  <2>1. \A i \in 1..n : i \in 1..2 * k + 2
    OBVIOUS
  <2> QED
    BY <2>1 DEF Hexadecimal
<1>5. Hexadecimal(bytes, k + 1) = dig
  BY <1>1 DEF Hexadecimal
<1>6. dig = [i \in 1..n + 2 |-> dig[i]]
  BY <1>1
<1> HIDE DEF n, dig, hi, lo, h
<1> DEFINE S == {dig[i] : i \in 1..n + 2}
<1>7. hi \in S /\ lo \in S
  <2> n + 1 \in 1..n + 2 /\ n + 2 \in 1..n + 2
    BY <1>1
  <2> QED
    BY <1>2, <1>3
<1>8. \A i \in 1..n : dig[i] \in S
  BY <1>1
<1> HIDE DEF S
<1>9. h \in Seq(S) /\ Len(h) = n
  <2>1. h \in [1..n -> S]
    BY <1>4, <1>8
  <2> QED
    BY <1>1, <2>1
<1>10. e \in Seq(S) /\ Len(e) = 2 /\ e[1] = hi /\ e[2] = lo
  BY <1>7
<1> HIDE DEF e
<1> DEFINE g == h \o e
<1>11. /\ g \in Seq(S)
      /\ Len(g) = Len(h) + Len(e)
      /\ \A i \in 1..Len(h) + Len(e) : g[i] = IF i <= Len(h) THEN h[i] ELSE e[i - Len(h)]
  BY <1>9, <1>10, ConcatProperties
<1> HIDE DEF g
<1>12. g \in Seq(S)
  BY <1>11
<1>13. Len(g) = n + 2
  BY <1>9, <1>10, <1>11
<1>14. \A i \in 1..n : g[i] = h[i]
  BY <1>1, <1>9, <1>10, <1>11
<1>15. g[n + 1] = e[1]
  <2>1. n + 1 \in 1..n + 2 /\ ~(n + 1 <= n) /\ n + 1 - n = 1
    BY <1>1
  <2> QED
    BY <1>9, <1>10, <1>11, <2>1
<1>16. g[n + 2] = e[2]
  <2>1. n + 2 \in 1..n + 2 /\ ~(n + 2 <= n) /\ n + 2 - n = 2
    BY <1>1
  <2> QED
    BY <1>9, <1>10, <1>11, <2>1
<1>17. \A i \in 1..n + 2 : g[i] = dig[i]
  <2> TAKE i \in 1..n + 2
  <2>1. CASE i \in 1..n
    BY <1>4, <1>14, <2>1
  <2>2. CASE i = n + 1
    BY <1>2, <1>10, <1>15, <2>2
  <2>3. CASE i = n + 2
    BY <1>3, <1>10, <1>16, <2>3
  <2>4. i \in 1..n \/ i = n + 1 \/ i = n + 2
    BY <1>1
  <2> QED
    BY <2>1, <2>2, <2>3, <2>4
<1>18. g = [i \in 1..n + 2 |-> g[i]]
  BY <1>12, <1>13
<1>19. g = dig
  BY <1>6, <1>17, <1>18
<1> QED
  BY <1>5, <1>19 DEF g, h, e, hi, lo

\* What a byte more does to the output.
LastReplaced(out, x) == [out EXCEPT ![Len(out)] = x]

\* The last piece is written anew, those before stay.
LEMMA LastPiece ==
  ASSUME NEW c \in Calls, NEW s \in Starts(c), NEW out, Holds(out, c, s, 1), NEW x
  PROVE  /\ Holds(LastReplaced(out, x), c, s, 1)
         /\ LastReplaced(out, x)[Len(LastReplaced(out, x))] = x
<1> DEFINE n == Len(out)
           p == LastReplaced(out, x)
<1>2. p = [out EXCEPT ![n] = x]
  BY DEF LastReplaced
<1>1. n \in Nat /\ n > 0 /\ n = PiecesBefore(c, s) + 1 /\ out = [i \in 1..n |-> out[i]]
  <2>1. PiecesBefore(c, s) \in Nat
    BY PiecesCount
  <2>2. n = PiecesBefore(c, s) + 1 /\ out = [i \in 1..n |-> out[i]]
    BY DEF Holds
  <2> QED
    BY <2>1, <2>2
<1> HIDE DEF n, p
<1>3. p = [i \in 1..n |-> IF i = n THEN x ELSE out[i]]
  BY <1>1, <1>2
<1>4. Len(p) = n
  BY <1>1, <1>3
<1>5. p = [i \in 1..Len(p) |-> p[i]]
  BY <1>3, <1>4
<1>6. p[n] = x
  <2> n \in 1..n
    BY <1>1
  <2> QED
    BY <1>3
<1>7. ASSUME NEW r \in Starts(c), r < s
      PROVE  p[PiecesBefore(c, r) + 1] = Piece(c, r)
  <2>1. s \in Int
    BY DEF Starts
  <2>2. PiecesBefore(c, r) \in Nat /\ PiecesBefore(c, s) \in Nat
    BY PiecesCount
  <2>3. PiecesBefore(c, r) + 1 <= PiecesBefore(c, s)
    BY <1>7, <2>1, PiecesOrder
  <2>4. PiecesBefore(c, r) + 1 \in 1..n /\ PiecesBefore(c, r) + 1 # n
    BY <1>1, <2>2, <2>3
  <2>5. out[PiecesBefore(c, r) + 1] = Piece(c, r)
    BY <1>7 DEF Holds
  <2> QED
    BY <1>3, <2>4, <2>5
<1>8. Holds(p, c, s, 1)
  BY <1>1, <1>4, <1>5, <1>7 DEF Holds
<1> QED
  BY <1>4, <1>6, <1>8 DEF p

\* A further byte in the last piece.
LEMMA ByteStep == IInv /\ WriteByte => IInv'
<1> SUFFICES ASSUME IInv, WriteByte PROVE IInv'
  OBVIOUS
<1> DEFINE x == <<"bytes", output[Len(output)][2]
                    \o <<pcStr[ulCount + 1] \div 16, pcStr[ulCount + 1] % 16>>>>
<1>1. /\ call \in Calls /\ call' = call /\ pc = "bytes" /\ pc' = pc /\ ulCount < ulIdx
      /\ format' = format /\ vaArgP' = vaArgP
      /\ output' = [output EXCEPT ![Len(output)] =
           <<"bytes", @[2] \o <<pcStr[ulCount + 1] \div 16, pcStr[ulCount + 1] % 16>>>>]
      /\ ulCount' = ulCount + 1
      /\ UNCHANGED <<ulValue, ulNeg, ulIdx, pcBuf, ulStrlen, pcStr>>
  BY DEF IInv, WriteByte, numberVars, bytesVars
<1>2. PICK s \in Starts(call) :
        /\ DirectiveAt(s) /\ call.format[s + 1] = "."
        /\ FormatFrom(s + 4) /\ ArgumentsAfter(ArgsBefore(call, s) + 2) /\ Written(s, 1)
        /\ ulIdx = call.args[ArgsBefore(call, s) + 1]
        /\ pcStr = call.args[ArgsBefore(call, s) + 2]
        /\ ulIdx \in Nat /\ ulCount \in Nat /\ ulIdx < ULONG
        /\ output[Len(output)] = <<"bytes", Hexadecimal(pcStr, ulCount)>>
  BY <1>1, InsideBytes
<1>3. output' = LastReplaced(output, x)
  BY <1>1 DEF LastReplaced
<1>4. x = <<"bytes", Hexadecimal(pcStr, ulCount + 1)>>
  <2>1. output[Len(output)][2] = Hexadecimal(pcStr, ulCount)
    BY <1>2
  <2>2. Hexadecimal(pcStr, ulCount) \o <<pcStr[ulCount + 1] \div 16, pcStr[ulCount + 1] % 16>>
          = Hexadecimal(pcStr, ulCount + 1)
    BY <1>2, HexadecimalNext
  <2> QED
    BY <2>1, <2>2
<1> HIDE DEF x
<1>5. Holds(output', call, s, 1) /\ output'[Len(output')] = x
  <2>1. Holds(output, call, s, 1)
    BY <1>2 DEF Written
  <2>2. call \in Calls
    BY <1>1
  <2>3. Holds(LastReplaced(output, x), call, s, 1)
    BY <2>1, <2>2, LastPiece
  <2>4. LastReplaced(output, x)[Len(LastReplaced(output, x))] = x
    BY <2>1, <2>2, LastPiece
  <2> QED
    BY <1>3, <2>3, <2>4
<1>6. ulCount' \in 0..ULONG - 1 /\ ulCount' <= ulIdx'
  <2>1. ULONG \in Nat
    BY WidthOfULONG
  <2> QED
    BY <1>1, <1>2, <2>1
<1>7. TypeOK'
  <2>1. {ulValue, ulIdx, ulStrlen} \subseteq 0..ULONG - 1
    BY DEF IInv, TypeOK
  <2>2. {ulCount', ulValue', ulIdx', ulStrlen'} \subseteq 0..ULONG - 1
    BY <1>1, <1>6, <2>1
  <2> QED
    BY <1>1, <2>2 DEF IInv, TypeOK
<1>8. Written(s, 1)' /\ DirectiveAt(s)'
  BY <1>1, <1>2, <1>5 DEF Written, DirectiveAt
<1>9. FormatFrom(s + 4)' /\ ArgumentsAfter(ArgsBefore(call, s) + 2)'
  BY <1>1, <1>2 DEF FormatFrom, ArgumentsAfter, ArgumentCount
<1>10. output'[Len(output')] = <<"bytes", Hexadecimal(pcStr', ulCount')>>
  BY <1>1, <1>4, <1>5
<1>11. InBytes'
  BY <1>1, <1>2, <1>6, <1>8, <1>9, <1>10 DEF InBytes
<1>12. InFormat' /\ InDirective' /\ InNumber' /\ MeaningWritten'
  BY <1>1 DEF InFormat, InDirective, InNumber, MeaningWritten
<1> QED
  BY <1>1, <1>7, <1>11, <1>12 DEF IInv

\* The bytes are out: the last piece is the one of the directive.
LEMMA BytesOut == IInv /\ EndBytes => IInv'
<1> SUFFICES ASSUME IInv, EndBytes PROVE IInv'
  OBVIOUS
<1>1. /\ call \in Calls /\ pc = "bytes" /\ ulCount >= ulIdx /\ pc' = "format"
      /\ UNCHANGED <<call, format, vaArgP, output>>
  BY DEF IInv, EndBytes
<1>2. UNCHANGED <<ulCount, ulValue, ulNeg, ulIdx, pcBuf, ulStrlen>>
  BY DEF EndBytes, numberVars, bytesVars
<1>3. PICK s \in Starts(call) :
        /\ call.format[s + 1] = "." /\ call.format[s] = "%"
        /\ FormatFrom(s + 4) /\ ArgumentsAfter(ArgsBefore(call, s) + 2) /\ Written(s, 1)
        /\ ulIdx = call.args[ArgsBefore(call, s) + 1]
        /\ pcStr = call.args[ArgsBefore(call, s) + 2]
        /\ ulIdx \in Nat /\ ulCount \in Nat /\ ulCount <= ulIdx
        /\ output[Len(output)] = <<"bytes", Hexadecimal(pcStr, ulCount)>>
  BY <1>1, InsideBytes
<1>4. ulCount = ulIdx
  BY <1>1, <1>3
<1>5. (ArgsBefore(call, s) + 1) + 1 = ArgsBefore(call, s) + 2
  <2> ArgsBefore(call, s) \in Nat
    BY <1>1, ArgsNext
  <2> QED
    OBVIOUS
<1>6. call.format[s + 1] # "d"
  BY <1>3
<1>7. Piece(call, s) = <<"bytes", Hexadecimal(call.args[(ArgsBefore(call, s) + 1) + 1],
                                             call.args[ArgsBefore(call, s) + 1])>>
  BY <1>3, <1>6 DEF Piece
<1>8. output[Len(output)] = Piece(call, s)
  BY <1>3, <1>4, <1>5, <1>7
<1>9. s + Length(call, s) = s + 4
  BY <1>3, <1>6 DEF Length
<1>10. Holds(output', call, s + 4, 0)
  <2>1. Holds(output, call, s, 1)
    BY <1>3 DEF Written
  <2>2. Holds(output, call, s + Length(call, s), 0)
    BY <1>1, <1>8, <2>1, WholePiece
  <2> QED
    BY <1>1, <1>9, <2>2
<1>11. ArgsBefore(call, s + 4) = ArgsBefore(call, s) + 2
  BY <1>1, <1>3, ArgsNext
<1>12. TypeOK'
  BY <1>1, <1>2 DEF IInv, TypeOK
<1> QED
  BY <1>1, <1>3, <1>9, <1>10, <1>11, <1>12, BackInFormat

\* At the end of the format every piece is written and every argument is taken.
LEMMA ReturnStep == IInv /\ Return => IInv'
<1> SUFFICES ASSUME IInv, Return PROVE IInv'
  OBVIOUS
<1>1. /\ call \in Calls /\ call' = call /\ pc = "format" /\ format = <<>> /\ pc' = "returned"
      /\ vaArgP' = vaArgP /\ output' = output
  BY DEF IInv, Return
<1>2. UNCHANGED <<ulCount, ulValue, ulNeg, ulIdx, pcBuf, ulStrlen>>
  BY DEF Return, numberVars, bytesVars
<1> DEFINE n == Len(call.format)
<1>3. PICK s \in Starts(call) \union {n + 1} :
        FormatFrom(s) /\ ArgumentsAfter(ArgsBefore(call, s)) /\ Written(s, 0)
  BY <1>1 DEF IInv, InFormat
<1>4. s = n + 1
  <2>1. n \in Nat
    BY <1>1, CallFormat
  <2>2. s \in Nat /\ s > 0 /\ s <= n + 1
    BY <1>3, <2>1 DEF Starts
  <2> QED
    BY <1>1, <1>3, <2>2, FormatLeft
<1>5. Len(output) = Cardinality(Starts(call))
  <2>1. Len(output) = PiecesBefore(call, n + 1) + 0
    BY <1>3, <1>4 DEF Written, Holds
  <2>2. PiecesBefore(call, n + 1) = Cardinality(Starts(call))
    BY <1>1, PiecesEnds
  <2>3. PiecesBefore(call, n + 1) \in Nat
    BY <1>1, PiecesCount
  <2> QED
    BY <2>1, <2>2, <2>3
<1>6. \A r \in Starts(call) : output[PiecesBefore(call, r) + 1] = Piece(call, r)
  <2>1. \A r \in Starts(call) : r < n + 1
    <3> n \in Nat
      BY <1>1, CallFormat
    <3> QED
      BY DEF Starts
  <2> QED
    BY <1>3, <1>4, <2>1 DEF Written, Holds
<1>7. vaArgP = <<>>
  <2>1. ArgumentCount \in Nat
    BY <1>1, ArgumentCountType
  <2>2. vaArgP = [i \in 1..ArgumentCount - ArgumentCount
                    |-> call.args[ArgumentCount + i]]
    BY <1>3, <1>4 DEF ArgumentsAfter, ArgumentCount
  <2>3. ArgumentCount - ArgumentCount = 0
    BY <2>1
  <2> QED
    BY <2>2, <2>3
<1>8. MeaningWritten'
  BY <1>1, <1>5, <1>6, <1>7 DEF MeaningWritten
<1>9. TypeOK'
  BY <1>1, <1>2 DEF IInv, TypeOK
<1>10. InFormat' /\ InDirective' /\ InNumber' /\ InBytes'
  BY <1>1 DEF InFormat, InDirective, InNumber, InBytes
<1> QED
  BY <1>1, <1>8, <1>9, <1>10 DEF IInv

\* A step of something else changes nothing here.
LEMMA Stutters == IInv /\ UNCHANGED vars => IInv'
<1> SUFFICES ASSUME IInv, UNCHANGED vars PROVE IInv'
  OBVIOUS
<1>1. UNCHANGED <<pc, call, format, vaArgP, output, ulCount>>
  BY DEF vars
<1>2. UNCHANGED <<ulValue, ulNeg, ulIdx, pcBuf, ulStrlen, pcStr>>
  BY DEF vars, numberVars, bytesVars
<1>3. call' \in Calls
  BY <1>1 DEF IInv
<1>4. TypeOK'
  BY <1>1, <1>2 DEF IInv, TypeOK
<1>5. InFormat'
  BY <1>1, <1>2 DEF IInv, InFormat, FormatFrom, ArgumentsAfter, ArgumentCount, Written
<1>6. InDirective'
  BY <1>1, <1>2 DEF IInv, InDirective, FormatFrom, ArgumentsAfter, ArgumentCount, Written,
     DirectiveAt
<1>7. InNumber'
  BY <1>1, <1>2 DEF IInv, InNumber, FormatFrom, ArgumentsAfter, ArgumentCount, Written,
     DirectiveAt, Searching, DigitsOut
<1>8. InBytes'
  BY <1>1, <1>2 DEF IInv, InBytes, FormatFrom, ArgumentsAfter, ArgumentCount, Written,
     DirectiveAt
<1>9. MeaningWritten'
  BY <1>1 DEF IInv, MeaningWritten
<1> QED
  BY <1>3, <1>4, <1>5, <1>6, <1>7, <1>8, <1>9 DEF IInv

\* Every step keeps the invariant.
LEMMA Step == IInv /\ [Next]_vars => IInv'
<1> SUFFICES ASSUME IInv, [Next]_vars PROVE IInv'
  OBVIOUS
<1>1. CASE Next
  BY <1>1, TextStep, NumberStep, LengthStep, BytesStep, PowerStep, SignStep, DigitStep,
     NumberOut, ByteStep, BytesOut, ReturnStep DEF Next
<1>2. CASE UNCHANGED vars
  BY <1>2, Stutters
<1> QED
  BY <1>1, <1>2

\* The invariant holds in every behaviour.
LEMMA Invariant == Spec => []IInv
  BY Initially, Step, PTL DEF Spec

\* The unsigned variables stay in their width and the characters of every number fit
\* pcBuf, in every call and for every width of at most 32 bits (printf.c:85-89, 455-516).
THEOREM PrintfTypeCorrect == Spec => []TypeOK
  BY Invariant, PTL DEF IInv

\* What semihosted_printf has written when it returns is what the format says, piece by
\* piece, and it has taken every argument (printf.c:85-567).
THEOREM PrintfWritesMeaning == Spec => []MeaningWritten
  BY Invariant, PTL DEF IInv
=============================================================================
