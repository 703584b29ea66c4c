------------------------------ MODULE Itoa_proofs ------------------------------
(***************************************************************************)
(* itoa stays inside every buffer of five bytes or more, and leaves the    *)
(* numeral of its argument there, for every number of at most three        *)
(* digits.  The first is due to a bound on the digits that are still to    *)
(* come, the second to what the buffer holds after each turn: the digits   *)
(* so far, then the numeral reversed outside of the two pointers.          *)
(***************************************************************************)
EXTENDS Itoa, FiniteSetTheorems, TLAPS

\* Before the digit at wstr is written, at most 3 - wstr digits are left; three
\* digits, the sign and the terminating zero are all that the text ever holds.
DigitsLeft ==
  /\ pc = "convert" => \/ wstr = 0
                       \/ wstr = 1 /\ value <= 99
                       \/ wstr = 2 /\ value <= 9
  /\ pc = "sign" => wstr \in 1..3
  /\ pc = "reverse" => end \in 0..3

IInv == TypeOK /\ DigitsLeft

\* A turn of the loop takes the last digit off.
LEMMA LastDigit ==
  ASSUME NEW n \in 0..999
  PROVE  /\ n % 10 \in 0..9
         /\ n \div 10 \in 0..99
         /\ n <= 99 => n \div 10 <= 9
         /\ n <= 9 => n \div 10 = 0
  OBVIOUS

\* Before any call there are no digits to come.
LEMMA Initially == Init => IInv
  BY ItoaAssumption
  DEF Init, IInv, TypeOK, DigitsLeft, Positions, Characters, NUL

\* Every turn of the loops keeps the bound on the digits to come.
LEMMA Step == IInv /\ [Next]_vars => IInv'
<1> SUFFICES ASSUME IInv, [Next]_vars PROVE IInv'
  OBVIOUS
<1> USE ItoaAssumption DEF IInv, TypeOK, DigitsLeft, Positions, Characters, NUL, Minus
<1>1. ASSUME NEW v \in Values, Call(v) PROVE IInv'
  BY <1>1 DEF Call, Magnitude
<1>2. CASE Convert
  <2>1. /\ value % 10 \in 0..9 /\ value \div 10 \in 0..99
        /\ value <= 99 => value \div 10 <= 9
        /\ value <= 9 => value \div 10 = 0
    BY LastDigit
  <2>2. wstr \in 0..2
    BY <1>2 DEF Convert
  <2>3. str' \in [Positions -> Characters]
    BY <1>2, <2>1 DEF Convert
  <2>4. QED
    BY <1>2, <2>1, <2>2, <2>3 DEF Convert
<1>3. CASE Terminate
  <2>1. wstr \in 1..3 /\ TextEnd \in 1..4
    BY <1>3 DEF Terminate, TextEnd
  <2>2. str' \in [Positions -> Characters]
    BY <1>3 DEF Terminate
  <2>3. QED
    BY <1>3, <2>1, <2>2 DEF Terminate
<1>4. CASE Swap
  <2>1. begin \in Positions /\ end \in 1..3 /\ end > begin
    BY <1>4 DEF Swap
  <2>2. str' \in [Positions -> Characters]
    BY <1>4, <2>1 DEF Swap
  <2>3. QED
    BY <1>4, <2>1, <2>2 DEF Swap
<1>5. CASE Return
  BY <1>5 DEF Return
<1>6. CASE UNCHANGED vars
  BY <1>6 DEF vars
<1>7. QED
  BY <1>1, <1>2, <1>3, <1>4, <1>5, <1>6 DEF Next, Loops

\* The bound holds throughout any calls.
LEMMA Invariant == Spec => []IInv
  BY Initially, Step, PTL DEF Spec

\* The pointers and characters of itoa and strreverse have their types
\* (handle_query_contract_ui.c:7-45).
THEOREM ItoaTypeCorrect == Spec => []TypeOK
  BY Invariant, PTL DEF IInv

\* No turn of either loop writes outside the caller's buffer, whatever its length
\* from five on, and whatever the number of at most three digits.
THEOREM ItoaStaysInBuffer == Spec => []StaysInBuffer
<1>1. IInv => StaysInBuffer
  BY ItoaAssumption
  DEF IInv, TypeOK, DigitsLeft, StaysInBuffer, Positions, TextEnd
<1>2. QED
  BY <1>1, Invariant, PTL

-----------------------------------------------------------------------------
(***************************************************************************)
(* The digits of a number, and how many they are.                          *)
(***************************************************************************)

\* What is left of a number of three digits when k of them are written.
Rest(n, k) == CASE k = 0 -> n
                [] k = 1 -> n \div 10
                [] OTHER -> n \div 100

\* The powers of ten that a number of three digits is compared with.
LEMMA PowersOfTen ==
  /\ 10^0 = 1 /\ 10^1 = 10 /\ 10^2 = 100
  /\ \A k \in 3..9 : 10^k \in Int /\ 10^k >= 1000
<1>1. 10^0 = 1 /\ 10^1 = 10 /\ 10^2 = 100
  OBVIOUS
<1>2. ASSUME NEW k \in 3..9
      PROVE  10^k \in Int /\ 10^k >= 1000
  <2>1. \/ k = 3 \/ k = 4 \/ k = 5 \/ k = 6 \/ k = 7 \/ k = 8 \/ k = 9
    BY <1>2
  <2>2. CASE k = 3
    <3> 10^k = 1000
      BY <2>2
    <3> QED
      OBVIOUS
  <2>3. CASE k = 4
    <3> 10^k = 10000
      BY <2>3
    <3> QED
      OBVIOUS
  <2>4. CASE k = 5
    <3> 10^k = 100000
      BY <2>4
    <3> QED
      OBVIOUS
  <2>5. CASE k = 6
    <3> 10^k = 1000000
      BY <2>5
    <3> QED
      OBVIOUS
  <2>6. CASE k = 7
    <3> 10^k = 10000000
      BY <2>6
    <3> QED
      OBVIOUS
  <2>7. CASE k = 8
    <3> 10^k = 100000000
      BY <2>7
    <3> QED
      OBVIOUS
  <2>8. CASE k = 9
    <3> 10^k = 1000000000
      BY <2>8
    <3> QED
      OBVIOUS
  <2> QED
    BY <2>1, <2>2, <2>3, <2>4, <2>5, <2>6, <2>7, <2>8
<1> QED
  BY <1>1, <1>2

\* A number of n digits is one from 10^(n-1) on.
LEMMA CountOfDigits ==
  ASSUME NEW n \in 0..999
  PROVE  DigitCount(n) = IF n <= 9 THEN 1 ELSE IF n <= 99 THEN 2 ELSE 3
<1> DEFINE powers == {k \in 1..9 : 10^k <= n}
<1>1. \A k \in 1..9 : 10^k <= n <=> (k = 1 /\ 10 <= n) \/ (k = 2 /\ 100 <= n)
  <2> TAKE k \in 1..9
  <2>1. k = 1 \/ k = 2 \/ k \in 3..9
    OBVIOUS
  <2>2. CASE k = 1
    BY <2>2, PowersOfTen
  <2>3. CASE k = 2
    BY <2>3, PowersOfTen
  <2>4. CASE k \in 3..9
    <3> 10^k \in Int /\ 10^k >= 1000
      BY <2>4, PowersOfTen
    <3> QED
      BY <2>4
  <2> QED
    BY <2>1, <2>2, <2>3, <2>4
<1>7. \A k : k \in powers <=> (k = 1 /\ 10 <= n) \/ (k = 2 /\ 100 <= n)
  <2> SUFFICES ASSUME NEW k
               PROVE  k \in powers <=> (k = 1 /\ 10 <= n) \/ (k = 2 /\ 100 <= n)
    OBVIOUS
  <2>1. CASE k \in 1..9
    BY <1>1, <2>1
  <2>2. CASE k \notin 1..9
    BY <2>2
  <2> QED
    BY <2>1, <2>2
<1>2. /\ Cardinality({}) = 0 /\ Cardinality({1}) = 1 /\ Cardinality({1, 2}) = 2
  <2>1. Cardinality({}) = 0
    BY FS_EmptySet
  <2>2. IsFiniteSet({1}) /\ Cardinality({1}) = 1
    BY FS_Singleton
  <2>3. {1} \cup {2} = {1, 2} /\ 2 \notin {1}
    OBVIOUS
  <2>4. Cardinality({1} \cup {2}) = Cardinality({1}) + 1
    BY <2>2, <2>3, FS_AddElement
  <2> QED
    BY <2>1, <2>2, <2>3, <2>4
<1>3. DigitCount(n) = 1 + Cardinality(powers)
  BY DEF DigitCount
<1> HIDE DEF powers
<1>4. CASE n <= 9
  <2> powers = {}
    BY <1>7, <1>4
  <2> QED
    BY <1>2, <1>3, <1>4
<1>5. CASE n > 9 /\ n <= 99
  <2> powers = {1}
    BY <1>7, <1>5
  <2> QED
    BY <1>2, <1>3, <1>5
<1>6. CASE n > 99
  <2> powers = {1, 2}
    BY <1>7, <1>6
  <2> QED
    BY <1>2, <1>3, <1>6
<1> QED
  BY <1>4, <1>5, <1>6

\* The digits, from the last one on, are the last digits of what is left.
LEMMA DigitsFromTheEnd ==
  ASSUME NEW n \in 0..999, NEW k \in 0..DigitCount(n) - 1
  PROVE  /\ DigitCount(n) - k \in DOMAIN Digits(n)
         /\ Digits(n)[DigitCount(n) - k] = Rest(n, k) % 10
<1> DEFINE d == DigitCount(n)
<1>1. d \in 1..3
  BY CountOfDigits
<1> HIDE DEF d
<1>2. d - k \in 1..d /\ d - (d - k) = k /\ k \in 0..2
  BY <1>1 DEF d
<1>3. Digits(n) = [i \in 1..d |-> (n \div 10^(d - i)) % 10]
  BY DEF Digits, d
<1>4. Digits(n)[d - k] = (n \div 10^k) % 10
  BY <1>2, <1>3
<1>5. k = 0 \/ k = 1 \/ k = 2
  BY <1>2
<1>6. n \div 10^k = Rest(n, k)
  <2>1. CASE k = 0
    BY <2>1, PowersOfTen DEF Rest
  <2>2. CASE k = 1
    BY <2>2, PowersOfTen DEF Rest
  <2>3. CASE k = 2
    BY <2>3, PowersOfTen DEF Rest
  <2> QED
    BY <1>5, <2>1, <2>2, <2>3
<1> QED
  BY <1>2, <1>3, <1>4, <1>6 DEF d

-----------------------------------------------------------------------------
(***************************************************************************)
(* What the buffer holds.                                                  *)
(***************************************************************************)

\* The first k digits written are the last of the number.
LastDigits(k) == \A i \in 0..k - 1 : str[i] = Rest(Magnitude(sign), i) % 10

\* Up to begin and from end on the numeral stands; between them it is reversed.
HalfReversed ==
  LET length == NumeralLength(sign)
  IN  /\ begin + end = length - 1
      /\ str[length] = NUL
      /\ \A i \in 0..length - 1 :
           str[i] = IF begin <= i /\ i <= end THEN Numeral(sign)[length - i]
                                              ELSE Numeral(sign)[i + 1]

BufferHolds ==
  /\ pc = "convert" => /\ wstr \in 0..2
                       /\ value = Rest(Magnitude(sign), wstr)
                       /\ wstr # 0 => value # 0
                       /\ LastDigits(wstr)
  /\ pc = "sign" => wstr = DigitCount(Magnitude(sign)) /\ LastDigits(wstr)
  /\ pc = "reverse" => HalfReversed
  /\ NumeralWritten

LEMMA BufferInit == Init => BufferHolds
BY DEF Init, BufferHolds, NumeralWritten

\* How long the text is: the digits and the sign.
LEMMA LengthOfText ==
  ASSUME IInv
  PROVE  /\ Magnitude(sign) \in 0..999
         /\ DigitCount(Magnitude(sign)) \in 1..3
         /\ NumeralLength(sign) = DigitCount(Magnitude(sign)) + (IF sign < 0 THEN 1 ELSE 0)
<1>1. Magnitude(sign) \in 0..999
  BY DEF IInv, TypeOK, Magnitude
<1> QED
  BY <1>1, CountOfDigits DEF NumeralLength

\* A turn of the first loop.
LEMMA ConvertHolds ==
  ASSUME IInv, BufferHolds, Convert
  PROVE  BufferHolds'
<1> DEFINE n == Magnitude(sign)
<1>1. /\ n \in 0..999 /\ wstr \in 0..2 /\ value = Rest(n, wstr)
      /\ wstr # 0 => value # 0
      /\ LastDigits(wstr)
  BY LengthOfText DEF BufferHolds, Convert
<1>2. /\ str' = [str EXCEPT ![wstr] = value % 10] /\ wstr' = wstr + 1 /\ value' = value \div 10
      /\ pc' = IF value' = 0 THEN "sign" ELSE "convert"
      /\ sign' = sign
  BY DEF Convert
<1>3. LastDigits(wstr)'
  <2> SUFFICES ASSUME NEW i \in 0..wstr
               PROVE  str'[i] = Rest(n, i) % 10
    <3> (wstr + 1) - 1 = wstr
      BY <1>1
    <3> QED
      BY <1>2 DEF LastDigits
  <2>1. str \in [Positions -> Characters] /\ wstr \in Positions /\ i \in Positions
    BY <1>1, ItoaAssumption DEF IInv, TypeOK, Positions
  <2>2. CASE i = wstr
    BY <1>1, <1>2, <2>1, <2>2
  <2>3. CASE i # wstr
    <3> i \in 0..wstr - 1
      BY <1>1, <2>3
    <3> QED
      BY <1>1, <1>2, <2>1, <2>3 DEF LastDigits
  <2> QED
    BY <2>2, <2>3
<1> HIDE DEF n
<1>4. CASE value' # 0
  <2>1. wstr' \in 0..2 /\ value' = Rest(n, wstr')
    <3>1. CASE wstr = 0
      BY <1>1, <1>2, <3>1 DEF Rest
    <3>2. CASE wstr = 1
      BY <1>1, <1>2, <3>2 DEF Rest
    <3>3. CASE wstr = 2
      <4> value = n \div 100
        BY <1>1, <3>3 DEF Rest
      <4> QED
        BY <1>1, <1>2, <1>4
    <3> QED
      BY <1>1, <3>1, <3>2, <3>3
  <2> QED
    BY <1>2, <1>3, <1>4, <2>1 DEF BufferHolds, NumeralWritten, n
<1>5. CASE value' = 0
  <2>1. wstr' = DigitCount(n)
    <3>1. CASE wstr = 0
      <4>1. value = n
        BY <1>1, <3>1 DEF Rest
      <4>2. n <= 9
        BY <1>1, <1>2, <1>5, <4>1
      <4> QED
        BY <1>1, <1>2, <3>1, <4>2, CountOfDigits
    <3>2. CASE wstr = 1
      <4>1. value = n \div 10 /\ value # 0
        BY <1>1, <3>2 DEF Rest
      <4>2. n > 9 /\ n <= 99
        BY <1>1, <1>2, <1>5, <4>1
      <4> QED
        BY <1>1, <1>2, <3>2, <4>2, CountOfDigits
    <3>3. CASE wstr = 2
      <4>1. value = n \div 100 /\ value # 0
        BY <1>1, <3>3 DEF Rest
      <4>2. n > 99
        BY <1>1, <4>1
      <4> QED
        BY <1>1, <1>2, <3>3, <4>2, CountOfDigits
    <3> QED
      BY <1>1, <3>1, <3>2, <3>3
  <2> QED
    BY <1>2, <1>3, <1>5, <2>1 DEF BufferHolds, NumeralWritten, n
<1> QED
  BY <1>4, <1>5

\* The sign is the first character of the numeral, and comes last here.
LEMMA TerminateHolds ==
  ASSUME IInv, BufferHolds, Terminate
  PROVE  BufferHolds'
<1> DEFINE n == Magnitude(sign)
           length == NumeralLength(sign)
<1>1. /\ n \in 0..999 /\ wstr = DigitCount(n) /\ wstr \in 1..3
      /\ LastDigits(wstr)
  BY LengthOfText DEF BufferHolds, Terminate
<1>2. length = TextEnd /\ TextEnd \in 1..4 /\ sign \in Int
  BY <1>1, LengthOfText DEF TextEnd, IInv, TypeOK
<1>3. /\ str' = [i \in Positions |-> CASE i = TextEnd -> NUL
                                       [] i = wstr /\ sign < 0 -> Minus
                                       [] OTHER -> str[i]]
      /\ begin' = 0 /\ end' = TextEnd - 1 /\ pc' = "reverse" /\ sign' = sign
  BY DEF Terminate
<1> HIDE DEF n, length
<1>7. wstr \in 1..3
  BY <1>1
<1>4. ASSUME NEW i \in 0..length - 1
      PROVE  str'[i] = Numeral(sign)[length - i]
  <2>1. i \in Positions /\ i # TextEnd
    BY <1>2, ItoaAssumption DEF Positions
  <2>2. CASE i \in 0..wstr - 1
    <3>1. str'[i] = Rest(n, i) % 10
      BY <1>1, <1>3, <2>1, <2>2 DEF LastDigits, n
    <3>2. /\ DigitCount(n) - i \in DOMAIN Digits(n)
          /\ Digits(n)[DigitCount(n) - i] = Rest(n, i) % 10
      BY <1>1, <2>2, DigitsFromTheEnd
    <3>3. CASE sign < 0
      <4>1. Numeral(sign) = [k \in 1..wstr + 1 |-> IF k = 1 THEN Minus ELSE Digits(n)[k - 1]]
        BY <1>1, <3>3 DEF Numeral, Magnitude, n
      <4>2. length = wstr + 1
        BY <1>2, <3>3 DEF TextEnd
      <4>3. length - i \in 1..wstr + 1 /\ length - i # 1 /\ (length - i) - 1 = wstr - i
        BY <1>7, <2>2, <4>2
      <4>4. Numeral(sign)[length - i] = Digits(n)[wstr - i]
        BY <4>1, <4>3
      <4> QED
        BY <1>1, <3>1, <3>2, <4>4
    <3>4. CASE ~(sign < 0)
      <4>1. Numeral(sign) = Digits(n)
        BY <3>4 DEF Numeral, Magnitude, n
      <4>2. length = wstr
        BY <1>2, <3>4 DEF TextEnd
      <4> QED
        BY <1>1, <3>1, <3>2, <4>1, <4>2
    <3> QED
      BY <3>3, <3>4
  <2>3. CASE i \notin 0..wstr - 1
    <3>1. sign < 0 /\ i = wstr /\ length = wstr + 1
      <4>1. length = IF sign < 0 THEN wstr + 1 ELSE wstr
        BY <1>2 DEF TextEnd
      <4>2. sign < 0
        BY <1>7, <2>3, <4>1
      <4> QED
        BY <1>7, <2>3, <4>1, <4>2
    <3>2. str'[i] = Minus
      BY <1>3, <2>1, <3>1
    <3>3. Numeral(sign)[1] = Minus
      <4> Numeral(sign) = [k \in 1..wstr + 1 |-> IF k = 1 THEN Minus ELSE Digits(n)[k - 1]]
        BY <1>1, <3>1 DEF Numeral, Magnitude, n
      <4> QED
        BY <1>7
    <3>4. length - i = 1
      BY <1>7, <3>1
    <3> QED
      BY <3>2, <3>3, <3>4
  <2> QED
    BY <2>2, <2>3
<1>5. str'[length] = NUL
  <2> TextEnd \in Positions
    BY <1>2, ItoaAssumption DEF Positions
  <2>1. str'[TextEnd] = NUL
    <3> ~(TextEnd = wstr /\ sign < 0)
      BY <1>7 DEF TextEnd
    <3> QED
      BY <1>3
  <2> QED
    BY <1>2, <2>1
<1>6. HalfReversed'
  <2>1. begin' = 0 /\ end' = length - 1 /\ length \in Nat
    BY <1>2, <1>3
  <2>2. begin' + end' = length - 1
    BY <2>1
  <2>3. ASSUME NEW i \in 0..length - 1
        PROVE  str'[i] = IF begin' <= i /\ i <= end' THEN Numeral(sign)[length - i]
                                                     ELSE Numeral(sign)[i + 1]
    <3> begin' <= i /\ i <= end'
      BY <2>1
    <3> QED
      BY <1>4
  <2> QED
    BY <1>3, <1>5, <2>2, <2>3 DEF HalfReversed, length
<1> QED
  BY <1>3, <1>6 DEF BufferHolds, NumeralWritten

\* A turn of the second loop.
LEMMA SwapHolds ==
  ASSUME IInv, BufferHolds, Swap
  PROVE  BufferHolds'
<1> DEFINE length == NumeralLength(sign)
<1>1. length \in 1..4
  BY LengthOfText DEF IInv, TypeOK
<1>2. /\ begin + end = length - 1 /\ str[length] = NUL
      /\ \A i \in 0..length - 1 :
           str[i] = IF begin <= i /\ i <= end THEN Numeral(sign)[length - i]
                                              ELSE Numeral(sign)[i + 1]
  BY DEF BufferHolds, HalfReversed, Swap
<1>3. /\ str' = [str EXCEPT ![begin] = str[end], ![end] = str[begin]]
      /\ begin' = begin + 1 /\ end' = end - 1 /\ pc' = "reverse" /\ sign' = sign /\ end > begin
  BY DEF Swap
<1>4. /\ begin \in Nat /\ end \in Nat /\ end \in 0..length - 1 /\ begin \in 0..length - 1
      /\ begin \in Positions /\ end \in Positions /\ str \in [Positions -> Characters]
  <2>1. begin \in Nat /\ end \in Int /\ str \in [Positions -> Characters]
    BY ItoaAssumption DEF IInv, TypeOK, Positions
  <2>2. end \in 0..length - 1 /\ begin \in 0..length - 1
    BY <1>1, <1>2, <1>3, <2>1
  <2> QED
    BY <1>1, <2>1, <2>2, ItoaAssumption DEF Positions
<1> HIDE DEF length
<1>5. ASSUME NEW i \in 0..length - 1
      PROVE  str'[i] = IF begin + 1 <= i /\ i <= end - 1 THEN Numeral(sign)[length - i]
                                                         ELSE Numeral(sign)[i + 1]
  <2>1. i \in Positions
    BY <1>1, ItoaAssumption DEF Positions
  <2>2. CASE i = begin
    <3>1. str'[i] = str[end]
      BY <1>3, <1>4, <2>2
    <3>2. str[end] = Numeral(sign)[length - end] /\ length - end = i + 1
      BY <1>1, <1>2, <1>3, <1>4, <2>2
    <3> QED
      BY <1>4, <2>2, <3>1, <3>2
  <2>3. CASE i = end
    <3>1. str'[i] = str[begin]
      BY <1>3, <1>4, <2>3
    <3>2. str[begin] = Numeral(sign)[length - begin] /\ length - begin = i + 1
      BY <1>1, <1>2, <1>3, <1>4, <2>3
    <3> QED
      BY <1>4, <2>3, <3>1, <3>2
  <2>4. CASE i # begin /\ i # end
    <3>1. str'[i] = str[i]
      BY <1>3, <1>4, <2>1, <2>4
    <3>2. (begin <= i /\ i <= end) <=> (begin + 1 <= i /\ i <= end - 1)
      BY <1>1, <1>4, <2>4
    <3> QED
      BY <1>2, <3>1, <3>2
  <2> QED
    BY <2>2, <2>3, <2>4
<1>6. str'[length] = NUL
  <2> length \in Positions /\ length # begin /\ length # end
    BY <1>1, <1>4, ItoaAssumption DEF Positions
  <2> QED
    BY <1>2, <1>3, <1>4
<1>7. begin' + end' = length - 1
  BY <1>2, <1>3, <1>4
<1>8. HalfReversed'
  BY <1>3, <1>5, <1>6, <1>7 DEF HalfReversed, length
<1> QED
  BY <1>3, <1>8 DEF BufferHolds, NumeralWritten

\* When the pointers have met, all of the numeral stands.
LEMMA ReturnHolds ==
  ASSUME IInv, BufferHolds, Return
  PROVE  BufferHolds'
<1> DEFINE length == NumeralLength(sign)
<1>1. length \in 1..4
  BY LengthOfText DEF IInv, TypeOK
<1>2. /\ begin + end = length - 1 /\ str[length] = NUL
      /\ \A i \in 0..length - 1 :
           str[i] = IF begin <= i /\ i <= end THEN Numeral(sign)[length - i]
                                              ELSE Numeral(sign)[i + 1]
  BY DEF BufferHolds, HalfReversed, Return
<1>3. end <= begin /\ begin \in Int /\ end \in Int
  BY ItoaAssumption DEF Return, IInv, TypeOK, Positions
<1> HIDE DEF length
<1>4. ASSUME NEW i \in 1..length
      PROVE  str[i - 1] = Numeral(sign)[i]
  <2>1. i - 1 \in 0..length - 1 /\ (i - 1) + 1 = i
    BY <1>1
  <2>2. CASE begin <= i - 1 /\ i - 1 <= end
    <3> length - (i - 1) = i
      BY <1>1, <1>2, <1>3, <2>2
    <3> QED
      BY <1>2, <2>1, <2>2
  <2>3. CASE ~(begin <= i - 1 /\ i - 1 <= end)
    BY <1>2, <2>1, <2>3
  <2> QED
    BY <2>2, <2>3
<1>5. length < BufferSize
  BY <1>1, ItoaAssumption
<1>6. UNCHANGED <<sign, str>> /\ pc' = "returned"
  BY DEF Return
<1>7. NumeralWritten'
  BY <1>2, <1>4, <1>5, <1>6 DEF NumeralWritten, length
<1> QED
  BY <1>6, <1>7 DEF BufferHolds

\* Every turn of the loops keeps what the buffer holds.
LEMMA BufferStep == IInv /\ BufferHolds /\ [Next]_vars => BufferHolds'
<1> SUFFICES ASSUME IInv, BufferHolds, [Next]_vars
             PROVE  BufferHolds'
  OBVIOUS
<1>1. ASSUME NEW v \in Values, Call(v)
      PROVE  BufferHolds'
  <2>1. /\ pc' = "convert" /\ value' = Magnitude(v) /\ sign' = v /\ wstr' = 0
    BY <1>1 DEF Call
  <2> QED
    BY <2>1 DEF BufferHolds, Rest, LastDigits, NumeralWritten
<1>2. CASE UNCHANGED vars
  BY <1>2 DEF vars, BufferHolds, LastDigits, HalfReversed, NumeralWritten
<1> QED
  BY <1>1, <1>2, ConvertHolds, TerminateHolds, SwapHolds, ReturnHolds DEF Next, Loops

\* Whatever the number of at most three digits and the length of the buffer from five
\* on, what itoa leaves is the numeral of its argument and a terminating zero: the two
\* loops undo each other, the sign in front (handle_query_contract_ui.c:7-45).
THEOREM ItoaWritesNumeral == Spec => []NumeralWritten
<1>1. Spec => []BufferHolds
  BY Initially, Step, BufferInit, BufferStep, PTL DEF Spec
<1>2. BufferHolds => NumeralWritten
  BY DEF BufferHolds
<1> QED
  BY <1>1, <1>2, PTL
=============================================================================
