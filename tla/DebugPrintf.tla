------------------------------- MODULE DebugPrintf -------------------------------
(***************************************************************************)
(* semihosted_printf (src/src/dbg/printf.c), which debug builds put in the *)
(* place of PRINTF: one pass over the format and the variable arguments,   *)
(* with the conversion of numbers in unsigned arithmetic that wraps.  The  *)
(* directives are those of the plugin's calls, %d and %.*H.  A format is a *)
(* sequence of tokens: "%", the characters of a directive, and each run of *)
(* other text as one token; the output is a sequence of pieces, one for    *)
(* each text and each directive: <<"text", tokens>>, <<"number",           *)
(* characters>> and <<"bytes", nibbles>>.                                  *)
(***************************************************************************)
EXTENDS Numeral, Sequences

CONSTANTS
  ULONG,    \* one more than the largest unsigned long: 2^32 on the device
  Calls     \* the calls of the plugin: [format, args]

\* A byte fits an unsigned long, and an unsigned long fits 32 bits, as on the device:
\* pcBuf has no room for the digits of a wider one.
ASSUME ULONGAssumption ==
  ULONG \in Nat /\ ULONG > 256 /\ ULONG \div 65536 <= 65536

\* How many tokens the text or the directive at s has.
Length(c, s) ==
  IF c.format[s] # "%" THEN 1 ELSE IF c.format[s + 1] = "d" THEN 2 ELSE 4

\* Where a text or a directive starts: not inside of a directive.
Starts(c) ==
  {s \in 1..Len(c.format) :
     \A r \in 1..s - 1 : c.format[r] = "%" => s >= r + Length(c, r)}

\* The arguments taken before s: one by each directive, one more by its precision.
ArgsBefore(c, s) ==
  Cardinality({r \in 1..s - 1 :
                 \/ c.format[r] = "%"
                 \/ r > 1 /\ c.format[r - 1] = "%" /\ c.format[r] = "."})

\* The directives are %d and %.*H, two texts never follow each other, and the arguments
\* are the ones the directives take: a number in the range of long, or how many bytes
\* to write and at least as many bytes.
Suits(c) ==
  LET tokens == c.format
      n      == Len(tokens)
      first  == [s \in Starts(c) |-> ArgsBefore(c, s) + 1]
  IN  /\ tokens \in Seq(STRING)
      /\ \A s \in 1..n : tokens[s] = "%" =>
           \/ s + 1 <= n /\ tokens[s + 1] = "d"
           \/ s + 3 <= n /\ tokens[s + 1] = "." /\ tokens[s + 2] = "*" /\ tokens[s + 3] = "H"
      /\ \A s \in Starts(c) : s < n => tokens[s] = "%" \/ tokens[s + 1] = "%"
      /\ c.args = [k \in 1..ArgsBefore(c, n + 1) |-> c.args[k]]
      /\ \A s \in Starts(c) : tokens[s] = "%" =>
           IF tokens[s + 1] = "d"
           THEN c.args[first[s]] \in 1 - ULONG \div 2..ULONG \div 2 - 1
           ELSE /\ c.args[first[s]] \in 0..ULONG - 1
                /\ c.args[first[s] + 1] \in Seq(0..255)
                /\ Len(c.args[first[s] + 1]) >= c.args[first[s]]

ASSUME CallsAssumption == \A c \in Calls : Suits(c)

VARIABLES
  pc,          \* where the function is: in the format, in a directive, or in a loop
  call,        \* the call
  format,      \* what is left of its format
  vaArgP,      \* what is left of its arguments
  output,      \* what has been written
  ulCount,     \* the padding asked for; the byte written next
  ulValue, ulNeg, ulIdx,   \* the number, its sign, a power of the base
  pcBuf,       \* the characters of the number
  ulStrlen, pcStr          \* how many bytes to write; the bytes

numberVars == <<ulValue, ulNeg, ulIdx, pcBuf>>
bytesVars  == <<ulStrlen, pcStr>>
vars == <<pc, call, format, vaArgP, output, ulCount, numberVars, bytesVars>>

ulBase == 10
BufferSize == 16
Fill == 12       \* the fill character, a space

\* PRINTF(format, ...)
Init ==
  /\ pc = "format"
  /\ call \in Calls
  /\ format = call.format /\ vaArgP = call.args
  /\ output = <<>>
  /\ ulCount = 0 /\ ulValue = 0 /\ ulNeg = FALSE /\ ulIdx = 0 /\ pcBuf = <<>>
  /\ ulStrlen = 0 /\ pcStr = <<>>

\* prints: nothing is written for nothing; the chunks in which a text goes out through
\* the local buffer are not told apart.
Prints(kind, characters) ==
  output' = IF characters = <<>> THEN output ELSE Append(output, <<kind, characters>>)

\* The first % of what is left, or the end.
TextLength ==
  CHOOSE n \in 0..Len(format) :
    /\ \A i \in 1..n : format[i] # "%"
    /\ n = Len(format) \/ format[n + 1] = "%"

\* The text up to the next directive, which begins with nothing asked for.
WriteText ==
  /\ pc = "format" /\ format # <<>>
  /\ Prints("text", SubSeq(format, 1, TextLength))
  /\ IF TextLength = Len(format)
     THEN pc' = "format" /\ UNCHANGED <<ulCount, ulStrlen>>
     ELSE pc' = "directive" /\ ulCount' = 0 /\ ulStrlen' = 0
  /\ format' = SubSeq(format, TextLength + 2, Len(format))
  /\ UNCHANGED <<call, vaArgP, numberVars, pcStr>>

\* The next character of a directive, and the argument that goes with it.
Take(character) ==
  /\ pc = "directive" /\ Head(format) = character
  /\ vaArgP' = Tail(vaArgP)

\* %d: the number and its sign.
TakeNumber ==
  /\ Take("d")
  /\ format' = Tail(format)
  /\ ulNeg' = (Head(vaArgP) < 0)
  /\ ulValue' = Magnitude(Head(vaArgP))
  /\ ulIdx' = 1
  /\ pcBuf' = <<>>
  /\ pc' = "convert"
  /\ UNCHANGED <<call, output, ulCount, bytesVars>>

\* %.*: how many bytes; the directive goes on.
TakeLength ==
  /\ Take(".")
  /\ SubSeq(format, 2, 3) = <<"*", "H">>
  /\ format' = SubSeq(format, 3, Len(format))
  /\ ulStrlen' = Head(vaArgP)
  /\ UNCHANGED <<pc, call, output, ulCount, numberVars, pcStr>>

\* %H: the bytes themselves, of which as many are written as were asked for.
TakeBytes ==
  /\ Take("H")
  /\ format' = Tail(format)
  /\ pcStr' = Head(vaArgP)
  /\ ulIdx' = ulStrlen
  /\ ulCount' = 0
  /\ pc' = "bytes"
  /\ output' = Append(output, <<"bytes", <<>>>>)
  /\ UNCHANGED <<call, ulValue, ulNeg, pcBuf, ulStrlen>>

\* Mutant of NextPower: the product is taken for exact.
NextPowerUnchecked == (ulIdx * ulBase) % ULONG <= ulValue

\* Whether the next power of the base is no larger than the number, and no
\* larger than a variable can hold.
NextPower ==
  LET product == (ulIdx * ulBase) % ULONG
  IN  product <= ulValue /\ product \div ulBase = ulIdx

\* Mutant of FindPower: the power is not multiplied.
FindPowerStays ==
  /\ pc = "convert" /\ NextPower
  /\ ulIdx' = ulIdx
  /\ UNCHANGED <<pc, call, format, vaArgP, output, ulCount, ulValue, ulNeg, pcBuf, bytesVars>>

\* Every further digit takes one off the padding.
FindPower ==
  /\ pc = "convert" /\ NextPower
  /\ ulIdx' = ulIdx * ulBase
  /\ ulCount' = (ulCount - 1) % ULONG
  /\ UNCHANGED <<pc, call, format, vaArgP, output, ulValue, ulNeg, pcBuf, bytesVars>>

\* What is left of the padding, the sign counted.
PaddingCount == IF ulNeg THEN (ulCount - 1) % ULONG ELSE ulCount

\* Mutant of Padding: the padding that is left is not tested for being too much.
PaddingUnbounded ==
  IF PaddingCount > 1 THEN [i \in 1..PaddingCount - 1 |-> Fill] ELSE <<>>

Padding ==
  IF PaddingCount > 1 /\ PaddingCount < 16
  THEN [i \in 1..PaddingCount - 1 |-> Fill] ELSE <<>>

\* The padding and the sign.
WriteSign ==
  /\ pc = "convert" /\ ~NextPower
  /\ ulCount' = IF Padding = <<>> THEN PaddingCount ELSE 0
  /\ pcBuf' = Padding \o (IF ulNeg THEN <<Minus>> ELSE <<>>)
  /\ pc' = "digits"
  /\ UNCHANGED <<call, format, vaArgP, output, ulValue, ulNeg, ulIdx, bytesVars>>

WriteDigit ==
  /\ pc = "digits" /\ ulIdx # 0
  /\ pcBuf' = Append(pcBuf, (ulValue \div ulIdx) % ulBase)
  /\ ulIdx' = ulIdx \div ulBase
  /\ UNCHANGED <<pc, call, format, vaArgP, output, ulCount, ulValue, ulNeg, bytesVars>>

WriteNumber ==
  /\ pc = "digits" /\ ulIdx = 0
  /\ Prints("number", pcBuf)
  /\ pc' = "format"
  /\ UNCHANGED <<call, format, vaArgP, ulCount, numberVars, bytesVars>>

\* The first n bytes in hexadecimal, two digits for each.
Hexadecimal(bytes, n) ==
  [i \in 1..2 * n |-> IF i % 2 = 1 THEN bytes[(i + 1) \div 2] \div 16
                                  ELSE bytes[i \div 2] % 16]

\* The two digits of the next byte.
WriteByte ==
  /\ pc = "bytes" /\ ulCount < ulIdx
  /\ output' = [output EXCEPT ![Len(output)] =
       <<"bytes", @[2] \o <<pcStr[ulCount + 1] \div 16, pcStr[ulCount + 1] % 16>>>>]
  /\ ulCount' = ulCount + 1
  /\ UNCHANGED <<pc, call, format, vaArgP, numberVars, bytesVars>>

EndBytes ==
  /\ pc = "bytes" /\ ulCount >= ulIdx
  /\ pc' = "format"
  /\ UNCHANGED <<call, format, vaArgP, output, ulCount, numberVars, bytesVars>>

Return ==
  /\ pc = "format" /\ format = <<>>
  /\ pc' = "returned"
  /\ UNCHANGED <<call, format, vaArgP, output, ulCount, numberVars, bytesVars>>

Next ==
  \/ WriteText \/ TakeNumber \/ TakeLength \/ TakeBytes
  \/ FindPower \/ WriteSign \/ WriteDigit \/ WriteNumber
  \/ WriteByte \/ EndBytes \/ Return

\* The function runs to its end once called.
Spec == Init /\ [][Next]_vars /\ WF_vars(Next)

-----------------------------------------------------------------------------

\* Unsigned variables are below ULONG; the number's characters fit pcBuf[16].
TypeOK ==
  /\ pc \in {"format", "directive", "convert", "digits", "bytes", "returned"}
  /\ {ulCount, ulValue, ulIdx, ulStrlen} \subseteq 0..ULONG - 1
  /\ ulNeg \in BOOLEAN
  /\ Len(pcBuf) <= BufferSize

\* What the text or the directive at s says of the arguments.
Piece(c, s) ==
  LET k == ArgsBefore(c, s) + 1
  IN  IF c.format[s] # "%" THEN <<"text", <<c.format[s]>>>>
      ELSE IF c.format[s + 1] = "d" THEN <<"number", Numeral(c.args[k])>>
      ELSE <<"bytes", Hexadecimal(c.args[k + 1], c.args[k])>>

\* How many texts and directives there are before s.
PiecesBefore(c, s) == Cardinality({r \in Starts(c) : r < s})

\* What is written is what the format says, a piece for each text and each directive
\* in their order; every argument is used and none is left: the search for the highest
\* power of ten stops at the width of unsigned long, and the count of the padding,
\* which wraps below zero, never pads (printf.c:455-516).
MeaningWritten ==
  pc = "returned" =>
    /\ Len(output) = Cardinality(Starts(call))
    /\ \A s \in Starts(call) : output[PiecesBefore(call, s) + 1] = Piece(call, s)
    /\ vaArgP = <<>>

\* Every loop ends, also for the largest numbers (printf.c:106, 354, 456, 510).
Returns == <>(pc = "returned")
=============================================================================
