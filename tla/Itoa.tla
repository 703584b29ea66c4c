---------------------------------- MODULE Itoa ----------------------------------
(***************************************************************************)
(* itoa and strreverse (src/src/handle_query_contract_ui.c:7-45): the      *)
(* digits of a number are written into the caller's buffer from the least  *)
(* significant one on, then the buffer is reversed in place.  One action   *)
(* per turn of each loop.  Every caller asks for base 10.                  *)
(***************************************************************************)
EXTENDS Numeral

CONSTANTS
  Values,       \* the numbers the callers print
  BufferSize    \* the length of the caller's buffer

\* The smallest buffer is tmp[5] in set_item_types_ui; no number has four digits.
ASSUME ItoaAssumption == Values \subseteq -999..999 /\ BufferSize \in Nat /\ BufferSize >= 5

VARIABLES
  pc,           \* "idle", in one of the loops, or "returned"
  value, sign,  \* what is left of the number; the number
  str, wstr,    \* the buffer, and the position written next
  begin, end    \* what strreverse has still to reverse

vars == <<pc, value, sign, str, wstr, begin, end>>

Positions == 0..BufferSize - 1
Characters == 0..NUL

Init ==
  /\ pc = "idle"
  /\ value = 0 /\ sign = 0
  /\ str = [i \in Positions |-> NUL] /\ wstr = 0
  /\ begin = 0 /\ end = 0

\* The caller has just zeroed the buffer; itoa sets the sign aside.
Call(v) ==
  /\ pc \in {"idle", "returned"}
  /\ pc' = "convert"
  /\ value' = Magnitude(v)
  /\ sign' = v
  /\ str' = [i \in Positions |-> NUL]
  /\ wstr' = 0
  /\ UNCHANGED <<begin, end>>

\* Mutant of Convert: the base is subtracted.
ConvertSubtracts ==
  /\ pc = "convert"
  /\ str' = [str EXCEPT ![wstr] = value % 10]
  /\ wstr' = wstr + 1
  /\ value' = IF value < 10 THEN 0 ELSE value - 10
  /\ pc' = IF value' = 0 THEN "sign" ELSE "convert"
  /\ UNCHANGED <<sign, begin, end>>

\* A digit; at least one is written.
Convert ==
  /\ pc = "convert"
  /\ str' = [str EXCEPT ![wstr] = value % 10]
  /\ wstr' = wstr + 1
  /\ value' = value \div 10
  /\ pc' = IF value' = 0 THEN "sign" ELSE "convert"
  /\ UNCHANGED <<sign, begin, end>>

\* Where the text ends, once the sign is written.
TextEnd == IF sign < 0 THEN wstr + 1 ELSE wstr

\* The sign, the terminating zero, and the call of strreverse.
Terminate ==
  /\ pc = "sign"
  /\ str' = [i \in Positions |-> CASE i = TextEnd -> NUL
                                   [] i = wstr /\ sign < 0 -> Minus
                                   [] OTHER -> str[i]]
  /\ wstr' = TextEnd
  /\ begin' = 0 /\ end' = TextEnd - 1
  /\ pc' = "reverse"
  /\ UNCHANGED <<value, sign>>

\* Mutant of Swap: the pointers stand still.
SwapStandsStill ==
  /\ pc = "reverse" /\ end > begin
  /\ str' = [str EXCEPT ![begin] = str[end], ![end] = str[begin]]
  /\ UNCHANGED <<pc, value, sign, wstr, begin, end>>

\* Mutant of Swap: the first pointer is taken for a copy.
SwapOverwrites ==
  /\ pc = "reverse" /\ end > begin
  /\ str' = [str EXCEPT ![begin] = str[end]]
  /\ begin' = begin + 1 /\ end' = end - 1
  /\ UNCHANGED <<pc, value, sign, wstr>>

Swap ==
  /\ pc = "reverse" /\ end > begin
  /\ str' = [str EXCEPT ![begin] = str[end], ![end] = str[begin]]
  /\ begin' = begin + 1 /\ end' = end - 1
  /\ UNCHANGED <<pc, value, sign, wstr>>

Return ==
  /\ pc = "reverse" /\ end <= begin
  /\ pc' = "returned"
  /\ UNCHANGED <<value, sign, str, wstr, begin, end>>

Loops == Convert \/ Terminate \/ Swap \/ Return

Next == (\E v \in Values : Call(v)) \/ Loops

\* The functions run to their end once called; whether they are is the caller's
\* business.
Spec == Init /\ [][Next]_vars /\ WF_vars(Loops)

-----------------------------------------------------------------------------

\* The two pointers stay in the buffer or one before it, characters are characters.
TypeOK ==
  /\ pc \in {"idle", "convert", "sign", "reverse", "returned"}
  /\ value \in 0..999 /\ sign \in -999..999
  /\ str \in [Positions -> Characters]
  /\ wstr \in 0..BufferSize
  /\ begin \in Positions /\ end \in -1..BufferSize - 1

\* No loop writes outside the buffer, the sign and the terminating zero included,
\* for any number the callers print (handle_query_contract_ui.c:32-41, into the
\* buffers of lines 86, 96, 105, 124 and 199).
StaysInBuffer ==
  /\ pc = "convert" => wstr \in Positions
  /\ pc = "sign" => TextEnd \in Positions
  /\ pc = "reverse" => begin \in Positions /\ end \in Positions

\* What itoa leaves in the buffer is the numeral of its argument and a terminating
\* zero: the two loops, each of them backwards, undo each other, with the sign in
\* front and without a leading zero (handle_query_contract_ui.c:7-45).
NumeralWritten ==
  pc = "returned" =>
    LET n == NumeralLength(sign)
    IN  n < BufferSize /\ str[n] = NUL /\ \A i \in 1..n : str[i - 1] = Numeral(sign)[i]

\* Both loops end (do ... while (value /= base), while (end > begin)).
Returns == pc = "convert" ~> pc = "returned"
=============================================================================
