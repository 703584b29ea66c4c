-------------------------------- MODULE Numeral --------------------------------
(***************************************************************************)
(* The decimal numeral of an integer: what itoa and semihosted_printf,     *)
(* each with an algorithm of its own, are to write, and how much room it   *)
(* takes.                                                                  *)
(***************************************************************************)
EXTENDS Integers, FiniteSets

\* Characters: the ten digits stand for themselves.
Minus == 10
NUL   == 11

Magnitude(n) == IF n < 0 THEN -n ELSE n

\* The number of digits of a natural number below 10^10.
DigitCount(n) == 1 + Cardinality({k \in 1..9 : 10^k <= n})

\* The digits, the most significant one first.
Digits(n) == [i \in 1..DigitCount(n) |-> (n \div 10^(DigitCount(n) - i)) % 10]

Numeral(n) ==
  IF n < 0 THEN [i \in 1..DigitCount(-n) + 1 |->
                   IF i = 1 THEN Minus ELSE Digits(-n)[i - 1]]
           ELSE Digits(n)

NumeralLength(n) == DigitCount(Magnitude(n)) + (IF n < 0 THEN 1 ELSE 0)
=============================================================================
