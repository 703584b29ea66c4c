------------------------------ MODULE ScreenText ------------------------------
(***************************************************************************)
(* What a line of a screen is made of (the set_*_ui functions of           *)
(* src/src/handle_query_contract_ui.c).  A line is a sequence of pieces    *)
(* <<kind, value>>: a literal text, a number written by itoa, an address,  *)
(* a ticker, or an amount written with a number of decimals.               *)
(***************************************************************************)
EXTENDS EulerPlugin, Numeral, Sequences

CONSTANT MaxLimb   \* four bytes of 0xff

ASSUME MaxLimbAssumption ==
  MaxLimb \in Limb /\ NumberIn([i \in 1..8 |-> MaxLimb]) = UINT16 - 1

\* Characters of a ticker the plugin has room for, with the terminating zero.
MAX_TICKER_LEN_OVERRIDE == 7

DEFAULT_DECIMALS == 18

Text(string)    == <<"text", string>>
Number(n)       == <<"number", n>>
AddressText(a)  == <<"address", a>>
Ticker(t)       == <<"ticker", t>>
Amount(a, d)    == <<"amount", <<a, d>>>>

\* item_type_to_string: the three permits are displayed alike.
item_type_to_string(type) ==
  Text(IF type \in PermitTypes THEN "PERMIT" ELSE type)

\* Mutant of strlcpy: no room left for the terminating zero.
strlcpyFull(src, size) == SubSeq(src, 1, IF Len(src) < size THEN Len(src) ELSE size)

\* strlcpy into an array of the given size: what fits before the terminating zero.
strlcpy(src, size) == SubSeq(src, 1, IF Len(src) < size THEN Len(src) ELSE size - 1)

\* set_address_1_ui and set_address_3_ui
AddressLine(address) == <<Text("0x"), AddressText(address)>>

\* A token the Ethereum app knows is named, any other is given by its address.
TokenLine(found, ticker, address) ==
  IF found THEN <<Ticker(ticker)>> ELSE AddressLine(address)

\* An amount of 2^256 - 1 stands for "all".
AmountLine(amount, decimals) ==
  IF amount = [i \in 1..8 |-> MaxLimb] THEN <<Text("max")>>
                                       ELSE <<Amount(amount, decimals)>>

\* A sub-account is one byte.
SubAccountLine(prefix, account) == <<Text(prefix), Number(account)>>

-----------------------------------------------------------------------------
(***************************************************************************)
(* The room a line needs.  Text goes to the app's buffers through strlcpy  *)
(* and strlcat, which cut it; but lines with a number are put together     *)
(* first, by strcat, in buffers on the stack.                              *)
(***************************************************************************)

\* The length of the names item_type_to_string returns.
NameLength ==
  [ACTIVATE_MARKET |-> 15, ENTER_MARKET |-> 12, EXIT_MARKET |-> 11, PERMIT |-> 6,
   DEPOSIT |-> 7, WITHDRAW |-> 8, BORROW |-> 6, REPAY |-> 5, MINT |-> 4, BURN |-> 4,
   TRANSFER |-> 8, TRANSFER_FROM |-> 13, SWAP |-> 4, SWAP_AND_REPAY |-> 14,
   UNEXPECTED_ITEM |-> 12]

\* Mutant of SummaryRoom: three digits and " items" fill it.
SummaryRoomForTwoDigits == 9

\* The buffers: str[10] of the summary, str[20] and tmp[5] of the list, str[10] of a
\* sub-account.
SummaryRoom    == 10
ItemTypesRoom  == 20
MoreRoom       == 5
SubAccountRoom == 10

\* The line is one of those, and longer than its buffer has room for with the
\* terminating zero.
Overflows(line) ==
  \/ /\ Len(line) = 2 /\ line[1][1] = "number" /\ line[2] = Text("items")
     /\ NumeralLength(line[1][2]) + 6 >= SummaryRoom
  \/ /\ Len(line) = 2 /\ line[1][1] = "number" /\ line[2] # Text("items")
     /\ NumeralLength(line[1][2]) + 2 + NameLength[line[2][2]] >= ItemTypesRoom
  \/ /\ Len(line) = 3
     /\ \/ NumeralLength(line[2][2]) >= MoreRoom
        \/ 4 + NumeralLength(line[2][2]) + 5 >= ItemTypesRoom
  \/ /\ Len(line) = 2 /\ line[2][1] = "number"
     /\ NumeralLength(line[2][2]) >= SubAccountRoom
=============================================================================
