----------------------------- MODULE EulerPlugin -----------------------------
(***************************************************************************)
(* The vocabulary of the Euler plugin (src/src/euler_plugin.h): the item   *)
(* and parameter enumerations, the selector table, the 32-byte words the   *)
(* Ethereum app hands over, and the SDK routines that read a word.         *)
(*                                                                         *)
(* Every quantity the plugin copies or compares is a multiple of four      *)
(* bytes (SELECTOR_SIZE), so a word is modelled as eight 4-byte limbs and  *)
(* an address as five.  A limb is a natural number; only its low 16 or 8   *)
(* bits matter when the plugin reads it as an integer.                     *)
(***************************************************************************)
EXTENDS Integers

CONSTANTS
  MAX_ITEMS_IN_BATCH,   \* items whose type the plugin remembers (5 in the code)
  Limb,                 \* the values a group of four bytes of call data takes
  SelectorOf            \* the selector of each supported function

PARAMETER_LENGTH == 32
SELECTOR_SIZE    == 4

\* The number of values of uint8_t and uint16_t: arithmetic on them wraps.
UINT8  == 256
UINT16 == 65536

BATCH_ITEM_PROXY_OFFSET  == PARAMETER_LENGTH
BATCH_ITEM_LENGTH_OFFSET == PARAMETER_LENGTH * 2

\* Mutant of SWAP_AND_REPAY_ITEM_LENGTH_WITHOUT_PAYLOAD_ALIGNED: one word too many.
SWAP_AND_REPAY_ITEM_LENGTH_ONE_MORE == 15 * 32

SWAP_ITEM_LENGTH_WITHOUT_PAYLOAD_ALIGNED           == 13 * 32
SWAP_AND_REPAY_ITEM_LENGTH_WITHOUT_PAYLOAD_ALIGNED == 14 * 32

-----------------------------------------------------------------------------

\* The functions a batch item may call, by what their arguments look like.
MarketTypes == {"ENTER_MARKET", "EXIT_MARKET"}
PermitTypes == {"USE_PERMIT", "USE_PERMIT_ALLOWED", "USE_PERMIT_PACKED"}
AmountTypes == {"DEPOSIT", "WITHDRAW", "BORROW", "REPAY", "MINT", "BURN"}

\* The item types handle_item recognises; each has a handler of its own, so a
\* handler is named by the type it handles.
HandledTypes ==
  MarketTypes \union PermitTypes \union AmountTypes
    \union {"TRANSFER", "TRANSFER_FROM", "SWAP", "SWAP_AND_REPAY"}

\* The enumerators of selector_t that have a selector in EULER_SELECTORS.
Selectors == HandledTypes \union {"ACTIVATE_MARKET", "BATCH_DISPATCH"}

\* selector_t: UNEXPECTED_ITEM closes the enumeration, ACTIVATE_MARKET is 0.
selector_t == Selectors \union {"UNEXPECTED_ITEM"}

\* The states of the batch parser.
parameter ==
  {"ACTIVATE_MARKET_UNDERLYING",
   "BATCH_DISPATCH_ITEMS_OFFSET", "BATCH_DISPATCH_NUMBER_OF_ITEMS",
   "BATCH_DISPATCH_ITEMS_OFFSETS", "BATCH_DISPATCH_ITEM_PROXY",
   "BATCH_DISPATCH_ITEM_LENGTH", "BATCH_DISPATCH_ITEM",
   "UNEXPECTED_PARAMETER"}

\* A null item_handler.
NULL == "NULL"

-----------------------------------------------------------------------------

ASSUME MaxItemsAssumption == MAX_ITEMS_IN_BATCH \in 1..UINT8 - 1

ASSUME LimbAssumption == Limb \subseteq Nat /\ 0 \in Limb

\* The selectors are four bytes long, distinct and not zero: the parser uses
\* item_selector = 0 for "no item begun".
ASSUME SelectorAssumption ==
  /\ SelectorOf \in [Selectors -> Limb \ {0}]
  /\ \A s, t \in Selectors : SelectorOf[s] = SelectorOf[t] => s = t

Word    == [1..8 -> Limb]
Address == [1..5 -> Limb]

ZeroWord    == [i \in 1..8 |-> 0]
ZeroAddress == [i \in 1..5 |-> 0]

\* U2BE(parameter, PARAMETER_LENGTH - 2): the word read as a 16-bit integer.
NumberIn(param) == param[8] % UINT16

\* (uint8_t) U2BE(parameter, SELECTOR_SIZE / 2): the low byte of the argument
\* that ends with the first four bytes of this word.
LowByteIn(param) == param[1] % UINT8

\* copy_address: the first limbs of dst become the last ones of the word.
copy_address(dst, param, limbs) ==
  [i \in 1..5 |-> IF i <= limbs THEN param[8 - limbs + i] ELSE dst[i]]

\* An argument of an item starts four bytes into a word, after the selector or
\* the end of the previous argument, and ends with the first four bytes of the
\* next word.  These are the two halves of an address and of an amount.
AddressHead(dst, param) == copy_address(dst, param, 4)
AddressTail(dst, param) == [dst EXCEPT ![5] = param[1]]
AmountHead(dst, param)  == [i \in 1..8 |-> IF i < 8 THEN param[i + 1] ELSE dst[i]]
AmountTail(dst, param)  == [dst EXCEPT ![8] = param[1]]

\* The type handle_item gives to an item that starts with selector sel.
ItemTypeOf(sel) ==
  IF \E t \in HandledTypes : SelectorOf[t] = sel
  THEN CHOOSE t \in HandledTypes : SelectorOf[t] = sel
  ELSE "UNEXPECTED_ITEM"
=============================================================================
