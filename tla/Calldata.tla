------------------------------- MODULE Calldata -------------------------------
(***************************************************************************)
(* What the Ethereum app hands over: the call data of a transaction to     *)
(* Euler, by the Solidity ABI's canonical encoding.  This is not code of   *)
(* the plugin but the layout its parser is written for                     *)
(* (handle_provide_parameter.c:259-347), as in the transactions of         *)
(* src/tests/src/*.test.js.                                                *)
(*                                                                         *)
(* A transaction is the function it calls and its arguments:               *)
(*   [function |-> "ACTIVATE_MARKET", underlying |-> an address word], or  *)
(*   [function |-> "BATCH_DISPATCH", items |-> a sequence of items,        *)
(*    deferLiquidityChecks |-> a sequence of address words]; any other     *)
(* function is one that the plugin refuses.                                *)
(* An item is [type, proxy |-> an address word, arguments |-> a sequence   *)
(* of words, payload |-> how many words of zeros follow them]; its type is *)
(* one the plugin handles or "UNEXPECTED_ITEM".                            *)
(***************************************************************************)
EXTENDS EulerPlugin, Sequences, FiniteSets

CONSTANT UnknownSelector   \* the selector of a function the plugin does not know

ASSUME UnknownSelectorAssumption ==
  UnknownSelector \in Limb \ ({0} \union {SelectorOf[s] : s \in Selectors})

\* A word that holds a number.
NumberWord(n) == [ZeroWord EXCEPT ![8] = n]

\* The address in a word, and the word of an address.
AddressIn(word)   == [i \in 1..5 |-> word[i + 3]]
AddressWord(addr) == [i \in 1..8 |-> IF i > 3 THEN addr[i - 3] ELSE 0]

CallSelector(call) ==
  IF call.function \in Selectors THEN SelectorOf[call.function] ELSE UnknownSelector

-----------------------------------------------------------------------------

BatchItem ==
  [type : HandledTypes \union {"UNEXPECTED_ITEM"}, proxy : Word,
   arguments : Seq(Word), payload : Nat]

\* The bytes of a batch item are a call of their own: four bytes of selector, then
\* the arguments, whose words are cut four bytes late and padded with zeros.
ItemSelectorOf(item) ==
  IF item.type = "UNEXPECTED_ITEM" THEN UnknownSelector ELSE SelectorOf[item.type]

ArgumentCount(item) == Len(item.arguments) + item.payload

ItemDataLength(item) == SELECTOR_SIZE + PARAMETER_LENGTH * ArgumentCount(item)

ItemDataWord(item, k) ==
  [i \in 1..8 |->
     IF i = 1
     THEN CASE k = 1 -> ItemSelectorOf(item)
            [] k > 1 /\ k <= Len(item.arguments) + 1 -> item.arguments[k - 1][8]
            [] OTHER -> 0
     ELSE IF k <= Len(item.arguments) THEN item.arguments[k][i - 1] ELSE 0]

\* The k-th word of an item: allowError, proxyAddr, the offset of the data, its
\* length, and the data.
ItemWord(item, k) ==
  CASE k = 1 -> ZeroWord
    [] k = 2 -> item.proxy
    [] k = 3 -> NumberWord(96)
    [] k = 4 -> NumberWord(ItemDataLength(item))
    [] OTHER -> ItemDataWord(item, k - 4)

ItemSize(item) == 5 + ArgumentCount(item)

\* The words of the items before item i, each by its item and its place in it.
WordsBefore(items, i) == UNION {{j} \X (1..ItemSize(items[j])) : j \in 1..i - 1}

\* Where item i starts, in words after the number of items and their offsets.
BodyStart(items, i) == Cardinality(WordsBefore(items, i))

\* The same, in words after the number of items.
ItemStart(items, i) == Len(items) + BodyStart(items, i)

\* The items one after the other.
Bodies(items) ==
  LET n     == Len(items)
      start == <<>> \o [i \in 1..n + 1 |-> BodyStart(items, i)]
  IN  [w \in 1..start[n + 1] |->
         LET i == CHOOSE i \in 1..n : start[i] < w /\ w <= start[i + 1]
         IN  ItemWord(items[i], w - start[i])]

BatchWords(items, deferred) ==
  LET n      == Len(items)
      bodies == Bodies(items)
  IN  <<NumberWord(2 * PARAMETER_LENGTH),
        NumberWord(PARAMETER_LENGTH * (3 + n + Len(bodies))),
        NumberWord(n)>>
        \o [i \in 1..n |-> NumberWord(PARAMETER_LENGTH * ItemStart(items, i))]
        \o bodies
        \o <<NumberWord(Len(deferred))>> \o deferred

\* The words after the function selector.
CallData(call) ==
  IF call.function = "BATCH_DISPATCH"
  THEN BatchWords(call.items, call.deferLiquidityChecks)
  ELSE <<call.underlying>>
=============================================================================
