--------------------------- MODULE ProvideParameter ---------------------------
(***************************************************************************)
(* The plugin while it receives a transaction: handle_init_contract clears *)
(* the context it shares with the Ethereum app, then every call of         *)
(* handle_provide_parameter brings the next 32-byte word of the call data. *)
(* The words are arbitrary here; PluginSession feeds the words of          *)
(* well-formed transactions.                                               *)
(***************************************************************************)
EXTENDS ItemHandlers

CONSTANTS
  CallSelectors,  \* the function selectors a transaction may begin with
  CallWords,      \* the words it may hold
  MaxWords        \* bound on the words of one transaction

ASSUME CallDataAssumption == CallSelectors \subseteq Limb /\ CallWords \subseteq Word
ASSUME MaxWordsAssumption  == MaxWords \in Nat

VARIABLES
  \* The status the plugin left in the message of the last call.
  result,
  \* How many words the Ethereum app has handed over since the last init.
  fieldIndex,
  \* context_t: which function is called, and the state of the batch parser.
  selectorIndex, next_param,
  \* context_t: where the next word of interest is.
  go_to_offset, offset, base_items_offset, items_offsets,
  \* context_t: the batch.
  batch_dispatch_number_of_items, cnt, is_max_exceeded, item_types,
  \* context_t: the item whose data is being read.
  item_length, item_selector, item_handler,
  \* context_t: the arguments kept for display.
  fields

offsetVars  == <<go_to_offset, offset, base_items_offset, items_offsets>>
batchVars   == <<batch_dispatch_number_of_items, cnt, is_max_exceeded, item_types>>
itemVars    == <<item_length, item_selector, item_handler>>
contextVars == <<selectorIndex, next_param, offsetVars, batchVars, itemVars, fields>>
parserVars  == <<result, fieldIndex, contextVars>>

Indices == 0..MAX_ITEMS_IN_BATCH - 1

\* Of the plugin's status codes, those handle_init_contract gives.
Results == {"OK", "UNAVAILABLE", "ERROR"}

-----------------------------------------------------------------------------
(***************************************************************************)
(* handle_init_contract                                                    *)
(***************************************************************************)

\* Mutant of ClearedContext: the arguments of the last transaction stay.
ClearedContextKeepsFields ==
  /\ go_to_offset' = FALSE
  /\ offset' = 0
  /\ base_items_offset' = 0
  /\ items_offsets' = [i \in Indices |-> 0]
  /\ batch_dispatch_number_of_items' = 0
  /\ cnt' = 0
  /\ is_max_exceeded' = FALSE
  /\ item_types' = [i \in Indices |-> "ACTIVATE_MARKET"]
  /\ item_length' = 0
  /\ item_selector' = 0
  /\ item_handler' = NULL
  /\ UNCHANGED fields

\* memset(context, 0, sizeof(*context)).  Enumerator 0 of selector_t is
\* ACTIVATE_MARKET, also in item_types.
ClearedContext ==
  /\ go_to_offset' = FALSE
  /\ offset' = 0
  /\ base_items_offset' = 0
  /\ items_offsets' = [i \in Indices |-> 0]
  /\ batch_dispatch_number_of_items' = 0
  /\ cnt' = 0
  /\ is_max_exceeded' = FALSE
  /\ item_types' = [i \in Indices |-> "ACTIVATE_MARKET"]
  /\ item_length' = 0
  /\ item_selector' = 0
  /\ item_handler' = NULL
  /\ fields' = ZeroFields

\* The calling app speaks another version of the plugin interface, or lends too
\* small a context: nothing is touched.
RefuseInit(status) ==
  /\ status \in {"UNAVAILABLE", "ERROR"}
  /\ result' = status
  /\ fieldIndex' = 0
  /\ UNCHANGED contextVars

\* selectorIndex, next_param and the status for a function selector.
FoundSelector(sel) ==
  IF \E s \in Selectors : SelectorOf[s] = sel
  THEN CHOOSE s \in Selectors : SelectorOf[s] = sel
  ELSE "UNEXPECTED_ITEM"

InitContract(sel) ==
  LET found == FoundSelector(sel)
  IN  /\ ClearedContext
      /\ fieldIndex' = 0
      /\ selectorIndex' = IF found = "UNEXPECTED_ITEM" THEN "ACTIVATE_MARKET"
                                                       ELSE found
      /\ next_param' = IF found = "BATCH_DISPATCH"
                       THEN "BATCH_DISPATCH_ITEMS_OFFSET"
                       ELSE "ACTIVATE_MARKET_UNDERLYING"
      /\ result' = CASE found \in {"ACTIVATE_MARKET", "BATCH_DISPATCH"} -> "OK"
                     [] found = "UNEXPECTED_ITEM" -> "UNAVAILABLE"
                     [] OTHER -> "ERROR"

-----------------------------------------------------------------------------
(***************************************************************************)
(* handle_provide_parameter                                                *)
(***************************************************************************)

\* msg->parameterOffset: the words follow the four bytes of the selector.
parameterOffset == SELECTOR_SIZE + PARAMETER_LENGTH * fieldIndex

\* The part of every call: the app calls only after a successful init, and the
\* plugin answers OK.
Provided ==
  /\ result = "OK"
  /\ fieldIndex < MaxWords
  /\ fieldIndex' = fieldIndex + 1
  /\ UNCHANGED <<result, selectorIndex>>

\* handle_activate_market: every word replaces address_2.
ActivateMarket(param) ==
  /\ selectorIndex = "ACTIVATE_MARKET"
  /\ Provided
  /\ fields' = [fields EXCEPT !.address_2 = copy_address(@, param, 5)]
  /\ UNCHANGED <<next_param, offsetVars, batchVars, itemVars>>

(***************************************************************************)
(* handle_batch_dispatch: seeking.                                         *)
(***************************************************************************)
goal == offset + SELECTOR_SIZE

BatchWord == selectorIndex = "BATCH_DISPATCH" /\ Provided

\* The word sought is further on.
SkipWord ==
  /\ BatchWord
  /\ go_to_offset /\ parameterOffset < goal
  /\ UNCHANGED <<next_param, offsetVars, batchVars, itemVars, fields>>

\* The word sought has gone by, or starts inside this one: parsing ends, in
\* silence.
MissGoal ==
  /\ BatchWord
  /\ go_to_offset /\ parameterOffset > goal
  /\ go_to_offset' = FALSE
  /\ next_param' = "UNEXPECTED_PARAMETER"
  /\ UNCHANGED <<offset, base_items_offset, items_offsets, batchVars, itemVars, fields>>

\* The word is the one the parser is waiting for in state p.
AtWord(p) ==
  /\ BatchWord
  /\ go_to_offset => parameterOffset = goal
  /\ next_param = p

\* Mutant of GoTo: the position is a signed integer of 16 bits.
GoToSigned(position, p) ==
  /\ offset' = position % (UINT16 \div 2)
  /\ go_to_offset' = TRUE
  /\ next_param' = p

\* Wait for the word at byte position (a uint16_t) of the arguments, in state p.
GoTo(position, p) ==
  /\ offset' = position % UINT16
  /\ go_to_offset' = TRUE
  /\ next_param' = p

\* Take the next word, in state p.
Continue(p) ==
  /\ go_to_offset' = FALSE
  /\ next_param' = p
  /\ UNCHANGED offset

(***************************************************************************)
(* handle_batch_dispatch: the states.                                      *)
(***************************************************************************)
ReadItemsOffset(param) ==
  /\ AtWord("BATCH_DISPATCH_ITEMS_OFFSET")
  /\ GoTo(NumberIn(param), "BATCH_DISPATCH_NUMBER_OF_ITEMS")
  /\ UNCHANGED <<base_items_offset, items_offsets, batchVars, itemVars, fields>>

\* Mutant of ReadNumberOfItems: the number is a signed byte.
ReadNumberOfItemsSigned(param) ==
  /\ AtWord("BATCH_DISPATCH_NUMBER_OF_ITEMS")
  /\ batch_dispatch_number_of_items' = NumberIn(param) % (UINT8 \div 2)
  /\ cnt' = batch_dispatch_number_of_items'
  /\ is_max_exceeded' = FALSE
  /\ Continue("BATCH_DISPATCH_ITEMS_OFFSETS")
  /\ UNCHANGED <<base_items_offset, items_offsets, item_types, itemVars, fields>>

ReadNumberOfItems(param) ==
  /\ AtWord("BATCH_DISPATCH_NUMBER_OF_ITEMS")
  /\ batch_dispatch_number_of_items' = NumberIn(param) % UINT8
  /\ cnt' = batch_dispatch_number_of_items'
  /\ is_max_exceeded' = FALSE
  /\ Continue("BATCH_DISPATCH_ITEMS_OFFSETS")
  /\ UNCHANGED <<base_items_offset, items_offsets, item_types, itemVars, fields>>

\* Mutant of ReadOnlyItemOffset: the counter goes down as for one item of several.
ReadOnlyItemOffsetCounts(param) ==
  /\ AtWord("BATCH_DISPATCH_ITEMS_OFFSETS")
  /\ batch_dispatch_number_of_items = 1
  /\ cnt' = cnt - 1
  /\ GoTo(parameterOffset - SELECTOR_SIZE + NumberIn(param) + BATCH_ITEM_PROXY_OFFSET,
          "BATCH_DISPATCH_ITEM_PROXY")
  /\ UNCHANGED <<base_items_offset, items_offsets, batch_dispatch_number_of_items,
                 is_max_exceeded, item_types, itemVars, fields>>

\* The only item: go straight to its proxy address.
ReadOnlyItemOffset(param) ==
  /\ AtWord("BATCH_DISPATCH_ITEMS_OFFSETS")
  /\ batch_dispatch_number_of_items = 1
  /\ GoTo(parameterOffset - SELECTOR_SIZE + NumberIn(param) + BATCH_ITEM_PROXY_OFFSET,
          "BATCH_DISPATCH_ITEM_PROXY")
  /\ UNCHANGED <<base_items_offset, items_offsets, batchVars, itemVars, fields>>

\* The index of the item the parser is at, an uint8_t.
CurrentIndex == (batch_dispatch_number_of_items - cnt) % UINT8

\* Mutant of RememberOffset: the base is that of the last offset, not of the first.
RememberOffsetFromLast(param) ==
  /\ batch_dispatch_number_of_items # 1
  /\ base_items_offset' = parameterOffset % UINT16
  /\ IF CurrentIndex < MAX_ITEMS_IN_BATCH
     THEN /\ items_offsets' = [items_offsets EXCEPT ![CurrentIndex] = NumberIn(param)]
          /\ UNCHANGED is_max_exceeded
     ELSE /\ is_max_exceeded' = TRUE
          /\ UNCHANGED items_offsets

\* One of several items: remember the offset while there is room for it.
RememberOffset(param) ==
  /\ batch_dispatch_number_of_items # 1
  /\ base_items_offset' = IF cnt = batch_dispatch_number_of_items
                          THEN parameterOffset % UINT16 ELSE base_items_offset
  /\ IF CurrentIndex < MAX_ITEMS_IN_BATCH
     THEN /\ items_offsets' = [items_offsets EXCEPT ![CurrentIndex] = NumberIn(param)]
          /\ UNCHANGED is_max_exceeded
     ELSE /\ is_max_exceeded' = TRUE
          /\ UNCHANGED items_offsets

\* Mutant of cntLess: the counter is a signed integer.
cntLessSigned == cnt - 1

\* cnt-- on a uint8_t.
cntLess == (cnt - 1) % UINT8

ReadItemOffset(param) ==
  /\ AtWord("BATCH_DISPATCH_ITEMS_OFFSETS")
  /\ cntLess # 0
  /\ RememberOffset(param)
  /\ cnt' = cntLess
  /\ Continue("BATCH_DISPATCH_ITEMS_OFFSETS")
  /\ UNCHANGED <<batch_dispatch_number_of_items, item_types, itemVars, fields>>

\* Mutant of ReadLastItemOffset: the counter is not restarted for the items.
ReadLastItemOffsetNoRestart(param) ==
  /\ AtWord("BATCH_DISPATCH_ITEMS_OFFSETS")
  /\ cntLess = 0
  /\ RememberOffset(param)
  /\ cnt' = cntLess
  /\ GoTo(parameterOffset - SELECTOR_SIZE + PARAMETER_LENGTH + BATCH_ITEM_PROXY_OFFSET,
          "BATCH_DISPATCH_ITEM_PROXY")
  /\ UNCHANGED <<batch_dispatch_number_of_items, item_types, itemVars, fields>>

\* The first item is taken to start right after the last offset.
ReadLastItemOffset(param) ==
  /\ AtWord("BATCH_DISPATCH_ITEMS_OFFSETS")
  /\ cntLess = 0
  /\ RememberOffset(param)
  /\ cnt' = batch_dispatch_number_of_items
  /\ GoTo(parameterOffset - SELECTOR_SIZE + PARAMETER_LENGTH + BATCH_ITEM_PROXY_OFFSET,
          "BATCH_DISPATCH_ITEM_PROXY")
  /\ UNCHANGED <<batch_dispatch_number_of_items, item_types, itemVars, fields>>

ReadItemProxy(param) ==
  /\ AtWord("BATCH_DISPATCH_ITEM_PROXY")
  /\ fields' = [fields EXCEPT !.address_1 = copy_address(@, param, 5)]
  /\ GoTo(parameterOffset - SELECTOR_SIZE + BATCH_ITEM_LENGTH_OFFSET,
          "BATCH_DISPATCH_ITEM_LENGTH")
  /\ UNCHANGED <<base_items_offset, items_offsets, batchVars, itemVars>>

ReadItemLength(param) ==
  /\ AtWord("BATCH_DISPATCH_ITEM_LENGTH")
  /\ item_length' = NumberIn(param)
  /\ Continue("BATCH_DISPATCH_ITEM")
  /\ UNCHANGED <<base_items_offset, items_offsets, batchVars,
                 item_selector, item_handler, fields>>

(***************************************************************************)
(* handle_item                                                             *)
(***************************************************************************)

\* The selector of the item: its first four bytes if it is only beginning.
ItemSelector(param) ==
  IF item_selector = 0 /\ item_handler = NULL THEN param[1] ELSE item_selector

\* The handler of the item; the code keeps the old one if the item is unexpected.
ItemHandler(param) ==
  LET type == ItemTypeOf(ItemSelector(param))
  IN  IF type = "UNEXPECTED_ITEM" THEN item_handler ELSE type

\* The arguments are read only if there is one item, and it is known.
ReadsArguments(param) ==
  /\ batch_dispatch_number_of_items = 1
  /\ ItemTypeOf(ItemSelector(param)) # "UNEXPECTED_ITEM"
  /\ item_length > SELECTOR_SIZE
  /\ ItemHandler(param) # NULL

\* At the first word of an item the selector counts as a word of its own, and a
\* swap is cut off before its payload.
ItemLength(param) ==
  IF item_length >= PARAMETER_LENGTH /\ item_length % PARAMETER_LENGTH = SELECTOR_SIZE
  THEN CASE ItemHandler(param) = "SWAP" ->
              SWAP_ITEM_LENGTH_WITHOUT_PAYLOAD_ALIGNED
         [] ItemHandler(param) = "SWAP_AND_REPAY" ->
              SWAP_AND_REPAY_ITEM_LENGTH_WITHOUT_PAYLOAD_ALIGNED
         [] OTHER -> (item_length - SELECTOR_SIZE + PARAMETER_LENGTH) % UINT16
  ELSE item_length

\* What handle_item makes of one word.
handle_item(param) ==
  IF ReadsArguments(param)
  THEN CallHandler(ItemHandler(param), fields, ItemLength(param), param)
  ELSE [fields |-> fields, length |-> item_length, done |-> TRUE]

\* Mutant of TypeItem: the items are counted from one.
TypeItemFromOne(param) ==
  item_types' = [item_types EXCEPT ![CurrentIndex + 1] = ItemTypeOf(ItemSelector(param))]

TypeItem(param) ==
  item_types' = [item_types EXCEPT ![CurrentIndex] = ItemTypeOf(ItemSelector(param))]

\* Mutant of ReadItem: the selector is not kept for the next word.
ReadItemForgetsSelector(param) ==
  /\ AtWord("BATCH_DISPATCH_ITEM")
  /\ ~handle_item(param).done
  /\ TypeItem(param)
  /\ item_handler' = ItemHandler(param)
  /\ item_length' = handle_item(param).length
  /\ fields' = handle_item(param).fields
  /\ Continue("BATCH_DISPATCH_ITEM")
  /\ UNCHANGED <<base_items_offset, items_offsets, item_selector,
                 batch_dispatch_number_of_items, cnt, is_max_exceeded>>

\* A word of an item that goes on.
ReadItem(param) ==
  /\ AtWord("BATCH_DISPATCH_ITEM")
  /\ ~handle_item(param).done
  /\ TypeItem(param)
  /\ item_selector' = ItemSelector(param)
  /\ item_handler' = ItemHandler(param)
  /\ item_length' = handle_item(param).length
  /\ fields' = handle_item(param).fields
  /\ Continue("BATCH_DISPATCH_ITEM")
  /\ UNCHANGED <<base_items_offset, items_offsets,
                 batch_dispatch_number_of_items, cnt, is_max_exceeded>>

\* Mutant of FinishItem: only a full table ends the items, not the last item.
FinishItemUnlessFull(param) ==
  LET next == (batch_dispatch_number_of_items - cntLess) % UINT8
  IN  /\ AtWord("BATCH_DISPATCH_ITEM")
      /\ handle_item(param).done
      /\ TypeItem(param)
      /\ item_selector' = 0
      /\ item_handler' = NULL
      /\ item_length' = handle_item(param).length
      /\ fields' = handle_item(param).fields
      /\ cnt' = cntLess
      /\ IF next >= MAX_ITEMS_IN_BATCH
         THEN Continue("UNEXPECTED_PARAMETER")
         ELSE GoTo(base_items_offset - SELECTOR_SIZE + items_offsets[next]
                     + BATCH_ITEM_PROXY_OFFSET,
                   "BATCH_DISPATCH_ITEM_PROXY")
      /\ UNCHANGED <<base_items_offset, items_offsets,
                     batch_dispatch_number_of_items, is_max_exceeded>>

\* The last word of an item that matters.
FinishItem(param) ==
  LET next == (batch_dispatch_number_of_items - cntLess) % UINT8
  IN  /\ AtWord("BATCH_DISPATCH_ITEM")
      /\ handle_item(param).done
      /\ TypeItem(param)
      /\ item_selector' = 0
      /\ item_handler' = NULL
      /\ item_length' = handle_item(param).length
      /\ fields' = handle_item(param).fields
      /\ cnt' = cntLess
      /\ IF cntLess = 0 \/ next >= MAX_ITEMS_IN_BATCH
         THEN Continue("UNEXPECTED_PARAMETER")
         ELSE GoTo(base_items_offset - SELECTOR_SIZE + items_offsets[next]
                     + BATCH_ITEM_PROXY_OFFSET,
                   "BATCH_DISPATCH_ITEM_PROXY")
      /\ UNCHANGED <<base_items_offset, items_offsets,
                     batch_dispatch_number_of_items, is_max_exceeded>>

\* Mutant of IgnoreWord: the parser starts over.
IgnoreWordRestarts ==
  /\ AtWord("UNEXPECTED_PARAMETER")
  /\ Continue("BATCH_DISPATCH_ITEMS_OFFSET")
  /\ UNCHANGED <<base_items_offset, items_offsets, batchVars, itemVars, fields>>

\* Everything of interest has been read, or the goal was missed.
IgnoreWord ==
  /\ AtWord("UNEXPECTED_PARAMETER")
  /\ Continue("UNEXPECTED_PARAMETER")
  /\ UNCHANGED <<base_items_offset, items_offsets, batchVars, itemVars, fields>>

\* A word passes whatever it holds.
PassWord == SkipWord \/ MissGoal \/ IgnoreWord

\* A word is read.
ReadWord(param) ==
  \/ ActivateMarket(param)
  \/ ReadItemsOffset(param)
  \/ ReadNumberOfItems(param)
  \/ ReadOnlyItemOffset(param)
  \/ ReadItemOffset(param)
  \/ ReadLastItemOffset(param)
  \/ ReadItemProxy(param)
  \/ ReadItemLength(param)
  \/ ReadItem(param)
  \/ FinishItem(param)

ProvideWord(param) == PassWord \/ ReadWord(param)

-----------------------------------------------------------------------------
(***************************************************************************)
(* The component on its own: any function selector, any words.             *)
(***************************************************************************)

\* The context is zeroed static memory before the first call.
Init ==
  /\ result = "UNAVAILABLE"
  /\ fieldIndex = 0
  /\ selectorIndex = "ACTIVATE_MARKET"
  /\ next_param = "ACTIVATE_MARKET_UNDERLYING"
  /\ go_to_offset = FALSE
  /\ offset = 0
  /\ base_items_offset = 0
  /\ items_offsets = [i \in Indices |-> 0]
  /\ batch_dispatch_number_of_items = 0
  /\ cnt = 0
  /\ is_max_exceeded = FALSE
  /\ item_types = [i \in Indices |-> "ACTIVATE_MARKET"]
  /\ item_length = 0
  /\ item_selector = 0
  /\ item_handler = NULL
  /\ fields = ZeroFields

Next ==
  \/ \E status \in {"UNAVAILABLE", "ERROR"} : RefuseInit(status)
  \/ \E sel \in CallSelectors : InitContract(sel)
  \/ PassWord
  \/ \E param \in CallWords : ReadWord(param)

Spec == Init /\ [][Next]_parserVars

-----------------------------------------------------------------------------
(***************************************************************************)
(* Properties                                                              *)
(***************************************************************************)

\* The parser is at one of the words of an item.
AtItem == next_param \in {"BATCH_DISPATCH_ITEM_PROXY", "BATCH_DISPATCH_ITEM_LENGTH",
                          "BATCH_DISPATCH_ITEM"}

\* Every variable has the type context_t gives it; the unsigned integers never
\* hold a value that does not fit.
TypeOK ==
  /\ result \in Results
  /\ fieldIndex \in 0..MaxWords
  /\ selectorIndex \in Selectors
  /\ next_param \in parameter
  /\ go_to_offset \in BOOLEAN
  /\ offset \in 0..UINT16 - 1
  /\ base_items_offset \in 0..UINT16 - 1
  /\ items_offsets \in [Indices -> 0..UINT16 - 1]
  /\ batch_dispatch_number_of_items \in 0..UINT8 - 1
  /\ cnt \in 0..UINT8 - 1
  /\ is_max_exceeded \in BOOLEAN
  /\ item_types \in [Indices -> selector_t]
  /\ item_length \in 0..UINT16 - 1
  /\ item_selector \in Limb
  /\ item_handler \in HandledTypes \union {NULL}
  /\ fields \in Fields

\* handle_item writes item_types[number - cnt] without a check
\* (handle_provide_parameter.c:355-420): whatever the words, the index is inside
\* the array whenever the parser is at an item, also after cnt has wrapped.
IndexInBounds == AtItem => CurrentIndex \in Indices

\* The down-counter cnt never wraps for a batch that has items: it is at most the
\* number of items, and not zero while an offset or an item is still to be read
\* (cnt-- at handle_provide_parameter.c:306 and 328).
CounterInRange ==
  /\ batch_dispatch_number_of_items # 0 => cnt <= batch_dispatch_number_of_items
  /\ batch_dispatch_number_of_items # 0
       /\ (AtItem \/ next_param = "BATCH_DISPATCH_ITEMS_OFFSETS") => cnt # 0

\* Between two calls the pointer item_handler is set exactly when item_selector
\* is, and then it is the handler of that selector, of the type recorded for the
\* only item, with a whole number of words left to read
\* (handle_provide_parameter.c:351-353 and 445-448): no handler is ever called
\* that an earlier item or transaction left behind.
HandlerMatchesItem ==
  /\ (item_handler = NULL) <=> (item_selector = 0)
  /\ item_handler # NULL =>
       /\ SelectorOf[item_handler] = item_selector
       /\ selectorIndex = "BATCH_DISPATCH"
       /\ next_param = "BATCH_DISPATCH_ITEM"
       /\ batch_dispatch_number_of_items = 1
       /\ cnt = 1
       /\ item_types[0] = item_handler
       /\ pre_handle(item_length)

\* A step that is not the beginning of another transaction.
SameTransaction == fieldIndex' = fieldIndex + 1

\* The items are settled one after the other: while words arrive, the parser stays
\* at the item it is at or goes on to the next one, and the type of an item it
\* has left is never written again (handle_provide_parameter.c:326-342).
ItemsSettleInOrder ==
  [][SameTransaction /\ AtItem =>
       /\ AtItem' => CurrentIndex' \in {CurrentIndex, CurrentIndex + 1}
       /\ \A i \in Indices : i # CurrentIndex => item_types'[i] = item_types[i]
    ]_parserVars

\* Once the parser has given up or is done, the rest of the call data cannot
\* change what will be displayed (default arm, handle_provide_parameter.c:343).
RestIsIgnored ==
  [][SameTransaction /\ next_param = "UNEXPECTED_PARAMETER"
       => UNCHANGED contextVars]_parserVars
=============================================================================
