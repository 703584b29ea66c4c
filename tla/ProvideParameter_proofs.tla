----------------------- MODULE ProvideParameter_proofs -----------------------
(***************************************************************************)
(* The parser keeps its types, its counter and its handler consistent      *)
(* whatever words it receives, for every capacity of the item table.       *)
(***************************************************************************)
EXTENDS ProvideParameter, TLAPS

-----------------------------------------------------------------------------
(***************************************************************************)
(* What the item handlers return, whatever the word: fields of the right   *)
(* type, and a length that only goes down.                                 *)
(***************************************************************************)

\* The halves of an address and of an amount are made of limbs of the word and of
\* what was there before (copy_address, copy_parameter).
LEMMA HalvesType ==
  ASSUME NEW param \in Word, NEW address \in Address, NEW amount \in Word
  PROVE  /\ copy_address(address, param, 5) \in Address
         /\ AddressHead(address, param) \in Address
         /\ AddressTail(address, param) \in Address
         /\ AmountHead(amount, param) \in Word
         /\ AmountTail(amount, param) \in Word
  BY DEF copy_address, AddressHead, AddressTail, AmountHead, AmountTail, Word, Address

\* What fits uint16_t is a natural number, and so does all that is smaller.
LEMMA FitsUINT16 ==
  ASSUME NEW n \in 0..UINT16 - 1
  PROVE  n \in Nat /\ \A m \in Nat : m <= n => m \in 0..UINT16 - 1
<1>1. UINT16 \in Nat
  BY DEF UINT16
<1>2. n \in Nat
  BY <1>1
<1>3. \A m \in Nat : m <= n => m \in 0..UINT16 - 1
  BY <1>1
<1> QED
  BY <1>2, <1>3

\* A number wrapped to uint16_t fits it.
LEMMA WrapUINT16 ==
  \A x \in Int : x % UINT16 \in 0..UINT16 - 1
BY DEF UINT16

\* A number wrapped to uint8_t fits it.
LEMMA WrapUINT8 ==
  \A x \in Int : x % UINT8 \in 0..UINT8 - 1
BY DEF UINT8

\* A number read from a word fits its C type (U2BE, and the cast to uint8_t).
LEMMA NumbersType ==
  ASSUME NEW param \in Word
  PROVE  NumberIn(param) \in 0..UINT16 - 1 /\ LowByteIn(param) \in 0..UINT8 - 1
<1>1. param[8] \in Limb /\ param[1] \in Limb
  BY DEF Word
<1>2. param[8] \in Nat /\ param[1] \in Nat
  BY <1>1, LimbAssumption
<1>3. NumberIn(param) \in 0..UINT16 - 1
  BY <1>2, WrapUINT16 DEF NumberIn
<1>4. LowByteIn(param) \in 0..UINT8 - 1
  BY <1>2, WrapUINT8 DEF LowByteIn
<1> QED
  BY <1>3, <1>4

\* The type handle_item gives is one of the enumeration, and a handled type is the
\* one whose selector it is (handle_provide_parameter.c:356-420).
LEMMA ItemTypeOfType ==
  ASSUME NEW sel
  PROVE  /\ ItemTypeOf(sel) \in HandledTypes \union {"UNEXPECTED_ITEM"}
         /\ ItemTypeOf(sel) # "UNEXPECTED_ITEM" => SelectorOf[ItemTypeOf(sel)] = sel
<1>1. CASE \E t \in HandledTypes : SelectorOf[t] = sel
  BY <1>1 DEF ItemTypeOf
<1>2. CASE ~ \E t \in HandledTypes : SelectorOf[t] = sel
  BY <1>2 DEF ItemTypeOf
<1> QED
  BY <1>1, <1>2

-----------------------------------------------------------------------------

\* Each handler returns well-typed fields.
LEMMA EnterMarketType ==
  ASSUME NEW f \in Fields, NEW word, NEW param \in Word
  PROVE  handle_enter_market(f, word, param) \in Fields
BY HalvesType, NumbersType DEF handle_enter_market, Fields

\* handle_use_permit, which counts no words.
LEMMA PermitType ==
  ASSUME NEW f \in Fields, NEW param \in Word
  PROVE  handle_use_permit(f, param) \in Fields
BY HalvesType, NumbersType DEF handle_use_permit, Fields

\* handle_deposit, which serves every item of a sub-account and an amount.
LEMMA DepositType ==
  ASSUME NEW f \in Fields, NEW word, NEW param \in Word
  PROVE  handle_deposit(f, word, param) \in Fields
BY HalvesType, NumbersType DEF handle_deposit, Fields

\* handle_transfer.
LEMMA TransferType ==
  ASSUME NEW f \in Fields, NEW word, NEW param \in Word
  PROVE  handle_transfer(f, word, param) \in Fields
BY HalvesType, NumbersType DEF handle_transfer, Fields

\* handle_transfer_from.
LEMMA TransferFromType ==
  ASSUME NEW f \in Fields, NEW word, NEW param \in Word
  PROVE  handle_transfer_from(f, word, param) \in Fields
BY HalvesType, NumbersType DEF handle_transfer_from, Fields

\* handle_swap.
LEMMA SwapType ==
  ASSUME NEW f \in Fields, NEW word, NEW param \in Word
  PROVE  handle_swap(f, word, param) \in Fields
BY HalvesType, NumbersType DEF handle_swap, Fields

\* handle_swap_and_repay.
LEMMA SwapAndRepayType ==
  ASSUME NEW f \in Fields, NEW word, NEW param \in Word
  PROVE  handle_swap_and_repay(f, word, param) \in Fields
BY HalvesType, NumbersType DEF handle_swap_and_repay, Fields

\* Whichever handler the item sets, its fields stay well typed.
LEMMA HandlerFieldsType ==
  ASSUME NEW h \in HandledTypes, NEW f \in Fields, NEW word, NEW param \in Word
  PROVE  HandlerFields(h, f, word, param) \in Fields
BY EnterMarketType, PermitType, DepositType, TransferType, TransferFromType,
   SwapType, SwapAndRepayType
   DEF HandlerFields, HandledTypes, MarketTypes, PermitTypes, AmountTypes

\* One call of a handler (handle_provide_parameter.c:5-19 and the handlers): the
\* fields stay well typed and the length does not grow; if the item goes on, the
\* length left is a whole number of words and there is at least one.
LEMMA CallHandlerType ==
  ASSUME NEW h \in HandledTypes, NEW f \in Fields, NEW length \in 0..UINT16 - 1,
         NEW param \in Word
  PROVE  LET call == CallHandler(h, f, length, param)
         IN  /\ call.fields \in Fields
             /\ call.length \in 0..UINT16 - 1 /\ call.length <= length
             /\ call.done \in BOOLEAN
             /\ ~call.done => pre_handle(call.length) /\ call.length < length
<1>1. CASE HandlerGivesUp(h, f, length)
  <2>1. CallHandler(h, f, length, param) = [fields |-> f, length |-> length, done |-> TRUE]
    BY <1>1 DEF CallHandler
  <2>2. length <= length
    <3> length \in Nat
      BY FitsUINT16
    <3> QED
      OBVIOUS
  <2> QED
    BY <2>1, <2>2
<1>2. CASE ~HandlerGivesUp(h, f, length)
  <2> DEFINE word == (length \div PARAMETER_LENGTH) % UINT8
             left == length - PARAMETER_LENGTH
  <2>1. CallHandler(h, f, length, param)
          = [fields |-> HandlerFields(h, f, word, param),
             length |-> left, done |-> left < PARAMETER_LENGTH]
    BY <1>2 DEF CallHandler, post_handle
  <2>2. HandlerFields(h, f, word, param) \in Fields
    BY HandlerFieldsType
  <2>3. pre_handle(length)
    BY <1>2 DEF HandlerGivesUp
  <2>4. left \in 0..UINT16 - 1 /\ left <= length /\ left < length
    <3>1. length >= 32
      BY <2>3 DEF pre_handle, PARAMETER_LENGTH
    <3>2. length \in Nat
      BY FitsUINT16
    <3>3. left = length - 32
      BY DEF PARAMETER_LENGTH
    <3> HIDE DEF left
    <3>4. left \in Nat /\ left <= length /\ left < length
      BY <3>1, <3>2, <3>3
    <3>5. left \in 0..UINT16 - 1
      BY <3>4, FitsUINT16
    <3> QED
      BY <3>4, <3>5
  <2>5. left % PARAMETER_LENGTH = 0
    <3>1. length \in Nat
      BY FitsUINT16
    <3>2. length % 32 = 0
      BY <2>3 DEF pre_handle, PARAMETER_LENGTH
    <3>3. (length - 32) % 32 = 0
      BY <3>1, <3>2
    <3> QED
      BY <3>3 DEF PARAMETER_LENGTH
  <2>6. ASSUME ~(left < PARAMETER_LENGTH)
        PROVE  pre_handle(left)
    <3> HIDE DEF left
    <3>1. left >= PARAMETER_LENGTH
      BY <2>4, <2>6 DEF PARAMETER_LENGTH
    <3> QED
      BY <3>1, <2>5 DEF pre_handle
  <2> HIDE DEF word, left
  <2>7. CASE left < PARAMETER_LENGTH
    <3>1. CallHandler(h, f, length, param)
            = [fields |-> HandlerFields(h, f, word, param), length |-> left, done |-> TRUE]
      BY <2>1, <2>7
    <3> QED
      BY <3>1, <2>2, <2>4
  <2>8. CASE ~(left < PARAMETER_LENGTH)
    <3> (left < PARAMETER_LENGTH) = FALSE
      BY <2>8
    <3>1. CallHandler(h, f, length, param)
            = [fields |-> HandlerFields(h, f, word, param), length |-> left, done |-> FALSE]
      BY <2>1, <2>8
    <3> QED
      BY <3>1, <2>2, <2>4, <2>6, <2>8
  <2> QED
    BY <2>7, <2>8
<1> QED
  BY <1>1, <1>2

-----------------------------------------------------------------------------
(***************************************************************************)
(* The parser, word by word.                                               *)
(***************************************************************************)

\* The numbers the parser computes fit uint16_t and uint8_t.
LEMMA WrapType ==
  \A x \in Int : x % UINT16 \in 0..UINT16 - 1 /\ x % UINT8 \in 0..UINT8 - 1
BY WrapUINT16, WrapUINT8

\* One word of an item (handle_item): the new selector, handler, length and fields
\* have their types, and if the item goes on, whole words of it are left.
LEMMA HandleItemType ==
  ASSUME TypeOK, NEW param \in Word
  PROVE  /\ ItemSelector(param) \in Limb
         /\ ItemHandler(param) \in HandledTypes \union {NULL}
         /\ ItemTypeOf(ItemSelector(param)) \in selector_t
         /\ handle_item(param).length \in 0..UINT16 - 1
         /\ handle_item(param).fields \in Fields
         /\ ~handle_item(param).done => pre_handle(handle_item(param).length)
<1>1. ItemSelector(param) \in Limb
  BY DEF ItemSelector, TypeOK, Word
<1>2. ItemTypeOf(ItemSelector(param)) \in HandledTypes \union {"UNEXPECTED_ITEM"}
  BY ItemTypeOfType
<1>3. ItemTypeOf(ItemSelector(param)) \in selector_t
  BY <1>2 DEF selector_t, Selectors
<1>4. ItemHandler(param) \in HandledTypes \union {NULL}
  BY <1>2 DEF ItemHandler, TypeOK
<1>5. item_length \in 0..UINT16 - 1 /\ fields \in Fields
  BY DEF TypeOK
<1>6. CASE ReadsArguments(param)
  <2>1. ItemHandler(param) \in HandledTypes
    BY <1>4, <1>6 DEF ReadsArguments
  <2>2. ItemLength(param) \in 0..UINT16 - 1
    <3>1. (item_length - SELECTOR_SIZE + PARAMETER_LENGTH) \in Int
      BY <1>5 DEF SELECTOR_SIZE, PARAMETER_LENGTH, UINT16
    <3>2. (item_length - SELECTOR_SIZE + PARAMETER_LENGTH) % UINT16 \in 0..UINT16 - 1
      BY <3>1, WrapType
    <3>3. /\ SWAP_ITEM_LENGTH_WITHOUT_PAYLOAD_ALIGNED \in 0..UINT16 - 1
          /\ SWAP_AND_REPAY_ITEM_LENGTH_WITHOUT_PAYLOAD_ALIGNED \in 0..UINT16 - 1
      BY DEF SWAP_ITEM_LENGTH_WITHOUT_PAYLOAD_ALIGNED,
             SWAP_AND_REPAY_ITEM_LENGTH_WITHOUT_PAYLOAD_ALIGNED, UINT16
    <3> QED
      BY <3>2, <3>3, <1>5 DEF ItemLength
  <2> DEFINE length == ItemLength(param)
             h == ItemHandler(param)
  <2>3. handle_item(param) = CallHandler(h, fields, length, param)
    BY <1>6 DEF handle_item
  <2>4. h \in HandledTypes /\ length \in 0..UINT16 - 1
    BY <2>1, <2>2
  <2> HIDE DEF length, h
  <2>5. /\ CallHandler(h, fields, length, param).fields \in Fields
        /\ CallHandler(h, fields, length, param).length \in 0..UINT16 - 1
        /\ ~CallHandler(h, fields, length, param).done
             => pre_handle(CallHandler(h, fields, length, param).length)
    BY <2>4, <1>5, CallHandlerType
  <2> QED
    BY <1>1, <1>3, <1>4, <2>3, <2>5
<1>7. CASE ~ReadsArguments(param)
  <2>1. handle_item(param) = [fields |-> fields, length |-> item_length, done |-> TRUE]
    BY <1>7 DEF handle_item
  <2> QED
    BY <1>1, <1>3, <1>4, <1>5, <2>1
<1> QED
  BY <1>6, <1>7

-----------------------------------------------------------------------------

\* The zeroed context has its types.
LEMMA ZeroType ==
  /\ ZeroFields \in Fields
  /\ [i \in Indices |-> 0] \in [Indices -> 0..UINT16 - 1]
  /\ [i \in Indices |-> "ACTIVATE_MARKET"] \in [Indices -> selector_t]
  /\ "ACTIVATE_MARKET" \in Selectors
<1>1. ZeroAddress \in Address /\ ZeroWord \in Word
  BY LimbAssumption DEF ZeroAddress, ZeroWord, Address, Word
<1> QED
  BY <1>1 DEF ZeroFields, Fields, UINT8, UINT16, selector_t, Selectors

\* The first context has its types.
LEMMA TypeInit == Init => TypeOK
<1> 0 \in 0..MaxWords /\ 0 \in 0..UINT8 - 1 /\ 0 \in 0..UINT16 - 1
  BY MaxWordsAssumption DEF UINT8, UINT16
<1> QED
  BY ZeroType, LimbAssumption DEF Init, TypeOK, Results, parameter

\* Any call of the parser, whatever the selector and the word.
AnyCall ==
  \/ \E status \in {"UNAVAILABLE", "ERROR"} : RefuseInit(status)
  \/ \E sel \in Limb : InitContract(sel)
  \/ PassWord
  \/ \E param \in Word : ReadWord(param)

\* The call data of the constants are words like any other.
LEMMA NextIsAnyCall == Next => AnyCall
BY CallDataAssumption DEF Next, AnyCall

\* handle_init_contract and every path of handle_provide_parameter keep them.
LEMMA TypeStep == TypeOK /\ [AnyCall]_parserVars => TypeOK'
<1> SUFFICES ASSUME TypeOK, [AnyCall]_parserVars
             PROVE  TypeOK'
  OBVIOUS
<1>1. ASSUME NEW status \in {"UNAVAILABLE", "ERROR"}, RefuseInit(status)
      PROVE  TypeOK'
  BY <1>1, MaxWordsAssumption
     DEF RefuseInit, TypeOK, Results, contextVars, offsetVars, batchVars, itemVars
<1>2. ASSUME NEW sel \in Limb, InitContract(sel)
      PROVE  TypeOK'
  <2>1. FoundSelector(sel) \in Selectors \union {"UNEXPECTED_ITEM"}
    BY DEF FoundSelector
  <2>2. selectorIndex' \in Selectors /\ next_param' \in parameter /\ result' \in Results
    BY <1>2, <2>1 DEF InitContract, parameter, Results, Selectors
  <2> 0 \in 0..MaxWords /\ 0 \in 0..UINT8 - 1 /\ 0 \in 0..UINT16 - 1
    BY MaxWordsAssumption DEF UINT8, UINT16
  <2> QED
    BY <1>2, <2>2, ZeroType, LimbAssumption DEF InitContract, ClearedContext, TypeOK
<1>3. ASSUME Provided
      PROVE  fieldIndex' \in 0..MaxWords /\ result' \in Results /\ selectorIndex' \in Selectors
  BY <1>3, MaxWordsAssumption DEF Provided, TypeOK
<1>4. parameterOffset \in Int
  BY DEF parameterOffset, TypeOK, SELECTOR_SIZE, PARAMETER_LENGTH
<1>5. cntLess \in 0..UINT8 - 1 /\ CurrentIndex \in 0..UINT8 - 1
  BY WrapType DEF cntLess, CurrentIndex, TypeOK
<1>6. ASSUME SkipWord
      PROVE  TypeOK'
  BY <1>6, <1>3 DEF SkipWord, BatchWord, TypeOK, offsetVars, batchVars, itemVars
<1>7. ASSUME MissGoal
      PROVE  TypeOK'
  BY <1>7, <1>3 DEF MissGoal, BatchWord, TypeOK, parameter, batchVars, itemVars
<1>8. ASSUME IgnoreWord
      PROVE  TypeOK'
  BY <1>8, <1>3 DEF IgnoreWord, AtWord, BatchWord, Continue, TypeOK, parameter,
                    batchVars, itemVars
<1>9. ASSUME NEW param \in Word, ReadWord(param)
      PROVE  TypeOK'
  <2>1. NumberIn(param) \in 0..UINT16 - 1
    BY NumbersType
  <2>2. ASSUME NEW x \in Int, NEW p \in parameter, GoTo(x, p)
        PROVE  /\ go_to_offset' \in BOOLEAN
               /\ offset' \in 0..UINT16 - 1
               /\ next_param' \in parameter
    BY <2>2, WrapType DEF GoTo
  <2>3. ASSUME NEW p \in parameter, Continue(p)
        PROVE  /\ go_to_offset' \in BOOLEAN
               /\ offset' \in 0..UINT16 - 1
               /\ next_param' \in parameter
    BY <2>3 DEF Continue, TypeOK
  <2>4. ASSUME ActivateMarket(param)
        PROVE  TypeOK'
    BY <2>4, <1>3, HalvesType DEF ActivateMarket, TypeOK, Fields, offsetVars, batchVars, itemVars
  <2>5. ASSUME ReadItemsOffset(param)
        PROVE  TypeOK'
    BY <2>5, <1>3, <2>1, <2>2
       DEF ReadItemsOffset, AtWord, BatchWord, TypeOK, parameter, batchVars, itemVars
  <2>6. ASSUME ReadNumberOfItems(param)
        PROVE  TypeOK'
    <3>1. NumberIn(param) % UINT8 \in 0..UINT8 - 1
      BY <2>1, WrapType
    <3> QED
      BY <2>6, <3>1, <1>3, <2>3
         DEF ReadNumberOfItems, AtWord, BatchWord, TypeOK, parameter, itemVars
  <2>7. ASSUME ReadOnlyItemOffset(param)
        PROVE  TypeOK'
    BY <2>7, <1>3, <1>4, <2>1, <2>2
       DEF ReadOnlyItemOffset, AtWord, BatchWord, TypeOK, parameter, batchVars, itemVars,
           SELECTOR_SIZE, BATCH_ITEM_PROXY_OFFSET, PARAMETER_LENGTH
  <2>8. ASSUME RememberOffset(param)
        PROVE  /\ base_items_offset' \in 0..UINT16 - 1
               /\ items_offsets' \in [Indices -> 0..UINT16 - 1]
               /\ is_max_exceeded' \in BOOLEAN
    <3>1. parameterOffset % UINT16 \in 0..UINT16 - 1
      BY <1>4, WrapType
    <3>2. [items_offsets EXCEPT ![CurrentIndex] = NumberIn(param)]
            \in [Indices -> 0..UINT16 - 1]
      <4> items_offsets \in [Indices -> 0..UINT16 - 1]
        BY DEF TypeOK
      <4> QED
        BY <2>1
    <3>3. base_items_offset' \in 0..UINT16 - 1
      BY <2>8, <3>1 DEF RememberOffset, TypeOK
    <3> QED
      BY <2>8, <3>2, <3>3 DEF RememberOffset, TypeOK
  <2>9. ASSUME ReadItemOffset(param)
        PROVE  TypeOK'
    BY <2>9, <1>3, <1>5, <2>3, <2>8
       DEF ReadItemOffset, AtWord, BatchWord, TypeOK, parameter, itemVars
  <2>10. ASSUME ReadLastItemOffset(param)
         PROVE  TypeOK'
    BY <2>10, <1>3, <1>4, <2>2, <2>8
       DEF ReadLastItemOffset, AtWord, BatchWord, TypeOK, parameter, itemVars,
           SELECTOR_SIZE, BATCH_ITEM_PROXY_OFFSET, PARAMETER_LENGTH
  <2>11. ASSUME ReadItemProxy(param)
         PROVE  TypeOK'
    <3>1. fields' \in Fields
      BY <2>11, HalvesType DEF ReadItemProxy, TypeOK, Fields
    <3> QED
      BY <3>1, <2>11, <1>3, <1>4, <2>2
         DEF ReadItemProxy, AtWord, BatchWord, TypeOK, parameter, batchVars, itemVars,
             SELECTOR_SIZE, BATCH_ITEM_LENGTH_OFFSET, PARAMETER_LENGTH
  <2>12. ASSUME ReadItemLength(param)
         PROVE  TypeOK'
    BY <2>12, <1>3, <2>1, <2>3
       DEF ReadItemLength, AtWord, BatchWord, TypeOK, parameter, batchVars
  <2>13. ASSUME TypeItem(param)
         PROVE  item_types' \in [Indices -> selector_t]
    BY <2>13, HandleItemType DEF TypeItem, TypeOK
  <2>14. ASSUME ReadItem(param)
         PROVE  TypeOK'
    BY <2>14, <1>3, <2>3, <2>13, HandleItemType
       DEF ReadItem, AtWord, BatchWord, TypeOK, parameter
  <2>15. ASSUME FinishItem(param)
         PROVE  TypeOK'
    <3> DEFINE next == (batch_dispatch_number_of_items - cntLess) % UINT8
    <3>1. /\ go_to_offset' \in BOOLEAN
          /\ offset' \in 0..UINT16 - 1
          /\ next_param' \in parameter
      <4>1. CASE cntLess = 0 \/ next >= MAX_ITEMS_IN_BATCH
        BY <4>1, <2>15, <2>3 DEF FinishItem, parameter
      <4>2. CASE ~(cntLess = 0 \/ next >= MAX_ITEMS_IN_BATCH)
        <5>1. next \in Indices
          BY <4>2, <1>5, WrapType, MaxItemsAssumption DEF TypeOK, Indices, UINT8
        <5>2. (base_items_offset - SELECTOR_SIZE + items_offsets[next]
                 + BATCH_ITEM_PROXY_OFFSET) \in Int
          BY <5>1 DEF TypeOK, SELECTOR_SIZE, BATCH_ITEM_PROXY_OFFSET, PARAMETER_LENGTH
        <5> QED
          BY <4>2, <5>2, <2>15, <2>2 DEF FinishItem, parameter
      <4> QED
        BY <4>1, <4>2
    <3> QED
      BY <2>15, <3>1, <1>3, <1>5, <2>13, HandleItemType, LimbAssumption
         DEF FinishItem, AtWord, BatchWord, TypeOK
  <2> QED
    BY <1>9, <2>4, <2>5, <2>6, <2>7, <2>9, <2>10, <2>11, <2>12, <2>14, <2>15
       DEF ReadWord
<1>10. ASSUME UNCHANGED parserVars
       PROVE  TypeOK'
  BY <1>10 DEF TypeOK, parserVars, contextVars, offsetVars, batchVars, itemVars
<1> QED
  BY <1>1, <1>2, <1>6, <1>7, <1>8, <1>9, <1>10 DEF AnyCall, PassWord

\* Every variable keeps the type context_t gives it: handle_init_contract and
\* every path of handle_provide_parameter store values that fit.
THEOREM TypeCorrect == Spec => []TypeOK
<1>1. TypeOK /\ [Next]_parserVars => TypeOK'
  BY TypeStep, NextIsAnyCall
<1> QED
  BY <1>1, TypeInit, PTL DEF Spec

-----------------------------------------------------------------------------
(***************************************************************************)
(* The counter, the index and the handler.                                 *)
(***************************************************************************)

\* The parser seeks only before three of its states, and leaves its first state
\* only for a batch.
ParserPhase ==
  /\ go_to_offset => next_param \in {"BATCH_DISPATCH_NUMBER_OF_ITEMS",
                                     "BATCH_DISPATCH_ITEM_PROXY",
                                     "BATCH_DISPATCH_ITEM_LENGTH"}
  /\ selectorIndex = "ACTIVATE_MARKET" => next_param = "ACTIVATE_MARKET_UNDERLYING"

\* The inductive invariant: HandlerMatchesItem needs the counter when the handler
\* is chosen and ParserPhase when a goal is missed; IndexInBounds needs the counter
\* when the only item is reached.
ParserInv == ParserPhase /\ CounterInRange /\ IndexInBounds /\ HandlerMatchesItem

IInv == TypeOK /\ ParserInv

\* cnt-- and number - cnt in uint8_t.
LEMMA CounterArithmetic ==
  ASSUME TypeOK
  PROVE  /\ cnt # 0 => cntLess = cnt - 1
         /\ cnt = 0 => cntLess = UINT8 - 1
         /\ cnt = batch_dispatch_number_of_items => CurrentIndex = 0
         /\ CurrentIndex \in 0..UINT8 - 1
         /\ LET next == (batch_dispatch_number_of_items - cntLess) % UINT8
            IN  next \in 0..UINT8 - 1 /\ next = (CurrentIndex + 1) % UINT8
<1>1. /\ cnt \in Int /\ 0 <= cnt /\ cnt < 256
      /\ batch_dispatch_number_of_items \in Int
      /\ 0 <= batch_dispatch_number_of_items /\ batch_dispatch_number_of_items < 256
  BY DEF TypeOK, UINT8
<1>2. (cnt # 0 => (cnt - 1) % 256 = cnt - 1) /\ (cnt = 0 => (cnt - 1) % 256 = 255)
  BY <1>1
<1>3. \A c, n \in Int : (n - ((c - 1) % 256)) % 256 = (((n - c) % 256) + 1) % 256
  OBVIOUS
<1>4. (batch_dispatch_number_of_items - cntLess) % UINT8 = (CurrentIndex + 1) % UINT8
  BY <1>1, <1>3 DEF cntLess, CurrentIndex, UINT8
<1>5. \A n \in Int : (n - n) % 256 = 0
  OBVIOUS
<1>6. /\ CurrentIndex \in 0..UINT8 - 1
      /\ (batch_dispatch_number_of_items - cntLess) % UINT8 \in 0..UINT8 - 1
  <2> (batch_dispatch_number_of_items - cntLess) \in Int
    BY <1>1 DEF cntLess, UINT8
  <2> QED
    BY <1>1, WrapType DEF CurrentIndex
<1> QED
  BY <1>1, <1>2, <1>4, <1>5, <1>6 DEF cntLess, CurrentIndex, UINT8

\* The item goes on only if its handler ran: there is one item, and it has the
\* type whose selector it begins with.
LEMMA ItemGoesOn ==
  ASSUME TypeOK, NEW param \in Word, ~handle_item(param).done
  PROVE  /\ batch_dispatch_number_of_items = 1
         /\ ItemHandler(param) \in HandledTypes
         /\ ItemHandler(param) = ItemTypeOf(ItemSelector(param))
         /\ SelectorOf[ItemHandler(param)] = ItemSelector(param)
         /\ ItemSelector(param) # 0
         /\ pre_handle(handle_item(param).length)
<1>1. ReadsArguments(param)
  BY DEF handle_item
<1>2. /\ batch_dispatch_number_of_items = 1
      /\ ItemTypeOf(ItemSelector(param)) # "UNEXPECTED_ITEM"
  BY <1>1 DEF ReadsArguments
<1>3. ItemHandler(param) = ItemTypeOf(ItemSelector(param))
  BY <1>2 DEF ItemHandler
<1>4. /\ ItemHandler(param) \in HandledTypes
      /\ SelectorOf[ItemHandler(param)] = ItemSelector(param)
  BY <1>2, <1>3, ItemTypeOfType
<1>5. ItemSelector(param) # 0
  BY <1>4, SelectorAssumption DEF Selectors
<1> QED
  BY <1>1, <1>2, <1>3, <1>4, <1>5, HandleItemType

\* A zeroed context and the first parser state satisfy them.
LEMMA ParserInit == Init => IInv
<1> SUFFICES ASSUME Init
             PROVE  IInv
  OBVIOUS
<1>1. TypeOK
  BY TypeInit
<1>2. ParserPhase /\ CounterInRange /\ IndexInBounds /\ HandlerMatchesItem
  BY DEF Init, ParserPhase, CounterInRange, IndexInBounds, HandlerMatchesItem, AtItem,
         NULL, HandledTypes
<1> QED
  BY <1>1, <1>2 DEF IInv, ParserInv

\* Every call keeps them.
LEMMA ParserStep == IInv /\ [AnyCall]_parserVars => IInv'
<1> SUFFICES ASSUME IInv, [AnyCall]_parserVars
             PROVE  IInv'
  OBVIOUS
<1> USE DEF ParserInv
<1> TypeOK /\ TypeOK' /\ ParserInv
  BY TypeStep DEF IInv
<1>1. ASSUME NEW status \in {"UNAVAILABLE", "ERROR"}, RefuseInit(status)
      PROVE  ParserInv'
  BY <1>1 DEF RefuseInit, contextVars, offsetVars, batchVars, itemVars, ParserPhase,
              CounterInRange, IndexInBounds, HandlerMatchesItem, AtItem, CurrentIndex
<1>2. ASSUME NEW sel \in Limb, InitContract(sel)
      PROVE  ParserInv'
  BY <1>2 DEF InitContract, ClearedContext, ParserPhase, CounterInRange, IndexInBounds,
              HandlerMatchesItem, AtItem, Selectors, HandledTypes, NULL
<1>3. ASSUME SkipWord
      PROVE  ParserInv'
  BY <1>3 DEF SkipWord, BatchWord, Provided, batchVars, itemVars, offsetVars, ParserPhase,
              CounterInRange, IndexInBounds, HandlerMatchesItem, AtItem, CurrentIndex
<1>4. ASSUME MissGoal
      PROVE  ParserInv'
  BY <1>4 DEF MissGoal, BatchWord, Provided, batchVars, itemVars, ParserPhase,
              CounterInRange, IndexInBounds, HandlerMatchesItem, AtItem, CurrentIndex
<1>5. ASSUME IgnoreWord
      PROVE  ParserInv'
  BY <1>5 DEF IgnoreWord, AtWord, BatchWord, Provided, Continue, batchVars, itemVars,
              ParserPhase, CounterInRange, IndexInBounds, HandlerMatchesItem, AtItem
<1>6. ASSUME NEW param \in Word, ReadWord(param)
      PROVE  ParserInv'
  <2>0. NumberIn(param) % UINT8 \in 0..UINT8 - 1
    <3> NumberIn(param) \in 0..UINT16 - 1
      BY NumbersType
    <3> QED
      BY WrapType
  <2>1. CASE ActivateMarket(param)
    BY <2>1 DEF ActivateMarket, Provided, offsetVars, batchVars, itemVars, ParserPhase,
                CounterInRange, IndexInBounds, HandlerMatchesItem, AtItem, CurrentIndex
  <2>2. CASE ReadItemsOffset(param)
    BY <2>2 DEF ReadItemsOffset, AtWord, BatchWord, Provided, GoTo, batchVars, itemVars,
                ParserPhase, CounterInRange, IndexInBounds, HandlerMatchesItem, AtItem
  <2>3. CASE ReadNumberOfItems(param)
    BY <2>0, <2>3
       DEF ReadNumberOfItems, AtWord, BatchWord, Provided, Continue, itemVars,
           ParserPhase, CounterInRange, IndexInBounds, HandlerMatchesItem, AtItem, UINT8
  <2>4. CASE ReadOnlyItemOffset(param)
    <3>1. batch_dispatch_number_of_items = 1 /\ cnt = 1 /\ CurrentIndex = 0
      BY <2>4, CounterArithmetic
         DEF ReadOnlyItemOffset, AtWord, CounterInRange, TypeOK, UINT8
    <3> QED
      BY <2>4, <3>1, MaxItemsAssumption
         DEF ReadOnlyItemOffset, AtWord, BatchWord, Provided, GoTo, batchVars, itemVars,
             ParserPhase, CounterInRange, IndexInBounds, HandlerMatchesItem, AtItem,
             Indices, CurrentIndex, UINT8
  <2>5. CASE ReadItemOffset(param)
    BY <2>5, CounterArithmetic
       DEF ReadItemOffset, AtWord, BatchWord, Provided, Continue, itemVars, TypeOK, UINT8,
           ParserPhase, CounterInRange, IndexInBounds, HandlerMatchesItem, AtItem
  <2>6. CASE ReadLastItemOffset(param)
    <3>1. CurrentIndex' = 0
      BY <2>6, CounterArithmetic DEF ReadLastItemOffset, CurrentIndex, TypeOK, UINT8
    <3> QED
      BY <2>6, <3>1, MaxItemsAssumption
         DEF ReadLastItemOffset, AtWord, BatchWord, Provided, GoTo, itemVars, TypeOK, UINT8,
             ParserPhase, CounterInRange, IndexInBounds, HandlerMatchesItem, AtItem, Indices
  <2>7. CASE ReadItemProxy(param)
    BY <2>7 DEF ReadItemProxy, AtWord, BatchWord, Provided, GoTo, batchVars, itemVars,
                ParserPhase, CounterInRange, IndexInBounds, HandlerMatchesItem, AtItem,
                CurrentIndex
  <2>8. CASE ReadItemLength(param)
    BY <2>8 DEF ReadItemLength, AtWord, BatchWord, Provided, Continue, batchVars,
                ParserPhase, CounterInRange, IndexInBounds, HandlerMatchesItem, AtItem,
                CurrentIndex
  <2>9. CASE ReadItem(param)
    <3>1. /\ next_param = "BATCH_DISPATCH_ITEM" /\ selectorIndex = "BATCH_DISPATCH"
          /\ selectorIndex' = selectorIndex
          /\ ~handle_item(param).done
          /\ next_param' = "BATCH_DISPATCH_ITEM" /\ go_to_offset' = FALSE
          /\ UNCHANGED <<batch_dispatch_number_of_items, cnt>>
          /\ item_selector' = ItemSelector(param)
          /\ item_handler' = ItemHandler(param)
          /\ item_length' = handle_item(param).length
          /\ TypeItem(param)
      BY <2>9 DEF ReadItem, AtWord, BatchWord, Provided, Continue
    <3>2. ParserPhase' /\ CounterInRange' /\ IndexInBounds'
      BY <3>1 DEF ParserPhase, CounterInRange, IndexInBounds, AtItem, CurrentIndex
    <3>3. /\ batch_dispatch_number_of_items = 1 /\ cnt = 1
      BY <3>1, ItemGoesOn DEF CounterInRange, AtItem, TypeOK, UINT8
    <3>4. item_types'[0] = ItemHandler(param)
      <4>1. CurrentIndex = 0 /\ 0 \in Indices
        BY <3>3, CounterArithmetic, MaxItemsAssumption DEF Indices, UINT8
      <4>2. item_types' = [item_types EXCEPT ![0] = ItemHandler(param)]
        BY <4>1, <3>1, ItemGoesOn DEF TypeItem
      <4> QED
        BY <4>1, <4>2 DEF TypeOK
    <3>5. HandlerMatchesItem'
      <4> "NULL" \notin HandledTypes
        BY DEF HandledTypes, MarketTypes, PermitTypes, AmountTypes
      <4> QED
        BY <3>1, <3>3, <3>4, ItemGoesOn DEF HandlerMatchesItem, NULL
    <3> QED
      BY <3>2, <3>5
  <2>10. CASE FinishItem(param)
    <3> DEFINE next == (batch_dispatch_number_of_items - cntLess) % UINT8
    <3>1. /\ next_param = "BATCH_DISPATCH_ITEM" /\ selectorIndex = "BATCH_DISPATCH"
          /\ selectorIndex' = selectorIndex
          /\ UNCHANGED batch_dispatch_number_of_items
          /\ item_selector' = 0 /\ item_handler' = NULL
          /\ cnt' = cntLess
      BY <2>10 DEF FinishItem, AtWord, BatchWord, Provided
    <3>2. HandlerMatchesItem'
      BY <3>1 DEF HandlerMatchesItem
    <3>3. CurrentIndex' = next
      BY <3>1 DEF CurrentIndex
    <3>4. batch_dispatch_number_of_items # 0 => cnt' <= batch_dispatch_number_of_items
      BY <3>1, CounterArithmetic DEF CounterInRange, AtItem, TypeOK, UINT8
    <3>5. CASE cntLess = 0 \/ next >= MAX_ITEMS_IN_BATCH
      <4> next_param' = "UNEXPECTED_PARAMETER" /\ go_to_offset' = FALSE
        BY <2>10, <3>5 DEF FinishItem, Continue
      <4> QED
        BY <3>1, <3>2, <3>4 DEF ParserPhase, CounterInRange, IndexInBounds, AtItem
    <3>6. CASE ~(cntLess = 0 \/ next >= MAX_ITEMS_IN_BATCH)
      <4>1. next_param' = "BATCH_DISPATCH_ITEM_PROXY"
        BY <2>10, <3>6 DEF FinishItem, GoTo
      <4>2. next \in Indices
        BY <3>6, CounterArithmetic, MaxItemsAssumption DEF Indices, UINT8
      <4> QED
        BY <4>1, <4>2, <3>1, <3>2, <3>3, <3>4, <3>6
           DEF ParserPhase, CounterInRange, IndexInBounds, AtItem
    <3> QED
      BY <3>5, <3>6
  <2> QED
    BY <1>6, <2>1, <2>2, <2>3, <2>4, <2>5, <2>6, <2>7, <2>8, <2>9, <2>10 DEF ReadWord
<1>7. ASSUME UNCHANGED parserVars
      PROVE  ParserInv'
  BY <1>7 DEF parserVars, contextVars, offsetVars, batchVars, itemVars, ParserPhase,
              CounterInRange, IndexInBounds, HandlerMatchesItem, AtItem, CurrentIndex
<1> QED
  BY <1>1, <1>2, <1>3, <1>4, <1>5, <1>6, <1>7 DEF AnyCall, PassWord, IInv

\* IInv is an invariant of the parser.
LEMMA ParserInvariant == Spec => []IInv
<1>1. IInv /\ [Next]_parserVars => IInv'
  BY ParserStep, NextIsAnyCall
<1> QED
  BY <1>1, ParserInit, PTL DEF Spec

\* item_types is never written outside its bounds, whatever the call data: not by a
\* batch of more items than it has room for, nor after the counter has wrapped
\* (handle_provide_parameter.c:355-420).
THEOREM IndexStaysInBounds == Spec => []IndexInBounds
<1> IInv => IndexInBounds
  BY DEF IInv, ParserInv
<1> QED
  BY ParserInvariant, PTL

\* The down-counter of a batch with items never wraps.
THEOREM CounterStaysInRange == Spec => []CounterInRange
<1> IInv => CounterInRange
  BY DEF IInv, ParserInv
<1> QED
  BY ParserInvariant, PTL

\* No handler outlives the item it was chosen for.
THEOREM HandlerStaysMatched == Spec => []HandlerMatchesItem
<1> IInv => HandlerMatchesItem
  BY DEF IInv, ParserInv
<1> QED
  BY ParserInvariant, PTL

-----------------------------------------------------------------------------
(***************************************************************************)
(* What a word may never do.                                               *)
(***************************************************************************)

\* Neither init belongs to the transaction before it.
LEMMA InitEndsTransaction ==
  ASSUME TypeOK, SameTransaction
  PROVE  /\ \A status \in {"UNAVAILABLE", "ERROR"} : ~RefuseInit(status)
         /\ \A sel \in CallSelectors : ~InitContract(sel)
BY MaxWordsAssumption DEF TypeOK, SameTransaction, RefuseInit, InitContract

\* Once the parser is in UNEXPECTED_PARAMETER, no word of the transaction changes
\* the context: what will be displayed is settled.
THEOREM RestStaysIgnored == Spec => RestIsIgnored
<1>1. ASSUME IInv, [Next]_parserVars, SameTransaction,
             next_param = "UNEXPECTED_PARAMETER"
      PROVE  UNCHANGED contextVars
  <2> TypeOK /\ ParserPhase
    BY <1>1 DEF IInv, ParserInv
  <2>1. ~go_to_offset /\ selectorIndex # "ACTIVATE_MARKET"
    BY <1>1 DEF ParserPhase
  <2>2. CASE IgnoreWord
    BY <2>1, <2>2, <1>1
       DEF IgnoreWord, AtWord, BatchWord, Provided, Continue, contextVars, offsetVars, TypeOK
  <2>3. ~SkipWord /\ ~MissGoal
    BY <2>1 DEF SkipWord, MissGoal
  <2>4. ASSUME NEW param \in CallWords
        PROVE  ~ReadWord(param)
    BY <1>1, <2>1
       DEF ReadWord, ActivateMarket, ReadItemsOffset, ReadNumberOfItems,
           ReadOnlyItemOffset, ReadItemOffset, ReadLastItemOffset, ReadItemProxy,
           ReadItemLength, ReadItem, FinishItem, AtWord
  <2>5. CASE UNCHANGED parserVars
    BY <2>5 DEF parserVars
  <2> QED
    BY <1>1, <2>2, <2>3, <2>4, <2>5, InitEndsTransaction DEF Next, PassWord
<1> QED
  BY <1>1, ParserInvariant, PTL DEF Spec, RestIsIgnored

\* An item that the parser has left is never written again, and the items are taken
\* one after the other.
THEOREM ItemsStayInOrder == Spec => ItemsSettleInOrder
<1> DEFINE InOrder ==
             /\ AtItem' => CurrentIndex' \in {CurrentIndex, CurrentIndex + 1}
             /\ \A i \in Indices : i # CurrentIndex => item_types'[i] = item_types[i]
<1>1. ASSUME IInv, [Next]_parserVars, SameTransaction, AtItem
      PROVE  InOrder
  <2> TypeOK /\ ParserPhase /\ IndexInBounds
    BY <1>1 DEF IInv, ParserInv
  <2>1. selectorIndex # "ACTIVATE_MARKET"
    BY <1>1 DEF ParserPhase, AtItem
  <2>2. ASSUME UNCHANGED <<batch_dispatch_number_of_items, cnt, item_types>>
        PROVE  InOrder
    BY <2>2 DEF CurrentIndex
  <2>3. CASE SkipWord \/ MissGoal \/ IgnoreWord
    BY <2>2, <2>3 DEF SkipWord, MissGoal, IgnoreWord, batchVars
  <2>4. ASSUME NEW param \in CallWords, ReadWord(param)
        PROVE  InOrder
    <3>1. CASE ReadItemProxy(param) \/ ReadItemLength(param)
      BY <2>2, <3>1 DEF ReadItemProxy, ReadItemLength, batchVars
    <3>2. ASSUME TypeItem(param)
          PROVE  \A i \in Indices : i # CurrentIndex => item_types'[i] = item_types[i]
      BY <3>2 DEF TypeItem, TypeOK
    <3>3. CASE ReadItem(param)
      <4> CurrentIndex' = CurrentIndex /\ TypeItem(param)
        BY <3>3 DEF ReadItem, CurrentIndex
      <4> QED
        BY <3>2
    <3>4. CASE FinishItem(param)
      <4>1. TypeItem(param) /\ cnt' = cntLess
              /\ UNCHANGED batch_dispatch_number_of_items
        BY <3>4 DEF FinishItem
      <4>2. CurrentIndex' = (CurrentIndex + 1) % UINT8
        BY <4>1, CounterArithmetic DEF CurrentIndex
      <4>3. CurrentIndex + 1 \in 0..UINT8 - 1
        BY <1>1, MaxItemsAssumption DEF IndexInBounds, Indices, UINT8
      <4>4. CurrentIndex' = CurrentIndex + 1
        BY <4>2, <4>3 DEF UINT8
      <4> QED
        BY <4>1, <4>4, <3>2
    <3> QED
      BY <2>4, <1>1, <2>1, <3>1, <3>3, <3>4
         DEF ReadWord, ActivateMarket, ReadItemsOffset, ReadNumberOfItems,
             ReadOnlyItemOffset, ReadItemOffset, ReadLastItemOffset, AtWord, AtItem
  <2>5. CASE UNCHANGED parserVars
    BY <2>2, <2>5 DEF parserVars, contextVars, batchVars
  <2> QED
    BY <1>1, <2>3, <2>4, <2>5, InitEndsTransaction DEF Next, PassWord
<1> HIDE DEF InOrder
<1>2. IInv /\ [Next]_parserVars => [SameTransaction /\ AtItem => InOrder]_parserVars
  BY <1>1
<1> QED
  BY <1>2, ParserInvariant, PTL DEF Spec, ItemsSettleInOrder, InOrder
=============================================================================
