-------------------------- MODULE BatchParsing_proofs --------------------------
(***************************************************************************)
(* The parser of handle_provide_parameter reads the batch it is given:     *)
(* where it is in the call data at every word, from which it follows that  *)
(* what it keeps of a batch is the batch, for every number of items and    *)
(* every length of theirs that its integers can hold.                      *)
(***************************************************************************)
EXTENDS PluginSession_proofs, Calldata_proofs

Items(t) == Transactions[t].items

\* The batches whose numbers the parser can hold: it counts the items in a byte, and
\* the place of each item that it remembers fits 16 bits.
Decodable ==
  {t \in Readable :
     /\ Transactions[t].function = "BATCH_DISPATCH"
     /\ Len(Items(t)) \in 1..UINT8 - 1
     /\ \A i \in 1..Len(Items(t)) :
          i <= MAX_ITEMS_IN_BATCH
            => PARAMETER_LENGTH * (ItemStart(Items(t), i) + 6) < UINT16}

\* The only item, if it is a swap, has the arguments its function takes.
SwapIsComplete(t) ==
  Len(Items(t)) = 1 =>
    /\ Items(t)[1].type = "SWAP" => ArgumentCount(Items(t)[1]) >= 12
    /\ Items(t)[1].type = "SWAP_AND_REPAY" => ArgumentCount(Items(t)[1]) >= 13

-----------------------------------------------------------------------------
(***************************************************************************)
(* The inductive invariant.                                                *)
(***************************************************************************)

\* How many words come before item i.
HeadOf(t, i) == 3 + ItemStart(Items(t), i)

\* The parser waits for a word that has not gone by.
Seeks(place) ==
  go_to_offset /\ offset = PARAMETER_LENGTH * place /\ fieldIndex <= place

\* The first k offsets of several have been read.
OffsetsKnown(t, k) ==
  /\ is_max_exceeded <=> k > MAX_ITEMS_IN_BATCH
  /\ k > 0 => base_items_offset = SELECTOR_SIZE + PARAMETER_LENGTH * 3
  /\ \A i \in Indices :
       i < k => items_offsets[i] = PARAMETER_LENGTH * ItemStart(Items(t), i + 1)

\* The first k items have their types.
TypesKnown(t, k) == \A i \in Indices : i < k => item_types[i] = Items(t)[i + 1].type

\* The number of items, and their offsets if there are several, have been read.
HeaderKnown(t) ==
  /\ batch_dispatch_number_of_items = Len(Items(t))
  /\ is_max_exceeded <=> Len(Items(t)) > MAX_ITEMS_IN_BATCH
  /\ Len(Items(t)) # 1 => OffsetsKnown(t, Len(Items(t)))

\* Before the items.
InHeader(t) ==
  /\ next_param = "BATCH_DISPATCH_ITEMS_OFFSET" => ~go_to_offset /\ fieldIndex = 0
  /\ next_param = "BATCH_DISPATCH_NUMBER_OF_ITEMS" => Seeks(2)
  /\ next_param = "BATCH_DISPATCH_ITEMS_OFFSETS" =>
       /\ ~go_to_offset
       /\ batch_dispatch_number_of_items = Len(Items(t))
       /\ fieldIndex \in 3..Len(Items(t)) + 2
       /\ cnt = Len(Items(t)) - (fieldIndex - 3)
       /\ OffsetsKnown(t, fieldIndex - 3)

\* At an item: the words sought are its own.  A handler that has begun never waits
\* for more words than the item has.
InItem(t) ==
  LET head == HeadOf(t, CurrentIndex + 1)
  IN  AtItem =>
        /\ HeaderKnown(t)
        /\ TypesKnown(t, CurrentIndex)
        /\ next_param = "BATCH_DISPATCH_ITEM_PROXY" => Seeks(head + 1)
        /\ next_param = "BATCH_DISPATCH_ITEM_LENGTH" => Seeks(head + 3)
        /\ next_param = "BATCH_DISPATCH_ITEM" => ~go_to_offset
        /\ next_param = "BATCH_DISPATCH_ITEM" /\ item_handler = NULL =>
             /\ fieldIndex = head + 4
             /\ item_length = ItemDataLength(Items(t)[CurrentIndex + 1]) % UINT16
        /\ next_param = "BATCH_DISPATCH_ITEM" /\ item_handler # NULL =>
             /\ TypesKnown(t, 1)
             /\ SwapIsComplete(t) =>
                  PARAMETER_LENGTH * fieldIndex + item_length
                    <= PARAMETER_LENGTH * DeferredStart(t)

\* After the items.
AfterItems(t) ==
  next_param = "UNEXPECTED_PARAMETER" =>
    ~go_to_offset /\ HeaderKnown(t) /\ TypesKnown(t, Len(Items(t)))

\* The parser is where it should be in batch t.
Follows(t) ==
  /\ selectorIndex = "BATCH_DISPATCH"
  /\ next_param # "ACTIVATE_MARKET_UNDERLYING"
  /\ InHeader(t) /\ InItem(t) /\ AfterItems(t)

BatchInv ==
  \A t \in Decodable :
    phase # "idle" /\ tx = t => Follows(t) /\ (DataIsIn => fieldIndex = Len(Words[t]))

-----------------------------------------------------------------------------
(***************************************************************************)
(* The words of a batch.                                                   *)
(***************************************************************************)

\* Where the items are, in words from the beginning of the call data.
LEMMA HeadPlaces ==
  ASSUME NEW t \in Decodable
  PROVE  /\ Items(t) \in Seq(BatchItem) /\ Len(Items(t)) \in 1..255
         /\ \A i \in 1..Len(Items(t)) : HeadOf(t, i) \in Nat
         /\ HeadOf(t, 1) = 3 + Len(Items(t))
         /\ \A i \in 1..Len(Items(t)) - 1 : HeadOf(t, i) + 5 <= HeadOf(t, i + 1)
         /\ \A i \in 1..Len(Items(t)) : i <= MAX_ITEMS_IN_BATCH =>
              PARAMETER_LENGTH * (HeadOf(t, i) + 3) < UINT16
<1> DEFINE items == Items(t)
           n     == Len(items)
<1>1. items \in Seq(BatchItem) /\ n \in 1..255
  <2>1. t \in Readable /\ Transactions[t].function = "BATCH_DISPATCH"
    BY DEF Decodable
  <2>2. n \in 1..UINT8 - 1
    BY DEF Decodable
  <2>3. items \in Seq(BatchItem)
    BY <2>1, TransactionsAssumption DEF Items
  <2>4. UINT8 - 1 = 255
    BY DEF UINT8
  <2> QED
    BY <2>2, <2>3, <2>4
<1> HIDE DEF items
<1>2. \A i \in 1..n + 1 : BodyStart(items, i) \in Nat
  BY <1>1, BodyStartType
<1>3. \A i \in 1..n : BodyStart(items, i) + 5 <= BodyStart(items, i + 1)
  <2> TAKE i \in 1..n
  <2>1. items[i] \in BatchItem
    BY <1>1
  <2>2. ItemSize(items[i]) \in Nat /\ ItemSize(items[i]) >= 5
    BY <2>1, ItemSizeType
  <2>3. BodyStart(items, i + 1) = BodyStart(items, i) + ItemSize(items[i])
    BY <1>1, BodyStartNext
  <2> QED
    BY <1>1, <1>2, <2>2, <2>3
<1>4. BodyStart(items, 1) = 0
  BY <1>1, BodyStartFirst
<1>5. \A i : HeadOf(t, i) = 3 + (n + BodyStart(items, i))
  BY DEF HeadOf, ItemStart, items
<1>6. \A i \in 1..n : i <= MAX_ITEMS_IN_BATCH
        => PARAMETER_LENGTH * ((n + BodyStart(items, i)) + 6) < UINT16
  BY DEF Decodable, ItemStart, items
<1>7. \A i \in 1..n : HeadOf(t, i) \in Nat /\ HeadOf(t, i) + 3 = (n + BodyStart(items, i)) + 6
  <2> TAKE i \in 1..n
  <2>1. BodyStart(items, i) \in Nat /\ HeadOf(t, i) = 3 + (n + BodyStart(items, i))
    BY <1>1, <1>2, <1>5
  <2> HIDE DEF n
  <2> QED
    BY <1>1, <2>1
<1>8. \A i \in 1..n - 1 : HeadOf(t, i) + 5 <= HeadOf(t, i + 1)
  <2> TAKE i \in 1..n - 1
  <2>1. i \in 1..n /\ i + 1 \in 1..n
    BY <1>1
  <2>2. /\ HeadOf(t, i) = 3 + (n + BodyStart(items, i))
        /\ HeadOf(t, i + 1) = 3 + (n + BodyStart(items, i + 1))
    BY <1>5
  <2>3. /\ BodyStart(items, i) \in Nat /\ BodyStart(items, i + 1) \in Nat
        /\ BodyStart(items, i) + 5 <= BodyStart(items, i + 1)
    BY <1>1, <1>2, <1>3, <2>1
  <2> HIDE DEF n
  <2> QED
    BY <1>1, <2>2, <2>3
<1>9. HeadOf(t, 1) = 3 + n
  BY <1>1, <1>4, <1>5
<1>10. \A i \in 1..n : i <= MAX_ITEMS_IN_BATCH => PARAMETER_LENGTH * (HeadOf(t, i) + 3) < UINT16
  BY <1>6, <1>7
<1> QED
  BY <1>1, <1>7, <1>8, <1>9, <1>10 DEF items

\* The word that holds a number is read as that number.
LEMMA NumberRead ==
  ASSUME NEW k
  PROVE  NumberIn(NumberWord(k)) = k % UINT16
BY DEF NumberIn, NumberWord, ZeroWord

\* The parser recognises the item by its selector.
LEMMA TypeRead ==
  ASSUME NEW item \in BatchItem
  PROVE  ItemTypeOf(ItemSelectorOf(item)) = item.type
<1> item.type \in HandledTypes \union {"UNEXPECTED_ITEM"}
  BY DEF BatchItem
<1>1. CASE item.type = "UNEXPECTED_ITEM"
  <2>1. ~ \E s \in HandledTypes : SelectorOf[s] = UnknownSelector
    BY UnknownSelectorAssumption DEF Selectors
  <2> QED
    BY <1>1, <2>1 DEF ItemSelectorOf, ItemTypeOf
<1>2. CASE item.type \in HandledTypes
  <2>1. item.type # "UNEXPECTED_ITEM"
    BY <1>2 DEF HandledTypes, MarketTypes, PermitTypes, AmountTypes
  <2>2. \A s \in HandledTypes : SelectorOf[s] = SelectorOf[item.type] => s = item.type
    BY <1>2, SelectorAssumption DEF Selectors
  <2> QED
    BY <1>2, <2>1, <2>2 DEF ItemSelectorOf, ItemTypeOf
<1> QED
  BY <1>1, <1>2

\* The words the parser is fed are the call data of the transaction.
LEMMA WordsOfTransaction ==
  ASSUME NEW t \in Readable
  PROVE  Words[t] = CallData(Transactions[t])
<1> DEFINE all == [s \in DOMAIN Transactions |->
                     IF s \in Readable THEN CallData(Transactions[s]) ELSE <<>>]
<1>1. all \in Seq(Range(all))
  <2> all \in [1..Len(Transactions) -> Range(all)]
    BY TransactionsAssumption DEF Range
  <2> HIDE DEF all
  <2> QED
    BY TransactionsAssumption
<1>2. Words = all
  <2>1. Words = <<>> \o all
    BY DEF Words
  <2> HIDE DEF all
  <2> QED
    BY <1>1, <2>1
<1>3. t \in DOMAIN Transactions
  BY DEF Readable
<1> QED
  BY <1>2, <1>3

\* The words the parser reads of a batch, and where they are.
LEMMA WordsOfBatch ==
  ASSUME NEW t \in Decodable
  PROVE  LET n == Len(Items(t))
         IN  /\ NumberIn(Words[t][1]) = PARAMETER_LENGTH * 2
             /\ NumberIn(Words[t][3]) = n
             /\ \A i \in 1..n : i <= MAX_ITEMS_IN_BATCH =>
                  /\ NumberIn(Words[t][3 + i]) = PARAMETER_LENGTH * ItemStart(Items(t), i)
                  /\ NumberIn(Words[t][HeadOf(t, i) + 4]) = ItemDataLength(Items(t)[i]) % UINT16
                  /\ Words[t][HeadOf(t, i) + 5][1] = ItemSelectorOf(Items(t)[i])
             /\ \A i \in 1..n : HeadOf(t, i) + 5 <= DeferredStart(t)
             /\ n = 1 => DeferredStart(t) = HeadOf(t, 1) + 5 + ArgumentCount(Items(t)[1])
             /\ DeferredStart(t) \in Nat /\ DeferredStart(t) < Len(Words[t])
             /\ \A k \in 1..Len(Words[t]) : Words[t][k] \in Word
<1> DEFINE items    == Items(t)
           n        == Len(items)
           deferred == Transactions[t].deferLiquidityChecks
           words    == BatchWords(items, deferred)
<1>1. items \in Seq(BatchItem) /\ n \in 1..255 /\ deferred \in Seq(Word)
  BY HeadPlaces, TransactionsAssumption DEF Decodable
<1>2. Words[t] = words
  BY WordsOfTransaction DEF CallData, Decodable, Items
<1>3. /\ Len(words) = 4 + n + BodyStart(items, n + 1) + Len(deferred)
      /\ words[1] = NumberWord(2 * PARAMETER_LENGTH)
      /\ words[3] = NumberWord(n)
      /\ \A i \in 1..n : words[3 + i] = NumberWord(PARAMETER_LENGTH * ItemStart(items, i))
      /\ \A i \in 1..n : \A k \in 1..ItemSize(items[i]) :
           words[3 + ItemStart(items, i) + k] = ItemWord(items[i], k)
  <2> HIDE DEF items, deferred
  <2> QED
    BY <1>1, BatchLayout
<1>4. Words[t] \in Seq(Word)
  BY TransactionsAssumption DEF Decodable
<1>5. /\ n \in Nat /\ \A i \in 1..n + 1 : BodyStart(items, i) \in Nat
      /\ \A i \in 1..n : BodyStart(items, i + 1) = BodyStart(items, i) + ItemSize(items[i])
      /\ \A i \in 1..n : BodyStart(items, i + 1) <= BodyStart(items, n + 1)
      /\ \A i \in 1..n : /\ items[i] \in BatchItem /\ ItemSize(items[i]) \in Nat
                          /\ ItemSize(items[i]) >= 5
      /\ \A i \in 1..n : HeadOf(t, i) = 3 + ItemStart(items, i) /\ HeadOf(t, i) \in Nat
  <2>1. \A i \in 1..n : items[i] \in BatchItem
    BY <1>1
  <2>2. \A i \in 1..n : HeadOf(t, i) \in Nat
    BY HeadPlaces
  <2>3. \A i \in 1..n : HeadOf(t, i) = 3 + ItemStart(items, i)
    BY DEF HeadOf
  <2>4. \A i \in 1..n : i + 1 \in 1..n + 1 /\ n + 1 \in i + 1..n + 1
    BY <1>1
  <2> HIDE DEF items, n
  <2>5. \A i \in 1..n : ItemSize(items[i]) \in Nat /\ ItemSize(items[i]) >= 5
    BY <2>1, ItemSizeType
  <2>6. n \in Nat /\ items \in Seq(BatchItem) /\ n = Len(items)
    BY <1>1 DEF n
  <2>7. \A i \in 1..n + 1 : BodyStart(items, i) \in Nat
    BY <2>6, BodyStartType
  <2>8. \A i \in 1..n : BodyStart(items, i + 1) = BodyStart(items, i) + ItemSize(items[i])
    BY <2>6, BodyStartNext
  <2>9. \A i \in 1..n : BodyStart(items, i + 1) <= BodyStart(items, n + 1)
    BY <2>4, <2>6, BodyStartMonotone
  <2> QED
    BY <2>1, <2>2, <2>3, <2>5, <2>6, <2>7, <2>8, <2>9
<1>6. DeferredStart(t) = 3 + n + BodyStart(items, n + 1) /\ Len(deferred) \in Nat
  <2>1. DeferredStart(t) = Len(words) - Len(deferred) - 1
    BY <1>2 DEF DeferredStart
  <2>2. n \in Nat /\ BodyStart(items, n + 1) \in Nat /\ Len(deferred) \in Nat
    BY <1>1, <1>5
  <2>3. Len(words) = 4 + n + BodyStart(items, n + 1) + Len(deferred)
    BY <1>3
  <2> HIDE DEF words, n, items, deferred
  <2> QED
    BY <2>1, <2>2, <2>3
<1>7. \A i \in 1..n : HeadOf(t, i) = 3 + n + BodyStart(items, i)
  <2> TAKE i \in 1..n
  <2> n \in Nat /\ BodyStart(items, i) \in Nat
    BY <1>5
  <2> QED
    BY <1>5 DEF ItemStart
<1> HIDE DEF items, n, deferred, words
<1>8. NumberIn(Words[t][1]) = PARAMETER_LENGTH * 2 /\ NumberIn(Words[t][3]) = n
  <2>1. /\ NumberIn(Words[t][1]) = (2 * PARAMETER_LENGTH) % UINT16
        /\ NumberIn(Words[t][3]) = n % UINT16
    BY <1>2, <1>3, NumberRead
  <2> QED
    BY <1>1, <2>1 DEF PARAMETER_LENGTH, UINT16
<1>9. ASSUME NEW i \in 1..n, i <= MAX_ITEMS_IN_BATCH
      PROVE  /\ NumberIn(Words[t][3 + i]) = PARAMETER_LENGTH * ItemStart(items, i)
             /\ NumberIn(Words[t][HeadOf(t, i) + 4]) = ItemDataLength(items[i]) % UINT16
             /\ Words[t][HeadOf(t, i) + 5][1] = ItemSelectorOf(items[i])
  <2>1. /\ PARAMETER_LENGTH * (ItemStart(items, i) + 6) < UINT16
        /\ ItemStart(items, i) \in Nat
    <3>1. BodyStart(items, i) \in Nat /\ n \in Nat
      BY <1>5
    <3> QED
      BY <1>9, <3>1 DEF Decodable, items, n, ItemStart
  <2>2. NumberIn(Words[t][3 + i]) = PARAMETER_LENGTH * ItemStart(items, i)
    <3> DEFINE k == PARAMETER_LENGTH * ItemStart(items, i)
    <3>1. Words[t][3 + i] = NumberWord(k)
      BY <1>2, <1>3
    <3>2. NumberIn(Words[t][3 + i]) = k % UINT16
      BY <3>1, NumberRead
    <3>3. k \in Nat /\ k < UINT16
      BY <2>1 DEF PARAMETER_LENGTH, UINT16
    <3> HIDE DEF k
    <3>4. k % UINT16 = k
      BY <3>3 DEF UINT16
    <3> QED
      BY <3>2, <3>4 DEF k
  <2>3. /\ 4 \in 1..ItemSize(items[i]) /\ 5 \in 1..ItemSize(items[i])
        /\ HeadOf(t, i) = 3 + ItemStart(items, i)
    BY <1>5
  <2>4. /\ Words[t][HeadOf(t, i) + 4] = ItemWord(items[i], 4)
        /\ Words[t][HeadOf(t, i) + 5] = ItemWord(items[i], 5)
    BY <1>2, <1>3, <2>3
  <2>5. ItemWord(items[i], 4) = NumberWord(ItemDataLength(items[i]))
    BY DEF ItemWord
  <2>6. ItemWord(items[i], 5)[1] = ItemSelectorOf(items[i])
    BY DEF ItemWord, ItemDataWord
  <2> QED
    BY <2>2, <2>4, <2>5, <2>6, NumberRead
<1>10. ASSUME NEW i \in 1..n
       PROVE  HeadOf(t, i) + 5 <= DeferredStart(t)
  <2>1. /\ BodyStart(items, i) \in Nat /\ BodyStart(items, i + 1) \in Nat
        /\ BodyStart(items, n + 1) \in Nat /\ n \in Nat
    BY <1>5
  <2> QED
    BY <2>1, <1>5, <1>6, <1>7
<1>11. ASSUME n = 1
       PROVE  DeferredStart(t) = HeadOf(t, 1) + 5 + ArgumentCount(items[1])
  <2>1. /\ 1 \in 1..n /\ BodyStart(items, 1) \in Nat
        /\ BodyStart(items, 2) = BodyStart(items, 1) + ItemSize(items[1])
    BY <1>5, <1>11
  <2>2. /\ ItemSize(items[1]) = 5 + ArgumentCount(items[1])
        /\ ArgumentCount(items[1]) \in Nat
    BY <1>5, <2>1, ItemSizeType DEF ItemSize
  <2> QED
    BY <1>6, <1>7, <1>11, <2>1, <2>2
<1>12. DeferredStart(t) \in Nat /\ DeferredStart(t) < Len(Words[t])
  <2> n \in Nat /\ BodyStart(items, n + 1) \in Nat
    BY <1>5
  <2> QED
    BY <1>2, <1>3, <1>6
<1>13. \A k \in 1..Len(Words[t]) : Words[t][k] \in Word
  BY <1>4
<1> QED
  BY <1>8, <1>9, <1>10, <1>11, <1>12, <1>13 DEF items, n

-----------------------------------------------------------------------------
(***************************************************************************)
(* The words of a batch, one action after the other.                       *)
(***************************************************************************)

\* What the actions need of the types.
LEMMA Numbers ==
  ASSUME IInv
  PROVE  /\ MAX_ITEMS_IN_BATCH \in Nat /\ MAX_ITEMS_IN_BATCH >= 1
         /\ fieldIndex \in Nat /\ offset \in Nat /\ cnt \in 0..255
         /\ batch_dispatch_number_of_items \in 0..255
         /\ item_length \in Nat
<1>1. MAX_ITEMS_IN_BATCH \in Nat /\ MAX_ITEMS_IN_BATCH >= 1
  BY MaxItemsAssumption DEF UINT8
<1>2. fieldIndex \in Nat
  <2>1. fieldIndex \in 0..MaxWords
    BY DEF IInv, TypeOK
  <2> QED
    BY <2>1, MaxWordsAssumption
<1>3. offset \in Nat
  <2>1. offset \in 0..UINT16 - 1
    BY DEF IInv, TypeOK
  <2> QED
    BY <2>1, FitsUINT16
<1>4. item_length \in Nat
  <2>1. item_length \in 0..UINT16 - 1
    BY DEF IInv, TypeOK
  <2> QED
    BY <2>1, FitsUINT16
<1>5. cnt \in 0..255
  <2>1. cnt \in 0..UINT8 - 1
    BY DEF IInv, TypeOK
  <2> QED
    BY <2>1 DEF UINT8
<1>6. batch_dispatch_number_of_items \in 0..255
  <2>1. batch_dispatch_number_of_items \in 0..UINT8 - 1
    BY DEF IInv, TypeOK
  <2> QED
    BY <2>1 DEF UINT8
<1> QED
  BY <1>1, <1>2, <1>3, <1>4, <1>5, <1>6

\* The item the parser is at is one of those it remembers.
LEMMA ItemHere ==
  ASSUME NEW t \in Decodable, IInv, Follows(t), AtItem
  PROVE  LET n == Len(Items(t))
             i == CurrentIndex + 1
         IN  /\ batch_dispatch_number_of_items = n /\ n \in 1..255
             /\ cnt \in 1..n /\ CurrentIndex = n - cnt
             /\ CurrentIndex \in Indices /\ CurrentIndex \in Nat
             /\ i \in 1..n /\ i <= MAX_ITEMS_IN_BATCH
             /\ HeadOf(t, i) \in Nat /\ PARAMETER_LENGTH * (HeadOf(t, i) + 3) < UINT16
<1> DEFINE n == Len(Items(t))
<1>1. n \in 1..255 /\ batch_dispatch_number_of_items = n
  BY HeadPlaces DEF Follows, InItem, HeaderKnown
<1> HIDE DEF n
<1>2. cnt \in 1..n /\ CurrentIndex \in Indices
  BY <1>1 DEF IInv, ParserInv, TypeOK, CounterInRange, IndexInBounds, UINT8
<1>3. CurrentIndex = n - cnt
  BY <1>1, <1>2 DEF CurrentIndex, UINT8
<1>4. CurrentIndex + 1 \in 1..n /\ CurrentIndex + 1 <= MAX_ITEMS_IN_BATCH
  BY <1>1, <1>2, <1>3, MaxItemsAssumption DEF Indices, UINT8
<1>5. CurrentIndex \in Nat
  BY <1>1, <1>2, <1>3
<1>6. /\ HeadOf(t, CurrentIndex + 1) \in Nat
      /\ PARAMETER_LENGTH * (HeadOf(t, CurrentIndex + 1) + 3) < UINT16
  BY <1>4, HeadPlaces DEF n
<1> QED
  BY <1>1, <1>2, <1>3, <1>4, <1>5, <1>6 DEF n

\* What is known of the batch stays known.
LEMMA KnownKept ==
  ASSUME NEW t, UNCHANGED <<base_items_offset, items_offsets,
                            batch_dispatch_number_of_items, is_max_exceeded>>
  PROVE  /\ HeaderKnown(t) => HeaderKnown(t)'
         /\ \A k : OffsetsKnown(t, k) => OffsetsKnown(t, k)'
BY DEF HeaderKnown, OffsetsKnown

\* The types read so far stay read while the table of types stays.
LEMMA TypesKept ==
  ASSUME NEW t, NEW k, UNCHANGED item_types, TypesKnown(t, k)
  PROVE  TypesKnown(t, k)'
BY DEF TypesKnown

\* A word that is not sought.
LEMMA SkipKeeps ==
  ASSUME NEW t \in Decodable, IInv, Follows(t), SkipWord
  PROVE  Follows(t)'
<1>1. /\ fieldIndex \in Nat /\ fieldIndex' = fieldIndex + 1
      /\ UNCHANGED <<selectorIndex, next_param, go_to_offset, offset, base_items_offset,
                     items_offsets, batch_dispatch_number_of_items, cnt,
                     is_max_exceeded, item_types, item_length, item_handler>>
  BY DEF SkipWord, BatchWord, Provided, offsetVars, batchVars, itemVars, IInv, TypeOK
<1>2. go_to_offset /\ PARAMETER_LENGTH * fieldIndex < offset
  BY <1>1 DEF SkipWord, parameterOffset, goal, SELECTOR_SIZE, PARAMETER_LENGTH, IInv, TypeOK
<1>3. ASSUME NEW place \in Nat, Seeks(place)
      PROVE  Seeks(place)'
  BY <1>1, <1>2, <1>3 DEF Seeks, PARAMETER_LENGTH
<1>4. InHeader(t)'
  BY <1>1, <1>2, <1>3, KnownKept DEF Follows, InHeader
<1>5. CurrentIndex' = CurrentIndex /\ AtItem' = AtItem
  BY <1>1 DEF CurrentIndex, AtItem
<1>6. InItem(t)'
  <2> SUFFICES ASSUME AtItem
               PROVE  InItem(t)'
    BY <1>5 DEF InItem
  <2>1. HeadOf(t, CurrentIndex + 1) \in Nat
    BY ItemHere
  <2>2. HeaderKnown(t)' /\ TypesKnown(t, CurrentIndex)'
    BY <1>1, <1>5, KnownKept, TypesKept DEF Follows, InItem, TypesKnown
  <2> QED
    BY <1>1, <1>2, <1>3, <1>5, <2>1, <2>2 DEF Follows, InItem
<1>7. AfterItems(t)'
  BY <1>1, <1>2 DEF Follows, AfterItems
<1> QED
  BY <1>1, <1>4, <1>6, <1>7 DEF Follows

\* The word sought is never missed: the parser always seeks a word to come.
LEMMA NothingMissed ==
  ASSUME NEW t \in Decodable, IInv, Follows(t)
  PROVE  ~MissGoal
<1> SUFFICES ASSUME MissGoal
             PROVE  FALSE
  OBVIOUS
<1>1. fieldIndex \in Nat /\ offset \in Nat
  BY Numbers
<1>2. go_to_offset /\ PARAMETER_LENGTH * fieldIndex > offset
  BY <1>1 DEF MissGoal, parameterOffset, goal, SELECTOR_SIZE, PARAMETER_LENGTH
<1>3. ASSUME NEW place \in Nat, Seeks(place)
      PROVE  FALSE
  BY <1>1, <1>2, <1>3 DEF Seeks, PARAMETER_LENGTH
<1>4. ASSUME AtItem
      PROVE  FALSE
  <2>1. HeadOf(t, CurrentIndex + 1) \in Nat
    BY <1>4, ItemHere
  <2> QED
    BY <1>2, <1>3, <1>4, <2>1 DEF Follows, InItem, AtItem
<1> QED
  BY <1>2, <1>3, <1>4
     DEF Follows, InHeader, AfterItems, AtItem, IInv, TypeOK, parameter

\* The word read is the one sought.
LEMMA WordSought ==
  ASSUME NEW p, IInv, AtWord(p), NEW place \in Nat, Seeks(place)
  PROVE  fieldIndex = place
<1> fieldIndex \in Nat /\ offset = 32 * place /\ 4 + 32 * fieldIndex = offset + 4
  BY DEF IInv, TypeOK, AtWord, Seeks, parameterOffset, goal, SELECTOR_SIZE, PARAMETER_LENGTH
<1> QED
  OBVIOUS

\* Each word of the header leaves the parser where the batch says: the offset of the
\* items (handle_provide_parameter.c:268-273)...
LEMMA ItemsOffsetFollows ==
  ASSUME NEW t \in Decodable, IInv, Follows(t), ReadItemsOffset(Words[t][fieldIndex + 1])
  PROVE  Follows(t)'
<1>1. fieldIndex = 0
  BY DEF ReadItemsOffset, AtWord, Follows, InHeader
<1>2. NumberIn(Words[t][fieldIndex + 1]) = PARAMETER_LENGTH * 2
  BY <1>1, WordsOfBatch
<1>3. /\ offset' = PARAMETER_LENGTH * 2 /\ go_to_offset' = TRUE /\ fieldIndex' = 1
      /\ next_param' = "BATCH_DISPATCH_NUMBER_OF_ITEMS" /\ selectorIndex' = selectorIndex
  BY <1>1, <1>2
     DEF ReadItemsOffset, AtWord, BatchWord, Provided, GoTo, PARAMETER_LENGTH, UINT16
<1> QED
  BY <1>3 DEF Follows, InHeader, InItem, AfterItems, AtItem, Seeks

\* ... the number of items, from which the parser counts down...
LEMMA NumberOfItemsFollows ==
  ASSUME NEW t \in Decodable, IInv, Follows(t), ReadNumberOfItems(Words[t][fieldIndex + 1])
  PROVE  Follows(t)'
<1> DEFINE n == Len(Items(t))
<1>1. fieldIndex = 2
  BY WordSought DEF ReadNumberOfItems, AtWord, Follows, InHeader
<1>2. NumberIn(Words[t][fieldIndex + 1]) = n /\ n \in 1..255
  BY <1>1, WordsOfBatch, HeadPlaces
<1> HIDE DEF n
<1>3. /\ batch_dispatch_number_of_items' = n /\ cnt' = n /\ is_max_exceeded' = FALSE
      /\ go_to_offset' = FALSE /\ fieldIndex' = 3
      /\ next_param' = "BATCH_DISPATCH_ITEMS_OFFSETS" /\ selectorIndex' = selectorIndex
  BY <1>1, <1>2 DEF ReadNumberOfItems, AtWord, BatchWord, Provided, Continue, UINT8
<1>4. OffsetsKnown(t, 0)'
  <2>1. MAX_ITEMS_IN_BATCH \in Nat /\ ~(0 > MAX_ITEMS_IN_BATCH)
    BY Numbers
  <2> QED
    BY <1>3, <2>1 DEF OffsetsKnown, Indices
<1>5. cnt' = n - (fieldIndex' - 3) /\ fieldIndex' \in 3..n + 2 /\ fieldIndex' - 3 = 0
  BY <1>2, <1>3
<1> QED
  BY <1>3, <1>4, <1>5 DEF Follows, InHeader, InItem, AfterItems, AtItem, n

\* The only item: where its offset says.
LEMMA OnlyItemOffsetFollows ==
  ASSUME NEW t \in Decodable, IInv, Follows(t), ReadOnlyItemOffset(Words[t][fieldIndex + 1])
  PROVE  Follows(t)'
<1> DEFINE n == Len(Items(t))
<1>1. n = 1 /\ fieldIndex = 3 /\ cnt = 1 /\ OffsetsKnown(t, 0)
  <2>1. /\ batch_dispatch_number_of_items = 1 /\ batch_dispatch_number_of_items = n
        /\ fieldIndex \in 3..n + 2 /\ cnt = n - (fieldIndex - 3)
        /\ OffsetsKnown(t, fieldIndex - 3)
    BY DEF ReadOnlyItemOffset, AtWord, Follows, InHeader
  <2> HIDE DEF n
  <2>2. n = 1 /\ fieldIndex = 3
    BY <2>1
  <2>3. cnt = 1 /\ fieldIndex - 3 = 0
    BY <2>1, <2>2
  <2> QED
    BY <2>1, <2>2, <2>3
<1>2. /\ MAX_ITEMS_IN_BATCH >= 1 /\ MAX_ITEMS_IN_BATCH \in Nat /\ HeadOf(t, 1) = 4
      /\ ItemStart(Items(t), 1) = 1
  <2>1. HeadOf(t, 1) = 3 + n /\ Items(t) \in Seq(BatchItem)
    BY HeadPlaces
  <2>2. BodyStart(Items(t), 1) = 0
    BY <2>1, BodyStartFirst
  <2>3. ItemStart(Items(t), 1) = n + 0
    BY <2>2 DEF ItemStart
  <2> HIDE DEF n
  <2> QED
    BY <1>1, <2>1, <2>3, Numbers
<1>3. NumberIn(Words[t][fieldIndex + 1]) = PARAMETER_LENGTH * 1
  <2>1. 1 \in 1..n /\ 3 + 1 = fieldIndex + 1
    BY <1>1
  <2>2. NumberIn(Words[t][3 + 1]) = PARAMETER_LENGTH * ItemStart(Items(t), 1)
    BY <1>2, <2>1, WordsOfBatch
  <2> QED
    BY <1>2, <2>1, <2>2
<1> HIDE DEF n
<1>4. /\ offset' = PARAMETER_LENGTH * 5 /\ go_to_offset' = TRUE /\ fieldIndex' = 4
      /\ next_param' = "BATCH_DISPATCH_ITEM_PROXY"
  BY <1>1, <1>3
     DEF ReadOnlyItemOffset, AtWord, BatchWord, Provided, GoTo, parameterOffset,
         SELECTOR_SIZE, PARAMETER_LENGTH, BATCH_ITEM_PROXY_OFFSET, UINT16
<1>5. /\ UNCHANGED <<selectorIndex, base_items_offset, items_offsets, cnt, is_max_exceeded,
                     batch_dispatch_number_of_items>>
      /\ batch_dispatch_number_of_items = 1
  BY DEF ReadOnlyItemOffset, AtWord, BatchWord, Provided, batchVars
<1>6. CurrentIndex' = 0
  BY <1>1, <1>5 DEF CurrentIndex, UINT8
<1>7. HeaderKnown(t)'
  <2>1. ~is_max_exceeded /\ ~(n > MAX_ITEMS_IN_BATCH)
    BY <1>1, <1>2 DEF OffsetsKnown
  <2> QED
    BY <1>1, <1>5, <2>1 DEF HeaderKnown, n
<1>8. TypesKnown(t, 0)'
  BY DEF TypesKnown, Indices
<1>9. 4 <= HeadOf(t, 0 + 1) + 1 /\ HeadOf(t, 0 + 1) + 1 = 5
  BY <1>2
<1> QED
  BY <1>4, <1>5, <1>6, <1>7, <1>8, <1>9 DEF Follows, InHeader, InItem, AfterItems, Seeks

\* The offset of one of several items.
LEMMA OffsetRemembered ==
  ASSUME NEW t \in Decodable, IInv, Follows(t), AtWord("BATCH_DISPATCH_ITEMS_OFFSETS"),
         RememberOffset(Words[t][fieldIndex + 1]), NEW k \in Int, k = fieldIndex - 3
  PROVE  LET n == Len(Items(t))
         IN  /\ n \in 2..255 /\ k \in 0..n - 1 /\ cnt = n - k /\ fieldIndex = 3 + k
             /\ batch_dispatch_number_of_items = n /\ CurrentIndex = k
             /\ OffsetsKnown(t, k + 1)'
<1> DEFINE n == Len(Items(t))
<1>1. /\ batch_dispatch_number_of_items = n /\ fieldIndex \in 3..n + 2
      /\ cnt = n - k /\ OffsetsKnown(t, k) /\ n \in 1..255
  BY HeadPlaces DEF AtWord, Follows, InHeader
<1> HIDE DEF n
<1>2. n \in 2..255 /\ k \in 0..n - 1 /\ fieldIndex = 3 + k
  BY <1>1 DEF RememberOffset
<1>3. CurrentIndex = k
  <2> (n - cnt) % 256 = k
    BY <1>1, <1>2
  <2> QED
    BY <1>1 DEF CurrentIndex, UINT8
<1>4. k < MAX_ITEMS_IN_BATCH =>
        NumberIn(Words[t][fieldIndex + 1]) = PARAMETER_LENGTH * ItemStart(Items(t), k + 1)
  <2> SUFFICES ASSUME k < MAX_ITEMS_IN_BATCH
               PROVE  NumberIn(Words[t][fieldIndex + 1])
                        = PARAMETER_LENGTH * ItemStart(Items(t), k + 1)
    OBVIOUS
  <2>1. k + 1 \in 1..n /\ k + 1 <= MAX_ITEMS_IN_BATCH /\ fieldIndex + 1 = 3 + (k + 1)
    BY <1>2, Numbers
  <2>2. NumberIn(Words[t][3 + (k + 1)]) = PARAMETER_LENGTH * ItemStart(Items(t), k + 1)
    BY <2>1, WordsOfBatch DEF n
  <2> QED
    BY <2>1, <2>2
<1>5. base_items_offset' = SELECTOR_SIZE + PARAMETER_LENGTH * 3
  <2>1. CASE k = 0
    <3> parameterOffset = 100 /\ cnt = batch_dispatch_number_of_items
      BY <1>1, <1>2, <2>1 DEF parameterOffset, SELECTOR_SIZE, PARAMETER_LENGTH
    <3> QED
      BY DEF RememberOffset, SELECTOR_SIZE, PARAMETER_LENGTH, UINT16
  <2>2. CASE k # 0
    <3> cnt # batch_dispatch_number_of_items /\ k > 0
      BY <1>1, <1>2, <2>2
    <3> QED
      BY <1>1 DEF RememberOffset, OffsetsKnown
  <2> QED
    BY <2>1, <2>2
<1>6. is_max_exceeded' <=> k + 1 > MAX_ITEMS_IN_BATCH
  <2>1. is_max_exceeded <=> k > MAX_ITEMS_IN_BATCH
    BY <1>1 DEF OffsetsKnown
  <2>2. MAX_ITEMS_IN_BATCH \in Nat /\ k \in Nat
    BY <1>2, Numbers
  <2>3. IF k < MAX_ITEMS_IN_BATCH THEN is_max_exceeded' = is_max_exceeded
                                  ELSE is_max_exceeded' = TRUE
    BY <1>3 DEF RememberOffset
  <2> QED
    BY <2>1, <2>2, <2>3
<1>7. ASSUME NEW i \in Indices, i < k + 1
      PROVE  items_offsets'[i] = PARAMETER_LENGTH * ItemStart(Items(t), i + 1)
  <2>1. items_offsets \in [Indices -> 0..UINT16 - 1]
    BY DEF IInv, TypeOK
  <2>2. MAX_ITEMS_IN_BATCH \in Nat /\ i \in Nat /\ i < MAX_ITEMS_IN_BATCH /\ k \in Nat
    BY <1>2, Numbers DEF Indices
  <2>3. items_offsets' = IF k < MAX_ITEMS_IN_BATCH
                         THEN [items_offsets EXCEPT ![k] = NumberIn(Words[t][fieldIndex + 1])]
                         ELSE items_offsets
    BY <1>3 DEF RememberOffset
  <2>4. CASE i = k
    BY <1>4, <2>1, <2>2, <2>3, <2>4
  <2>5. CASE i # k
    <3>1. items_offsets'[i] = items_offsets[i] /\ i < k
      BY <1>7, <2>1, <2>2, <2>3, <2>5
    <3> QED
      BY <1>1, <3>1 DEF OffsetsKnown
  <2> QED
    BY <2>4, <2>5
<1>8. OffsetsKnown(t, k + 1)'
  BY <1>5, <1>6, <1>7 DEF OffsetsKnown
<1> QED
  BY <1>1, <1>2, <1>3, <1>8 DEF n

\* ... and every further offset, the last of which leads to the first item.
LEMMA ItemOffsetFollows ==
  ASSUME NEW t \in Decodable, IInv, Follows(t), ReadItemOffset(Words[t][fieldIndex + 1])
  PROVE  Follows(t)'
<1> DEFINE n == Len(Items(t))
<1>1. PICK k \in Int : k = fieldIndex - 3
  BY Numbers
<1>2. /\ n \in 2..255 /\ k \in 0..n - 1 /\ cnt = n - k /\ fieldIndex = 3 + k
      /\ batch_dispatch_number_of_items = n /\ OffsetsKnown(t, k + 1)'
  BY <1>1, OffsetRemembered DEF ReadItemOffset
<1>3. /\ cnt' = cntLess /\ cntLess # 0 /\ go_to_offset' = FALSE
      /\ fieldIndex' = fieldIndex + 1 /\ next_param' = "BATCH_DISPATCH_ITEMS_OFFSETS"
      /\ UNCHANGED <<selectorIndex, batch_dispatch_number_of_items>>
  BY DEF ReadItemOffset, AtWord, BatchWord, Provided, Continue
<1> HIDE DEF n
<1>4. cntLess = n - (k + 1)
  BY <1>2 DEF cntLess, UINT8
<1>5. /\ fieldIndex' - 3 = k + 1 /\ fieldIndex' \in 3..n + 2
      /\ cnt' = n - (fieldIndex' - 3)
  BY <1>2, <1>3, <1>4
<1>6. OffsetsKnown(t, fieldIndex - 3)'
  BY <1>2, <1>5 DEF OffsetsKnown
<1> QED
  BY <1>2, <1>3, <1>5, <1>6 DEF Follows, InHeader, InItem, AfterItems, AtItem, n

\* The first of several items is the one that follows the last offset.
LEMMA LastItemOffsetFollows ==
  ASSUME NEW t \in Decodable, IInv, Follows(t), ReadLastItemOffset(Words[t][fieldIndex + 1])
  PROVE  Follows(t)'
<1> DEFINE n == Len(Items(t))
<1>1. PICK k \in Int : k = fieldIndex - 3
  BY Numbers
<1>2. /\ n \in 2..255 /\ k \in 0..n - 1 /\ cnt = n - k /\ fieldIndex = 3 + k
      /\ batch_dispatch_number_of_items = n /\ OffsetsKnown(t, k + 1)'
  BY <1>1, OffsetRemembered DEF ReadLastItemOffset
<1>3. /\ cntLess = 0 /\ cnt' = batch_dispatch_number_of_items
      /\ fieldIndex' = fieldIndex + 1 /\ next_param' = "BATCH_DISPATCH_ITEM_PROXY"
      /\ UNCHANGED <<selectorIndex, batch_dispatch_number_of_items>>
  BY DEF ReadLastItemOffset, AtWord, BatchWord, Provided, GoTo
<1>4. HeadOf(t, 1) = 3 + n
  BY HeadPlaces
<1> HIDE DEF n
<1>5. k + 1 = n
  BY <1>2, <1>3 DEF cntLess, UINT8
<1>6. fieldIndex' = n + 3 /\ fieldIndex = n + 2
  BY <1>2, <1>3, <1>5
<1>7. offset' = PARAMETER_LENGTH * (n + 4) /\ go_to_offset' = TRUE
  BY <1>2, <1>6
     DEF ReadLastItemOffset, GoTo, parameterOffset, SELECTOR_SIZE, PARAMETER_LENGTH,
         BATCH_ITEM_PROXY_OFFSET, UINT16
<1>8. CurrentIndex' = 0
  BY <1>2, <1>3 DEF CurrentIndex, UINT8
<1>9. HeaderKnown(t)'
  <2> OffsetsKnown(t, n)' /\ batch_dispatch_number_of_items' = n
    BY <1>2, <1>3, <1>5
  <2> QED
    BY DEF HeaderKnown, OffsetsKnown, n
<1>10. TypesKnown(t, 0)'
  BY DEF TypesKnown, Indices
<1>11. n + 3 <= HeadOf(t, 0 + 1) + 1 /\ HeadOf(t, 0 + 1) + 1 = n + 4
  BY <1>2, <1>4
<1> QED
  BY <1>3, <1>6, <1>7, <1>8, <1>9, <1>10, <1>11
     DEF Follows, InHeader, InItem, AfterItems, Seeks

\* The proxy of an item, from which the parser goes on to the item's length.
LEMMA ItemProxyFollows ==
  ASSUME NEW t \in Decodable, IInv, Follows(t), ReadItemProxy(Words[t][fieldIndex + 1])
  PROVE  Follows(t)'
<1> DEFINE head == HeadOf(t, CurrentIndex + 1)
<1>1. AtItem /\ next_param = "BATCH_DISPATCH_ITEM_PROXY"
  BY DEF ReadItemProxy, AtWord, AtItem
<1>2. head \in Nat /\ PARAMETER_LENGTH * (head + 3) < UINT16
  BY <1>1, ItemHere
<1> HIDE DEF head
<1>3. Seeks(head + 1) /\ HeaderKnown(t) /\ TypesKnown(t, CurrentIndex)
  BY <1>1 DEF Follows, InItem, head
<1>4. fieldIndex = head + 1
  BY <1>2, <1>3, WordSought DEF ReadItemProxy
<1>5. /\ offset' = PARAMETER_LENGTH * (head + 3) /\ go_to_offset' = TRUE
      /\ fieldIndex' = head + 2 /\ next_param' = "BATCH_DISPATCH_ITEM_LENGTH"
  BY <1>2, <1>4
     DEF ReadItemProxy, AtWord, BatchWord, Provided, GoTo, parameterOffset, SELECTOR_SIZE,
         PARAMETER_LENGTH, BATCH_ITEM_LENGTH_OFFSET, UINT16
<1>6. UNCHANGED <<selectorIndex, base_items_offset, items_offsets, cnt, item_types,
                  batch_dispatch_number_of_items, is_max_exceeded>>
  BY DEF ReadItemProxy, AtWord, BatchWord, Provided, batchVars
<1>7. CurrentIndex' = CurrentIndex
  BY <1>6 DEF CurrentIndex
<1>8. HeaderKnown(t)' /\ TypesKnown(t, CurrentIndex)'
  BY <1>3, <1>6, <1>7, KnownKept DEF TypesKnown
<1>9. Seeks(head + 3)'
  <2> head' = head
    BY <1>7 DEF head
  <2> QED
    BY <1>2, <1>5 DEF Seeks
<1> QED
  BY <1>5, <1>6, <1>7, <1>8, <1>9 DEF Follows, InHeader, InItem, AfterItems, head

\* The length of an item, to which a fixed number is added for a swap
\* (handle_provide_parameter.c:391-397).
LEMMA ItemLengthFollows ==
  ASSUME NEW t \in Decodable, IInv, Follows(t), ReadItemLength(Words[t][fieldIndex + 1])
  PROVE  Follows(t)'
<1> DEFINE n == Len(Items(t))
           i == CurrentIndex + 1
           head == HeadOf(t, i)
<1>1. AtItem /\ next_param = "BATCH_DISPATCH_ITEM_LENGTH"
  BY DEF ReadItemLength, AtWord, AtItem
<1>2. i \in 1..n /\ i <= MAX_ITEMS_IN_BATCH /\ head \in Nat
  BY <1>1, ItemHere
<1>3. NumberIn(Words[t][head + 4]) = ItemDataLength(Items(t)[i]) % UINT16
  BY <1>2, WordsOfBatch
<1> HIDE DEF head
<1>4. Seeks(head + 3) /\ HeaderKnown(t) /\ TypesKnown(t, CurrentIndex)
  BY <1>1 DEF Follows, InItem, head
<1>5. fieldIndex = head + 3 /\ fieldIndex + 1 = head + 4
  BY <1>2, <1>4, WordSought DEF ReadItemLength
<1>6. /\ go_to_offset' = FALSE /\ fieldIndex' = head + 4
      /\ next_param' = "BATCH_DISPATCH_ITEM"
      /\ item_length' = ItemDataLength(Items(t)[i]) % UINT16
  BY <1>3, <1>5 DEF ReadItemLength, AtWord, BatchWord, Provided, Continue
<1>7. UNCHANGED <<selectorIndex, base_items_offset, items_offsets, cnt, item_types,
                  batch_dispatch_number_of_items, is_max_exceeded, item_handler>>
  BY DEF ReadItemLength, AtWord, BatchWord, Provided, batchVars
<1>8. item_handler = NULL
  BY <1>1 DEF IInv, ParserInv, HandlerMatchesItem
<1>9. CurrentIndex' = CurrentIndex
  BY <1>7 DEF CurrentIndex
<1>10. HeaderKnown(t)' /\ TypesKnown(t, CurrentIndex)'
  BY <1>4, <1>7, <1>9, KnownKept DEF TypesKnown
<1> QED
  BY <1>6, <1>7, <1>8, <1>9, <1>10 DEF Follows, InHeader, InItem, AfterItems, head

\* Once it is done, the parser ignores every word.
LEMMA IgnoreFollows ==
  ASSUME NEW t \in Decodable, IInv, Follows(t), IgnoreWord
  PROVE  Follows(t)'
<1>1. /\ next_param = "UNEXPECTED_PARAMETER" /\ next_param' = next_param
      /\ go_to_offset' = FALSE
      /\ UNCHANGED <<selectorIndex, base_items_offset, items_offsets, item_types,
                     batch_dispatch_number_of_items, is_max_exceeded>>
  BY DEF IgnoreWord, AtWord, BatchWord, Provided, Continue, batchVars
<1>2. HeaderKnown(t)' /\ TypesKnown(t, Len(Items(t)))'
  BY <1>1, KnownKept, TypesKept DEF Follows, AfterItems
<1> QED
  BY <1>1, <1>2 DEF Follows, InHeader, InItem, AtItem, AfterItems

-----------------------------------------------------------------------------
(***************************************************************************)
(* The data of an item.                                                    *)
(***************************************************************************)

\* An item's handler is called at its first data word, or was called before.
LEMMA AtData ==
  ASSUME NEW t \in Decodable, IInv, Follows(t), AtWord("BATCH_DISPATCH_ITEM")
  PROVE  /\ AtItem /\ next_param = "BATCH_DISPATCH_ITEM"
         /\ HeaderKnown(t) /\ TypesKnown(t, CurrentIndex)
         /\ item_handler = NULL =>
              /\ item_selector = 0
              /\ fieldIndex = HeadOf(t, CurrentIndex + 1) + 4
              /\ Words[t][fieldIndex + 1][1] = ItemSelectorOf(Items(t)[CurrentIndex + 1])
              /\ item_length = ItemDataLength(Items(t)[CurrentIndex + 1]) % UINT16
         /\ item_handler # NULL =>
              /\ item_selector # 0 /\ SelectorOf[item_handler] = item_selector
              /\ Len(Items(t)) = 1 /\ cnt = 1 /\ CurrentIndex = 0
              /\ item_handler \in HandledTypes /\ item_handler = Items(t)[1].type
              /\ pre_handle(item_length)
              /\ SwapIsComplete(t) =>
                   PARAMETER_LENGTH * fieldIndex + item_length
                     <= PARAMETER_LENGTH * DeferredStart(t)
<1>1. AtItem /\ next_param = "BATCH_DISPATCH_ITEM"
  BY DEF AtWord, AtItem
<1>2. HeaderKnown(t) /\ TypesKnown(t, CurrentIndex)
  BY <1>1 DEF Follows, InItem
<1> DEFINE n == Len(Items(t))
           i == CurrentIndex + 1
<1>3. /\ batch_dispatch_number_of_items = n /\ i \in 1..n /\ i <= MAX_ITEMS_IN_BATCH
      /\ HeadOf(t, i) \in Nat /\ CurrentIndex = n - cnt
  BY <1>1, ItemHere
<1>4. ASSUME item_handler = NULL
      PROVE  /\ item_selector = 0
             /\ fieldIndex = HeadOf(t, i) + 4
             /\ Words[t][fieldIndex + 1][1] = ItemSelectorOf(Items(t)[i])
             /\ item_length = ItemDataLength(Items(t)[i]) % UINT16
  <2>1. item_selector = 0
    BY <1>4 DEF IInv, ParserInv, HandlerMatchesItem
  <2>2. /\ fieldIndex = HeadOf(t, i) + 4
        /\ item_length = ItemDataLength(Items(t)[i]) % UINT16
    BY <1>1, <1>4 DEF Follows, InItem
  <2>3. Words[t][HeadOf(t, i) + 5][1] = ItemSelectorOf(Items(t)[i])
    BY <1>3, WordsOfBatch
  <2>4. fieldIndex + 1 = HeadOf(t, i) + 5
    BY <1>3, <2>2
  <2> QED
    BY <2>1, <2>2, <2>3, <2>4
<1>5. ASSUME item_handler # NULL
      PROVE  /\ item_selector # 0 /\ SelectorOf[item_handler] = item_selector
             /\ n = 1 /\ cnt = 1 /\ CurrentIndex = 0
             /\ item_handler \in HandledTypes /\ item_handler = Items(t)[1].type
             /\ pre_handle(item_length)
             /\ SwapIsComplete(t) =>
                  PARAMETER_LENGTH * fieldIndex + item_length
                    <= PARAMETER_LENGTH * DeferredStart(t)
  <2>1. /\ item_selector # 0 /\ SelectorOf[item_handler] = item_selector
        /\ batch_dispatch_number_of_items = 1 /\ cnt = 1 /\ item_types[0] = item_handler
        /\ pre_handle(item_length)
    BY <1>5 DEF IInv, ParserInv, HandlerMatchesItem
  <2>2. item_handler \in HandledTypes
    BY <1>5 DEF IInv, TypeOK
  <2>3. /\ TypesKnown(t, 1)
        /\ SwapIsComplete(t) =>
             PARAMETER_LENGTH * fieldIndex + item_length
               <= PARAMETER_LENGTH * DeferredStart(t)
    BY <1>1, <1>5 DEF Follows, InItem
  <2>4. 0 \in Indices
    <3> MAX_ITEMS_IN_BATCH \in Nat /\ MAX_ITEMS_IN_BATCH >= 1
      BY Numbers
    <3> QED
      BY DEF Indices
  <2>5. item_types[0] = Items(t)[1].type
    <3> item_types[0] = Items(t)[0 + 1].type
      BY <2>3, <2>4 DEF TypesKnown
    <3> QED
      OBVIOUS
  <2>6. n = 1 /\ CurrentIndex = 0
    <3> HIDE DEF n
    <3> QED
      BY <1>3, <2>1
  <2> QED
    BY <2>1, <2>2, <2>3, <2>5, <2>6
<1> QED
  BY <1>1, <1>2, <1>4, <1>5

\* The type the parser gives to the item it is at.
LEMMA ItemTyped ==
  ASSUME NEW t \in Decodable, IInv, Follows(t), AtWord("BATCH_DISPATCH_ITEM")
  PROVE  ItemTypeOf(ItemSelector(Words[t][fieldIndex + 1])) = Items(t)[CurrentIndex + 1].type
<1> DEFINE param == Words[t][fieldIndex + 1]
           item  == Items(t)[CurrentIndex + 1]
<1>1. item \in BatchItem
  <2>1. AtItem
    BY AtData
  <2>2. CurrentIndex + 1 \in 1..Len(Items(t)) /\ Items(t) \in Seq(BatchItem)
    BY <2>1, ItemHere, HeadPlaces
  <2> QED
    BY <2>2
<1>2. CASE item_handler = NULL
  <2>1. ItemSelector(param) = ItemSelectorOf(item)
    BY <1>2, AtData DEF ItemSelector
  <2> QED
    BY <1>1, <2>1, TypeRead
<1>3. CASE item_handler # NULL
  <2>1. /\ SelectorOf[item_handler] = item_selector /\ item_selector # 0
        /\ item_handler = Items(t)[1].type /\ CurrentIndex = 0
        /\ item_handler \in HandledTypes
    BY <1>3, AtData
  <2>2. ItemSelector(param) = SelectorOf[item_handler] /\ item.type = item_handler
    BY <2>1 DEF ItemSelector
  <2>3. item_handler # "UNEXPECTED_ITEM"
    BY <2>1 DEF HandledTypes, MarketTypes, PermitTypes, AmountTypes
  <2>4. ItemSelectorOf(item) = SelectorOf[item_handler]
    BY <2>2, <2>3 DEF ItemSelectorOf
  <2> QED
    BY <1>1, <2>2, <2>4, TypeRead
<1> QED
  BY <1>2, <1>3

\* The selector of an item writes the type of that item into the table.
LEMMA TypeItemFollows ==
  ASSUME NEW t \in Decodable, IInv, Follows(t), AtWord("BATCH_DISPATCH_ITEM"),
         TypeItem(Words[t][fieldIndex + 1]), NEW k \in Nat, k = CurrentIndex
  PROVE  TypesKnown(t, k + 1)'
<1>1. TypesKnown(t, k) /\ k \in Indices
  BY AtData, ItemHere
<1>2. item_types' = [item_types EXCEPT ![k] = Items(t)[k + 1].type]
  BY ItemTyped DEF TypeItem
<1>3. item_types \in [Indices -> selector_t] /\ MAX_ITEMS_IN_BATCH \in Nat
  BY Numbers DEF IInv, TypeOK
<1>4. ASSUME NEW i \in Indices, i < k + 1
      PROVE  item_types'[i] = Items(t)[i + 1].type
  <2>1. i \in Nat
    BY <1>3 DEF Indices
  <2>2. CASE i = k
    BY <1>2, <1>3, <2>2
  <2>3. CASE i # k
    <3>1. i < k
      BY <1>4, <2>1, <2>3
    <3> QED
      BY <1>1, <1>2, <1>3, <2>3, <3>1 DEF TypesKnown
  <2> QED
    BY <2>2, <2>3
<1> QED
  BY <1>4 DEF TypesKnown

\* A handler that goes on has taken one word of the length it was given.
LEMMA HandlerGoesOn ==
  ASSUME NEW t \in Decodable, IInv, Follows(t), AtWord("BATCH_DISPATCH_ITEM"),
         NEW param, param = Words[t][fieldIndex + 1], ~handle_item(param).done
  PROVE  /\ Len(Items(t)) = 1 /\ cnt = 1 /\ CurrentIndex = 0
         /\ ItemHandler(param) = Items(t)[1].type /\ ItemHandler(param) # NULL
         /\ item_length > SELECTOR_SIZE
         /\ handle_item(param).length = ItemLength(param) - PARAMETER_LENGTH
<1>1. ReadsArguments(param)
  BY DEF handle_item
<1>2. AtItem
  BY AtData
<1>3. batch_dispatch_number_of_items = 1
  BY <1>1 DEF ReadsArguments
<1>4. Len(Items(t)) = 1 /\ cnt = 1 /\ CurrentIndex = 0
  <2>1. batch_dispatch_number_of_items = Len(Items(t))
    BY <1>2, ItemHere
  <2>2. cnt \in 1..1 /\ CurrentIndex = 1 - cnt
    BY <1>2, <1>3, <2>1, ItemHere
  <2> QED
    BY <1>3, <2>1, <2>2
<1>5. ItemTypeOf(ItemSelector(param)) = Items(t)[1].type
  BY <1>4, ItemTyped
<1>6. ItemHandler(param) = Items(t)[1].type /\ ItemHandler(param) # NULL
  BY <1>1, <1>5 DEF ReadsArguments, ItemHandler
<1>7. item_length > SELECTOR_SIZE
  BY <1>1 DEF ReadsArguments
<1>8. handle_item(param).length = ItemLength(param) - PARAMETER_LENGTH
  <2> DEFINE call == CallHandler(ItemHandler(param), fields, ItemLength(param), param)
  <2>1. handle_item(param) = call
    BY <1>1 DEF handle_item
  <2>2. ~HandlerGivesUp(ItemHandler(param), fields, ItemLength(param))
    BY <2>1 DEF CallHandler
  <2>3. call.length = post_handle(ItemLength(param)).length
    BY <2>2 DEF CallHandler
  <2> QED
    BY <2>1, <2>3 DEF post_handle
<1> QED
  BY <1>4, <1>6, <1>7, <1>8

\* Wrapping never makes a number greater.
LEMMA WrapBelow ==
  \A x \in Nat : x % 65536 <= x
OBVIOUS

\* The length the handler of the only item starts from: the words of its data, with
\* the selector rounded up to one, or what is hardcoded for the swaps.
LEMMA ItemLengthBound ==
  ASSUME IInv, NEW param, NEW args \in Nat, item_length <= 4 + 32 * args,
         ItemHandler(param) = "SWAP" => args >= 12,
         ItemHandler(param) = "SWAP_AND_REPAY" => args >= 13
  PROVE  ItemLength(param) \in Nat /\ ItemLength(param) <= 32 * args + 32
<1>1. item_length \in Nat
  BY Numbers
<1>2. CASE ~(item_length >= PARAMETER_LENGTH /\ item_length % PARAMETER_LENGTH = SELECTOR_SIZE)
  <2>1. ItemLength(param) = item_length
    BY <1>2 DEF ItemLength
  <2> QED
    BY <1>1, <2>1
<1>3. CASE item_length >= PARAMETER_LENGTH /\ item_length % PARAMETER_LENGTH = SELECTOR_SIZE
  <2>1. CASE ItemHandler(param) = "SWAP"
    <3>1. ItemLength(param) = 416
      BY <1>3, <2>1 DEF ItemLength, SWAP_ITEM_LENGTH_WITHOUT_PAYLOAD_ALIGNED
    <3> QED
      BY <2>1, <3>1
  <2>2. CASE ItemHandler(param) = "SWAP_AND_REPAY"
    <3>1. ItemLength(param) = 448
      BY <1>3, <2>2 DEF ItemLength, SWAP_AND_REPAY_ITEM_LENGTH_WITHOUT_PAYLOAD_ALIGNED
    <3> QED
      BY <2>2, <3>1
  <2>3. CASE ItemHandler(param) \notin {"SWAP", "SWAP_AND_REPAY"}
    <3>1. ItemLength(param) = (item_length - SELECTOR_SIZE + PARAMETER_LENGTH) % UINT16
      BY <1>3, <2>3 DEF ItemLength
    <3>2. item_length - SELECTOR_SIZE + PARAMETER_LENGTH = item_length + 28
      BY <1>1 DEF SELECTOR_SIZE, PARAMETER_LENGTH
    <3> DEFINE y == item_length + 28
    <3>3. y \in Nat /\ y <= 32 * args + 32
      BY <1>1
    <3>4. ItemLength(param) = y % 65536
      BY <3>1, <3>2 DEF UINT16
    <3> HIDE DEF y
    <3>5. y % 65536 \in Nat
      BY <3>3
    <3>6. y % 65536 <= y
      BY <3>3
    <3>7. ItemLength(param) \in Nat
      BY <3>4, <3>5
    <3>8. y % 65536 <= 32 * args + 32
      BY <3>3, <3>5, <3>6
    <3> QED
      BY <3>4, <3>7, <3>8
  <2> QED
    BY <2>1, <2>2, <2>3
<1> QED
  BY <1>2, <1>3

\* The length a handler is left with never reaches beyond the item: also the
\* hardcoded one of a swap, if the swap has its arguments.
LEMMA HandlerStaysInItem ==
  ASSUME NEW t \in Decodable, IInv, Follows(t), AtWord("BATCH_DISPATCH_ITEM"),
         NEW param, param = Words[t][fieldIndex + 1], ~handle_item(param).done,
         SwapIsComplete(t)
  PROVE  PARAMETER_LENGTH * (fieldIndex + 1) + handle_item(param).length
           <= PARAMETER_LENGTH * DeferredStart(t)
<1> DEFINE args == ArgumentCount(Items(t)[1])
<1>1. /\ Len(Items(t)) = 1 /\ CurrentIndex = 0 /\ ItemHandler(param) = Items(t)[1].type
      /\ item_length > SELECTOR_SIZE
      /\ handle_item(param).length = ItemLength(param) - PARAMETER_LENGTH
  BY HandlerGoesOn
<1>2. fieldIndex \in Nat /\ item_length \in 0..UINT16 - 1
  BY Numbers DEF IInv, TypeOK
<1>3. DeferredStart(t) \in Nat
  BY WordsOfBatch
<1>4. CASE item_handler = NULL
  <2>1. fieldIndex = HeadOf(t, 1) + 4 /\ item_length = ItemDataLength(Items(t)[1]) % UINT16
    <3> 0 + 1 = 1
      OBVIOUS
    <3> QED
      BY <1>1, <1>4, AtData
  <2>2. DeferredStart(t) = HeadOf(t, 1) + 5 + args /\ HeadOf(t, 1) \in Nat
    <3>1. 1 \in 1..Len(Items(t))
      BY <1>1
    <3> QED
      BY <1>1, <3>1, WordsOfBatch, HeadPlaces
  <2>3. args \in Nat
    <3>1. Items(t) \in Seq(BatchItem)
      BY HeadPlaces
    <3>2. 1 \in 1..Len(Items(t))
      BY <1>1
    <3>3. Items(t)[1] \in BatchItem
      BY <3>1, <3>2
    <3> QED
      BY <3>3, ItemSizeType
  <2>4. /\ ItemHandler(param) = "SWAP" => args >= 12
        /\ ItemHandler(param) = "SWAP_AND_REPAY" => args >= 13
    BY <1>1 DEF SwapIsComplete
  <2> HIDE DEF args
  <2>5. item_length <= 4 + 32 * args
    <3>1. ItemDataLength(Items(t)[1]) = 4 + 32 * args
      BY DEF ItemDataLength, SELECTOR_SIZE, PARAMETER_LENGTH, args
    <3>2. item_length = (4 + 32 * args) % 65536
      BY <2>1, <3>1 DEF UINT16
    <3> DEFINE x == 4 + 32 * args
    <3>3. x \in Nat
      BY <2>3
    <3>4. item_length = x % 65536
      BY <3>2
    <3> HIDE DEF x
    <3>5. x % 65536 <= x
      BY <3>3, WrapBelow
    <3>6. item_length <= x
      BY <3>4, <3>5
    <3> QED
      BY <3>6 DEF x
  <2>6. ItemLength(param) \in Nat /\ ItemLength(param) <= 32 * args + 32
    BY <2>3, <2>4, <2>5, ItemLengthBound
  <2>7. PARAMETER_LENGTH * DeferredStart(t) = 32 * HeadOf(t, 1) + 160 + 32 * args
    BY <2>2, <2>3 DEF PARAMETER_LENGTH
  <2>8. PARAMETER_LENGTH * (fieldIndex + 1) = 32 * HeadOf(t, 1) + 160
    BY <2>1, <2>2 DEF PARAMETER_LENGTH
  <2>9. handle_item(param).length = ItemLength(param) - 32
    BY <1>1 DEF PARAMETER_LENGTH
  <2>10. 32 * HeadOf(t, 1) \in Int /\ 32 * args \in Int
    BY <2>2, <2>3
  <2> QED
    BY <2>6, <2>7, <2>8, <2>9, <2>10
<1>5. CASE item_handler # NULL
  <2>1. /\ pre_handle(item_length)
        /\ PARAMETER_LENGTH * fieldIndex + item_length <= PARAMETER_LENGTH * DeferredStart(t)
    BY <1>5, AtData
  <2>2. ItemLength(param) = item_length
    BY <2>1 DEF ItemLength, pre_handle, PARAMETER_LENGTH, SELECTOR_SIZE
  <2>3. handle_item(param).length = item_length - 32
    BY <1>1, <2>2 DEF PARAMETER_LENGTH
  <2>9. item_length \in Nat
    BY Numbers
  <2>4. PARAMETER_LENGTH * (fieldIndex + 1) = 32 * fieldIndex + 32
    BY <1>2 DEF PARAMETER_LENGTH
  <2>5. 32 * fieldIndex + item_length <= 32 * DeferredStart(t)
    BY <2>1 DEF PARAMETER_LENGTH
  <2>6. PARAMETER_LENGTH * DeferredStart(t) = 32 * DeferredStart(t)
    BY DEF PARAMETER_LENGTH
  <2> QED
    BY <1>2, <1>3, <2>3, <2>4, <2>5, <2>6, <2>9
<1> QED
  BY <1>4, <1>5

\* The selector of the only item, which sets the handler of its arguments.
LEMMA ItemFollows ==
  ASSUME NEW t \in Decodable, IInv, Follows(t), ReadItem(Words[t][fieldIndex + 1])
  PROVE  Follows(t)'
<1> DEFINE param == Words[t][fieldIndex + 1]
<1>1. AtWord("BATCH_DISPATCH_ITEM") /\ ~handle_item(param).done /\ TypeItem(param)
  BY DEF ReadItem
<1>2. /\ CurrentIndex = 0 /\ ItemHandler(param) # NULL
      /\ HeaderKnown(t) /\ TypesKnown(t, CurrentIndex)
  BY <1>1, HandlerGoesOn, AtData
<1>3. /\ go_to_offset' = FALSE /\ fieldIndex' = fieldIndex + 1
      /\ next_param' = "BATCH_DISPATCH_ITEM"
      /\ item_handler' = ItemHandler(param) /\ item_length' = handle_item(param).length
      /\ UNCHANGED <<selectorIndex, base_items_offset, items_offsets,
                     batch_dispatch_number_of_items, cnt, is_max_exceeded>>
  BY DEF ReadItem, AtWord, BatchWord, Provided, Continue
<1>4. SwapIsComplete(t) =>
        PARAMETER_LENGTH * fieldIndex' + item_length' <= PARAMETER_LENGTH * DeferredStart(t)
  BY <1>1, <1>3, HandlerStaysInItem
<1>5. CurrentIndex' = 0
  BY <1>2, <1>3 DEF CurrentIndex
<1>6. TypesKnown(t, 1)'
  <2> TypesKnown(t, 0 + 1)'
    BY <1>1, <1>2, TypeItemFollows
  <2> QED
    BY DEF TypesKnown
<1>7. TypesKnown(t, 0)'
  BY DEF TypesKnown, Indices
<1>8. HeaderKnown(t)'
  BY <1>2, <1>3, KnownKept
<1> HIDE DEF param
<1> QED
  BY <1>2, <1>3, <1>4, <1>5, <1>6, <1>7, <1>8 DEF Follows, InHeader, InItem, AfterItems

\* The item after item k, where its offset says.
LEMMA NextItem ==
  ASSUME NEW t \in Decodable, IInv, HeaderKnown(t), NEW k \in Nat,
         k + 1 < Len(Items(t)), k + 1 < MAX_ITEMS_IN_BATCH
  PROVE  /\ k + 1 \in Indices
         /\ HeadOf(t, k + 1) \in Nat /\ HeadOf(t, k + 2) \in Nat
         /\ HeadOf(t, k + 1) + 5 <= HeadOf(t, k + 2)
         /\ base_items_offset - SELECTOR_SIZE + items_offsets[k + 1] + BATCH_ITEM_PROXY_OFFSET
              = PARAMETER_LENGTH * (HeadOf(t, k + 2) + 1)
         /\ PARAMETER_LENGTH * (HeadOf(t, k + 2) + 1) < UINT16
<1> DEFINE n == Len(Items(t))
           head == HeadOf(t, k + 2)
<1>1. n \in 1..255 /\ MAX_ITEMS_IN_BATCH \in Nat
  BY HeadPlaces, Numbers
<1>2. k + 1 < n
  OBVIOUS
<1> HIDE DEF n
<1>3. /\ k + 1 \in 1..n - 1 /\ k + 1 \in 1..n /\ k + 2 \in 1..n /\ k + 2 <= MAX_ITEMS_IN_BATCH
      /\ n # 1
  BY <1>1, <1>2
<1>4. k + 1 \in Indices
  BY <1>1 DEF Indices
<1>5. HeadOf(t, k + 1) \in Nat /\ head \in Nat /\ PARAMETER_LENGTH * (head + 3) < UINT16
  BY <1>3, HeadPlaces DEF n
<1>6. HeadOf(t, k + 1) + 5 <= head
  <2>1. HeadOf(t, k + 1) + 5 <= HeadOf(t, (k + 1) + 1)
    BY <1>3, HeadPlaces DEF n
  <2>2. (k + 1) + 1 = k + 2
    OBVIOUS
  <2> QED
    BY <2>1, <2>2
<1>7. /\ base_items_offset = SELECTOR_SIZE + PARAMETER_LENGTH * 3
      /\ items_offsets[k + 1] = PARAMETER_LENGTH * ItemStart(Items(t), k + 2)
  <2>1. OffsetsKnown(t, n)
    BY <1>3 DEF HeaderKnown, n
  <2>2. items_offsets[k + 1] = PARAMETER_LENGTH * ItemStart(Items(t), (k + 1) + 1)
    BY <1>2, <1>4, <2>1 DEF OffsetsKnown
  <2>3. (k + 1) + 1 = k + 2 /\ n > 0
    BY <1>1
  <2> QED
    BY <2>1, <2>2, <2>3 DEF OffsetsKnown
<1>8. head = 3 + ItemStart(Items(t), k + 2) /\ ItemStart(Items(t), k + 2) \in Int
  <2>1. head = 3 + ItemStart(Items(t), k + 2)
    BY DEF HeadOf
  <2>2. Items(t) \in Seq(BatchItem) /\ k + 2 \in 1..Len(Items(t)) + 1
    BY <1>1, <1>3, HeadPlaces DEF n
  <2>3. BodyStart(Items(t), k + 2) \in Nat
    BY <2>2, BodyStartType
  <2>4. ItemStart(Items(t), k + 2) = n + BodyStart(Items(t), k + 2)
    BY DEF ItemStart, n
  <2> QED
    BY <1>1, <2>1, <2>3, <2>4
<1> HIDE DEF head
<1>9. base_items_offset - SELECTOR_SIZE + items_offsets[k + 1] + BATCH_ITEM_PROXY_OFFSET
        = PARAMETER_LENGTH * (head + 1)
  BY <1>7, <1>8 DEF SELECTOR_SIZE, PARAMETER_LENGTH, BATCH_ITEM_PROXY_OFFSET
<1>10. PARAMETER_LENGTH * (head + 1) < UINT16
  BY <1>5 DEF PARAMETER_LENGTH, UINT16
<1> QED
  BY <1>4, <1>5, <1>6, <1>9, <1>10 DEF head

\* The last word of an item that matters: on to the next item, or done.
LEMMA FinishItemFollows ==
  ASSUME NEW t \in Decodable, IInv, Follows(t), FinishItem(Words[t][fieldIndex + 1])
  PROVE  Follows(t)'
<1> DEFINE n     == Len(Items(t))
           param == Words[t][fieldIndex + 1]
<1>1. AtWord("BATCH_DISPATCH_ITEM") /\ TypeItem(param)
  BY DEF FinishItem
<1>2. AtItem /\ HeaderKnown(t)
  BY <1>1, AtData
<1>3. PICK k \in Nat : k = CurrentIndex
  BY <1>2, ItemHere
<1>4. /\ n \in 1..255 /\ batch_dispatch_number_of_items = n /\ cnt \in 1..n
      /\ k = n - cnt
  BY <1>2, <1>3, ItemHere
<1>5. TypesKnown(t, k + 1)'
  BY <1>1, <1>3, TypeItemFollows
<1> HIDE DEF n
<1>6. cntLess = n - (k + 1) /\ (batch_dispatch_number_of_items - cntLess) % UINT8 = k + 1
  <2>1. cntLess = n - (k + 1)
    BY <1>4 DEF cntLess, UINT8
  <2> QED
    BY <1>4, <2>1 DEF UINT8
<1>7. /\ fieldIndex' = fieldIndex + 1 /\ item_handler' = NULL /\ cnt' = cntLess
      /\ UNCHANGED <<selectorIndex, base_items_offset, items_offsets,
                     batch_dispatch_number_of_items, is_max_exceeded>>
  BY DEF FinishItem, AtWord, BatchWord, Provided
<1>8. HeaderKnown(t)'
  BY <1>2, <1>7, KnownKept
<1>9. CASE cntLess = 0 \/ k + 1 >= MAX_ITEMS_IN_BATCH
  <2>1. go_to_offset' = FALSE /\ next_param' = "UNEXPECTED_PARAMETER"
    BY <1>6, <1>9 DEF FinishItem, Continue
  <2>2. ASSUME NEW i \in Indices, i < n
        PROVE  item_types'[i] = Items(t)[i + 1].type
    <3>1. MAX_ITEMS_IN_BATCH \in Nat
      BY Numbers
    <3>2. i \in Nat /\ i < MAX_ITEMS_IN_BATCH
      BY <3>1 DEF Indices
    <3>3. i < k + 1
      BY <1>4, <1>6, <1>9, <2>2, <3>1, <3>2
    <3> QED
      BY <1>5, <3>3 DEF TypesKnown
  <2>3. TypesKnown(t, Len(Items(t)))'
    BY <2>2 DEF TypesKnown, n
  <2> QED
    BY <1>7, <1>8, <2>1, <2>3 DEF Follows, InHeader, InItem, AfterItems, AtItem
<1>10. CASE ~(cntLess = 0 \/ k + 1 >= MAX_ITEMS_IN_BATCH)
  <2> DEFINE head == HeadOf(t, k + 2)
  <2>1. k + 1 < n /\ k + 1 < MAX_ITEMS_IN_BATCH /\ n # 1
    <3> MAX_ITEMS_IN_BATCH \in Nat
      BY Numbers
    <3> QED
      BY <1>4, <1>6, <1>10
  <2>2. /\ HeadOf(t, k + 1) \in Nat /\ head \in Nat /\ HeadOf(t, k + 1) + 5 <= head
        /\ base_items_offset - SELECTOR_SIZE + items_offsets[k + 1] + BATCH_ITEM_PROXY_OFFSET
             = PARAMETER_LENGTH * (head + 1)
        /\ PARAMETER_LENGTH * (head + 1) < UINT16
    BY <1>2, <2>1, NextItem DEF n
  <2>3. fieldIndex = HeadOf(t, k + 1) + 4
    BY <1>1, <1>3, <2>1, AtData DEF n
  <2>4. /\ go_to_offset' = TRUE /\ next_param' = "BATCH_DISPATCH_ITEM_PROXY"
        /\ offset' = (base_items_offset - SELECTOR_SIZE + items_offsets[k + 1]
                        + BATCH_ITEM_PROXY_OFFSET) % UINT16
    BY <1>6, <1>10 DEF FinishItem, GoTo
  <2> HIDE DEF head
  <2>5. offset' = PARAMETER_LENGTH * (head + 1)
    BY <2>2, <2>4 DEF PARAMETER_LENGTH, UINT16
  <2>6. fieldIndex' = HeadOf(t, k + 1) + 5 /\ fieldIndex' <= head + 1
    BY <1>7, <2>2, <2>3
  <2>7. CurrentIndex' = k + 1
    BY <1>6, <1>7 DEF CurrentIndex
  <2>8. Seeks(head + 1)'
    <3> (head + 1)' = head + 1
      BY DEF head, HeadOf, Items
    <3> QED
      BY <2>4, <2>5, <2>6 DEF Seeks
  <2>9. Seeks(HeadOf(t, CurrentIndex + 1) + 1)'
    <3> (k + 1) + 1 = k + 2
      OBVIOUS
    <3> QED
      BY <2>7, <2>8 DEF Seeks, head
  <2>10. TypesKnown(t, CurrentIndex)'
    BY <1>5, <2>7 DEF TypesKnown
  <2> QED
    BY <1>7, <1>8, <2>4, <2>9, <2>10 DEF Follows, InHeader, InItem, AfterItems
<1> QED
  BY <1>9, <1>10

-----------------------------------------------------------------------------
(***************************************************************************)
(* The session.                                                            *)
(***************************************************************************)

\* init starts the parser at the first word.
LEMMA BeginFollows ==
  ASSUME NEW t \in Decodable, InitContract(CallSelector(Transactions[t]))
  PROVE  Follows(t)'
<1> DEFINE sel == CallSelector(Transactions[t])
<1>1. sel = SelectorOf["BATCH_DISPATCH"]
  BY DEF Decodable, CallSelector, Selectors
<1>2. FoundSelector(sel) = "BATCH_DISPATCH"
  BY <1>1, SelectorAssumption DEF FoundSelector, Selectors
<1>3. /\ selectorIndex' = "BATCH_DISPATCH" /\ next_param' = "BATCH_DISPATCH_ITEMS_OFFSET"
      /\ fieldIndex' = 0 /\ go_to_offset' = FALSE
  BY <1>2 DEF InitContract, ClearedContext
<1> QED
  BY <1>3 DEF Follows, InHeader, InItem, AfterItems, AtItem

\* Every word takes the parser to where it should be next.
LEMMA FeedFollows ==
  ASSUME NEW t \in Decodable, IInv, Follows(t), ProvideWord(Words[t][fieldIndex + 1])
  PROVE  Follows(t)'
<1> DEFINE param == Words[t][fieldIndex + 1]
<1>1. CASE PassWord
  <2>1. ~MissGoal
    BY NothingMissed
  <2> QED
    BY <1>1, <2>1, SkipKeeps, IgnoreFollows DEF PassWord
<1>2. CASE ReadWord(param)
  <2>1. ~ActivateMarket(param)
    BY DEF ActivateMarket, Follows
  <2> QED
    BY <1>2, <2>1, ItemsOffsetFollows, NumberOfItemsFollows, OnlyItemOffsetFollows,
       ItemOffsetFollows, LastItemOffsetFollows, ItemProxyFollows, ItemLengthFollows,
       ItemFollows, FinishItemFollows
       DEF ReadWord
<1> QED
  BY <1>1, <1>2 DEF ProvideWord

\* The other handlers leave the parser where it is.
LEMMA AnswerFollows ==
  ASSUME NEW t, Follows(t), UNCHANGED <<fieldIndex, contextVars>>
  PROVE  Follows(t)'
<1>1. /\ UNCHANGED <<selectorIndex, next_param, go_to_offset, offset, base_items_offset,
                     items_offsets, batch_dispatch_number_of_items, cnt, is_max_exceeded,
                     item_types, item_length, item_handler, fieldIndex>>
  BY DEF contextVars, offsetVars, batchVars, itemVars
<1>2. CurrentIndex' = CurrentIndex /\ AtItem' = AtItem
  BY <1>1 DEF CurrentIndex, AtItem
<1>3. \A k : /\ OffsetsKnown(t, k) => OffsetsKnown(t, k)'
             /\ TypesKnown(t, k) => TypesKnown(t, k)'
             /\ Seeks(k) => Seeks(k)'
  BY <1>1 DEF OffsetsKnown, TypesKnown, Seeks
<1>4. HeaderKnown(t) => HeaderKnown(t)'
  BY <1>1, KnownKept
<1>5. InHeader(t)'
  BY <1>1, <1>3 DEF Follows, InHeader, OffsetsKnown
<1>6. InItem(t)'
  BY <1>1, <1>2, <1>3, <1>4 DEF Follows, InItem, TypesKnown, Seeks
<1>7. AfterItems(t)'
  BY <1>1, <1>3, <1>4 DEF Follows, AfterItems
<1> QED
  BY <1>1, <1>5, <1>6, <1>7 DEF Follows

\* Between transactions there is nothing to follow.
LEMMA BatchInvInit == SessionInit => BatchInv
BY DEF SessionInit, BatchInv

\* Every call of the app keeps the parser at the word that the batch has there.
LEMMA BatchStep == SessionInv /\ BatchInv /\ [SessionNext]_sessionVars => BatchInv'
<1> SUFFICES ASSUME SessionInv, BatchInv, [SessionNext]_sessionVars,
                    NEW t \in Decodable, phase' # "idle", tx' = t
             PROVE  Follows(t)' /\ (DataIsIn' => fieldIndex' = Len(Words[t]))
  BY DEF BatchInv
<1>1. IInv
  BY DEF SessionInv
<1>2. ASSUME NEW s \in DOMAIN Transactions, Begin(s)
      PROVE  Follows(t)' /\ (DataIsIn' => fieldIndex' = Len(Words[t]))
  <2>1. InitContract(CallSelector(Transactions[s])) /\ phase' = "parsing" /\ s = t
    BY <1>2 DEF Begin
  <2> QED
    BY <2>1, BeginFollows DEF DataIsIn
<1>3. CASE Feed
  <2>1. phase = "parsing" /\ phase' = "parsing" /\ tx = t /\ ProvideWord(Words[t][fieldIndex + 1])
    BY <1>3 DEF Feed, hostVars
  <2> QED
    BY <1>1, <2>1, FeedFollows DEF BatchInv, DataIsIn
<1>4. CASE EndOfData
  <2>1. /\ phase = "parsing" /\ tx = t /\ fieldIndex = Len(Words[t])
        /\ UNCHANGED <<fieldIndex, contextVars>>
    BY <1>4 DEF EndOfData, Finalize
  <2> QED
    BY <2>1, AnswerFollows DEF BatchInv
<1>5. CASE Inform
  <2>1. /\ phase = "finalized" /\ tx = t /\ UNCHANGED <<fieldIndex, contextVars>>
    BY <1>5 DEF Inform, ProvideToken
  <2> QED
    BY <2>1, AnswerFollows DEF BatchInv, DataIsIn
<1>6. CASE Identify
  <2>1. /\ phase = "informed" /\ tx = t /\ UNCHANGED <<fieldIndex, contextVars>>
    BY <1>6 DEF Identify, QueryContractID
  <2> QED
    BY <2>1, AnswerFollows DEF BatchInv, DataIsIn
<1>7. ASSUME NEW i \in 0..numScreens - 1, LeafTo(i)
      PROVE  Follows(t)' /\ (DataIsIn' => fieldIndex' = Len(Words[t]))
  <2>1. /\ phase = "review" /\ tx = t /\ UNCHANGED <<fieldIndex, contextVars>>
    BY <1>7 DEF LeafTo, QueryContractUI
  <2> QED
    BY <2>1, AnswerFollows DEF BatchInv, DataIsIn
<1>8. CASE UNCHANGED sessionVars
  <2>1. UNCHANGED <<phase, tx, fieldIndex, contextVars>>
    BY <1>8 DEF sessionVars, parserVars, hostVars
  <2> QED
    BY <2>1, AnswerFollows DEF BatchInv, DataIsIn
<1>9. ~End
  BY DEF End
<1> QED
  BY <1>2, <1>3, <1>4, <1>5, <1>6, <1>7, <1>8, <1>9 DEF SessionNext

\* The parser follows every batch, through any transactions.
LEMMA BatchInvariant == SessionSpec => []BatchInv
<1> SessionSpec => [](SessionInv /\ BatchInv)
  BY SessionInvInit, SessionStep, BatchInvInit, BatchStep, PTL DEF SessionSpec
<1> QED
  BY PTL

-----------------------------------------------------------------------------
(***************************************************************************)
(* What follows.                                                           *)
(***************************************************************************)

\* Past the items the parser is done, unless it waits for the arguments that a swap
\* lacks.
LEMMA DoneAfterItems ==
  ASSUME NEW t \in Decodable, IInv, Follows(t), fieldIndex >= DeferredStart(t)
  PROVE  \/ next_param = "UNEXPECTED_PARAMETER"
         \/ AtItem /\ item_handler # NULL /\ ~SwapIsComplete(t)
<1> DEFINE n    == Len(Items(t))
           last == DeferredStart(t)
<1> SUFFICES ASSUME next_param # "UNEXPECTED_PARAMETER"
             PROVE  AtItem /\ item_handler # NULL /\ ~SwapIsComplete(t)
  OBVIOUS
<1>1. n \in 1..255 /\ last \in Nat /\ HeadOf(t, 1) = 3 + n /\ 1 \in 1..n
  <2>1. n \in 1..255 /\ HeadOf(t, 1) = 3 + n
    BY HeadPlaces
  <2>2. last \in Nat
    BY WordsOfBatch
  <2> HIDE DEF n, last
  <2>3. 1 \in 1..n
    BY <2>1
  <2> QED
    BY <2>1, <2>2, <2>3
<1>2. HeadOf(t, 1) + 5 <= last
  BY <1>1, WordsOfBatch
<1>3. fieldIndex \in Nat /\ fieldIndex >= last
  BY Numbers
<1>4. next_param \in parameter \ {"ACTIVATE_MARKET_UNDERLYING", "UNEXPECTED_PARAMETER"}
  BY DEF Follows, IInv, TypeOK
<1>5. AtItem
  <2> SUFFICES ASSUME ~AtItem
               PROVE  FALSE
    OBVIOUS
  <2>1. next_param \in {"BATCH_DISPATCH_ITEMS_OFFSET", "BATCH_DISPATCH_NUMBER_OF_ITEMS",
                        "BATCH_DISPATCH_ITEMS_OFFSETS"}
    BY <1>4 DEF AtItem, parameter
  <2>2. fieldIndex = 0 \/ fieldIndex <= 2 \/ fieldIndex \in 3..n + 2
    BY <2>1 DEF Follows, InHeader, Seeks
  <2> HIDE DEF n, last
  <2> QED
    BY <1>1, <1>2, <1>3, <2>2
<1> DEFINE head == HeadOf(t, CurrentIndex + 1)
<1>6. head \in Nat /\ head + 5 <= last
  BY <1>5, ItemHere, WordsOfBatch
<1>7. \/ fieldIndex <= head + 1 \/ fieldIndex <= head + 3 \/ fieldIndex = head + 4
      \/ next_param = "BATCH_DISPATCH_ITEM" /\ item_handler # NULL
  BY <1>5 DEF Follows, InItem, AtItem, Seeks
<1> HIDE DEF head, last
<1>8. next_param = "BATCH_DISPATCH_ITEM" /\ item_handler # NULL
  BY <1>1, <1>3, <1>6, <1>7
<1>9. ASSUME SwapIsComplete(t)
      PROVE  FALSE
  <2>1. PARAMETER_LENGTH * fieldIndex + item_length <= PARAMETER_LENGTH * last
    BY <1>5, <1>8, <1>9 DEF Follows, InItem, last
  <2>2. item_length >= PARAMETER_LENGTH
    BY <1>8 DEF IInv, ParserInv, HandlerMatchesItem, pre_handle
  <2>3. item_length \in Nat
    BY Numbers
  <2> QED
    BY <1>1, <1>3, <2>1, <2>2, <2>3 DEF PARAMETER_LENGTH
<1> QED
  BY <1>5, <1>8, <1>9

\* Through any transactions, abandoned at any point: when the call data of a batch
\* has been handed over, the number of its items, whether they are too many, and the
\* types of those remembered are those of the batch, for every batch whose numbers
\* the parser's integers hold (handle_provide_parameter.c:259-347, 349-448).
THEOREM BatchesDecoded == SessionSpec => [](tx \in Decodable => ItemsDecoded)
<1>1. SessionInv /\ BatchInv => (tx \in Decodable => ItemsDecoded)
  <2> SUFFICES ASSUME SessionInv, BatchInv, NEW t \in Decodable, t = tx, DataIsIn
               PROVE  /\ batch_dispatch_number_of_items = Len(Items(t))
                      /\ is_max_exceeded <=> Len(Items(t)) > MAX_ITEMS_IN_BATCH
                      /\ \A i \in Indices :
                           i < Len(Items(t)) => item_types[i] = Items(t)[i + 1].type
    BY DEF ItemsDecoded, Tx, Items
  <2>1. IInv /\ Follows(t) /\ fieldIndex = Len(Words[t])
    BY DEF SessionInv, BatchInv, DataIsIn
  <2>2. fieldIndex >= DeferredStart(t)
    BY <2>1, WordsOfBatch, Numbers
  <2>3. CASE next_param = "UNEXPECTED_PARAMETER"
    BY <2>1, <2>3 DEF Follows, AfterItems, HeaderKnown, TypesKnown
  <2>4. CASE AtItem /\ item_handler # NULL
    <3>1. next_param = "BATCH_DISPATCH_ITEM" /\ batch_dispatch_number_of_items = 1
      BY <2>1, <2>4 DEF IInv, ParserInv, HandlerMatchesItem
    <3>2. HeaderKnown(t) /\ TypesKnown(t, 1)
      BY <2>1, <2>4, <3>1 DEF Follows, InItem
    <3> QED
      BY <3>1, <3>2 DEF HeaderKnown, TypesKnown
  <2> QED
    BY <2>1, <2>2, <2>3, <2>4, DoneAfterItems
<1> QED
  BY <1>1, SessionInvariant, BatchInvariant, PTL

\* Through any transactions: the parser is done with a batch before the words that
\* come after its items, whatever the lengths of the items say and wherever a handler
\* stops, for every batch whose numbers the parser's integers hold and whose only
\* item, if it is a swap, has the words the hardcoded lengths count
\* (handle_provide_parameter.c:426-439).
THEOREM BatchesSettleBeforeDeferral ==
  SessionSpec => [](tx \in Decodable /\ SwapIsComplete(tx) => SettledBeforeDeferral)
<1>1. SessionInv /\ BatchInv
        => (tx \in Decodable /\ SwapIsComplete(tx) => SettledBeforeDeferral)
  <2> SUFFICES ASSUME SessionInv, BatchInv, NEW t \in Decodable, t = tx, SwapIsComplete(t),
                      phase # "idle", fieldIndex >= DeferredStart(t)
               PROVE  next_param = "UNEXPECTED_PARAMETER" /\ ~go_to_offset
    BY DEF SettledBeforeDeferral
  <2>1. IInv /\ Follows(t)
    BY DEF SessionInv, BatchInv
  <2>2. next_param = "UNEXPECTED_PARAMETER"
    BY <2>1, DoneAfterItems
  <2> QED
    BY <2>1, <2>2 DEF Follows, AfterItems
<1> QED
  BY <1>1, SessionInvariant, BatchInvariant, PTL
=============================================================================
