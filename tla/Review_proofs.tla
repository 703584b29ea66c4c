----------------------------- MODULE Review_proofs -----------------------------
(***************************************************************************)
(* The plugin implements Review: what it shows of a transaction is the     *)
(* list of true screens of that transaction.  The arguments of an item are *)
(* followed word by word through its handler, then through the tokens      *)
(* looked up to the screens that name them.                                *)
(***************************************************************************)
EXTENDS Screens_proofs

-----------------------------------------------------------------------------
(***************************************************************************)
(* The two halves of an argument.                                          *)
(***************************************************************************)

\* The sub-account or mode that an argument holds.
LowByteOf(word) == word[8] % UINT8

\* All but the end of an address, and of an amount, has been copied.
HeadOfAddress(address, word) == \A i \in 1..4 : address[i] = AddressIn(word)[i]
HeadOfAmount(amount, word)   == \A i \in 1..7 : amount[i] = word[i]

\* The word of the data in which an argument begins holds all but its end...
LEMMA HeadCopied ==
  ASSUME NEW item \in BatchItem, NEW k \in 1..Len(item.arguments), NEW dst
  PROVE  /\ HeadOfAddress(AddressHead(dst, ItemDataWord(item, k)), item.arguments[k])
         /\ HeadOfAmount(AmountHead(dst, ItemDataWord(item, k)), item.arguments[k])
<1>1. k \in Nat /\ k <= Len(item.arguments)
  BY DEF BatchItem
<1>2. ASSUME NEW i \in 2..8
      PROVE  ItemDataWord(item, k)[i] = item.arguments[k][i - 1]
  BY <1>1 DEF ItemDataWord
<1>3. ASSUME NEW i \in 1..4
      PROVE  AddressHead(dst, ItemDataWord(item, k))[i] = AddressIn(item.arguments[k])[i]
  <2>1. AddressHead(dst, ItemDataWord(item, k))[i] = ItemDataWord(item, k)[4 + i]
    BY DEF AddressHead, copy_address
  <2>2. ItemDataWord(item, k)[4 + i] = item.arguments[k][i + 3]
    <3> 4 + i \in 2..8 /\ (4 + i) - 1 = i + 3
      OBVIOUS
    <3> QED
      BY <1>2
  <2> QED
    BY <2>1, <2>2 DEF AddressIn
<1>4. ASSUME NEW i \in 1..7
      PROVE  AmountHead(dst, ItemDataWord(item, k))[i] = item.arguments[k][i]
  <2>1. AmountHead(dst, ItemDataWord(item, k))[i] = ItemDataWord(item, k)[i + 1]
    BY DEF AmountHead
  <2>2. i + 1 \in 2..8 /\ (i + 1) - 1 = i
    OBVIOUS
  <2> QED
    BY <1>2, <2>1, <2>2
<1> QED
  BY <1>3, <1>4 DEF HeadOfAddress, HeadOfAmount

\* The end of an argument completes it.
LEMMA HalvesJoin ==
  ASSUME NEW word \in Word, NEW param, param[1] = word[8]
  PROVE  /\ \A dst \in Address :
              HeadOfAddress(dst, word) => AddressTail(dst, param) = AddressIn(word)
         /\ \A dst \in Word : HeadOfAmount(dst, word) => AmountTail(dst, param) = word
<1>1. ASSUME NEW dst \in Address, HeadOfAddress(dst, word)
      PROVE  AddressTail(dst, param) = AddressIn(word)
  <2>1. AddressTail(dst, param) = [i \in 1..5 |-> IF i = 5 THEN word[8] ELSE dst[i]]
    BY DEF AddressTail, Address
  <2>2. ASSUME NEW i \in 1..5
        PROVE  (IF i = 5 THEN word[8] ELSE dst[i]) = word[i + 3]
    <3>1. CASE i = 5
      BY <3>1
    <3>2. CASE i # 5
      <4> i \in 1..4
        BY <3>2
      <4> QED
        BY <1>1, <3>2 DEF HeadOfAddress, AddressIn
    <3> QED
      BY <3>1, <3>2
  <2> QED
    BY <2>1, <2>2 DEF AddressIn
<1>2. ASSUME NEW dst \in Word, HeadOfAmount(dst, word)
      PROVE  AmountTail(dst, param) = word
  <2>1. AmountTail(dst, param) = [i \in 1..8 |-> IF i = 8 THEN word[8] ELSE dst[i]]
    BY DEF AmountTail, Word
  <2>2. ASSUME NEW i \in 1..8
        PROVE  (IF i = 8 THEN word[8] ELSE dst[i]) = word[i]
    <3>1. CASE i = 8
      BY <3>1
    <3>2. CASE i # 8
      <4> i \in 1..7
        BY <3>2
      <4> QED
        BY <1>2, <3>2 DEF HeadOfAmount
    <3> QED
      BY <3>1, <3>2
  <2>3. word = [i \in 1..8 |-> word[i]]
    BY DEF Word
  <2> QED
    BY <2>1, <2>2, <2>3
<1> QED
  BY <1>1, <1>2

\* ... and the next word begins with its end.
LEMMA TailCopied ==
  ASSUME NEW item \in BatchItem, NEW k \in 1..Len(item.arguments)
  PROVE  /\ LowByteIn(ItemDataWord(item, k + 1)) = LowByteOf(item.arguments[k])
         /\ \A dst \in Address :
              HeadOfAddress(dst, item.arguments[k])
                => AddressTail(dst, ItemDataWord(item, k + 1)) = AddressIn(item.arguments[k])
         /\ \A dst \in Word :
              HeadOfAmount(dst, item.arguments[k])
                => AmountTail(dst, ItemDataWord(item, k + 1)) = item.arguments[k]
<1>1. item.arguments \in Seq(Word)
  BY DEF BatchItem
<1>2. k \in Nat /\ k <= Len(item.arguments) /\ item.arguments[k] \in Word
  BY <1>1
<1>3. ItemDataWord(item, k + 1)[1] = item.arguments[k][8]
  <2>1. k + 1 # 1 /\ k + 1 > 1 /\ k + 1 <= Len(item.arguments) + 1 /\ (k + 1) - 1 = k
    BY <1>1, <1>2
  <2> QED
    BY <2>1 DEF ItemDataWord
<1>4. LowByteIn(ItemDataWord(item, k + 1)) = LowByteOf(item.arguments[k])
  BY <1>3 DEF LowByteIn, LowByteOf
<1> QED
  BY <1>2, <1>3, <1>4, HalvesJoin

-----------------------------------------------------------------------------
(***************************************************************************)
(* The arguments of an item in the fields, after k words of its data.      *)
(***************************************************************************)

\* The words of an item's data that its handler takes.
WordsTaken(item) ==
  CASE item.type = "SWAP"           -> 13
    [] item.type = "SWAP_AND_REPAY" -> 14
    [] OTHER                        -> ArgumentCount(item) + 1

\* The only item of a batch has the arguments that its function takes: none more,
\* where a handler counts the words from the end, and for a permit a token whose address
\* begins and ends with limbs other than zero.  Its length fits 16 bits, for a permit
\* also when the selector counts as a word.
IsWhole(item) ==
  /\ ItemDataLength(item) < UINT16
  /\ item.type \in MarketTypes \union AmountTypes \union {"TRANSFER"} =>
       Len(item.arguments) = 2 /\ item.payload = 0
  /\ item.type = "TRANSFER_FROM" => Len(item.arguments) = 3 /\ item.payload = 0
  /\ item.type \in PermitTypes =>
       /\ Len(item.arguments) >= 1 /\ PARAMETER_LENGTH * WordsTaken(item) < UINT16
       /\ AddressIn(item.arguments[1])[1] # 0 /\ AddressIn(item.arguments[1])[5] # 0
  /\ item.type = "SWAP" => Len(item.arguments) >= 9 /\ ArgumentCount(item) >= 12
  /\ item.type = "SWAP_AND_REPAY" => Len(item.arguments) >= 9 /\ ArgumentCount(item) >= 13

MarketRead(item, k, f) ==
  /\ k >= 2 => HeadOfAddress(f.address_2, item.arguments[2])
  /\ k >= 3 => f.address_2 = AddressIn(item.arguments[2])

PermitRead(item, k, f) ==
  /\ k = 0 => f.address_2 = ZeroAddress
  /\ k = 1 => HeadOfAddress(f.address_2, item.arguments[1]) /\ f.address_2[5] = 0
  /\ k >= 2 => f.address_2 = AddressIn(item.arguments[1])

AmountRead(item, k, f) ==
  /\ f.address_1 = AddressIn(item.proxy)
  /\ k >= 2 => /\ f.address_2 = AddressIn(item.proxy)
               /\ f.sub_account_1 = LowByteOf(item.arguments[1])
               /\ HeadOfAmount(f.amount, item.arguments[2])
  /\ k >= 3 => f.amount = item.arguments[2]

TransferRead(item, k, f) ==
  /\ f.address_1 = AddressIn(item.proxy)
  /\ k >= 1 => /\ f.address_2 = AddressIn(item.proxy)
               /\ HeadOfAddress(f.address_3, item.arguments[1])
  /\ k >= 2 => /\ f.address_3 = AddressIn(item.arguments[1])
               /\ HeadOfAmount(f.amount, item.arguments[2])
  /\ k >= 3 => f.amount = item.arguments[2]

TransferFromRead(item, k, f) ==
  /\ k = 0 => f.address_1 = AddressIn(item.proxy)
  /\ k >= 1 => /\ f.address_2 = AddressIn(item.proxy)
               /\ HeadOfAddress(f.address_1, item.arguments[1])
  /\ k >= 2 => /\ f.address_1 = AddressIn(item.arguments[1])
               /\ HeadOfAddress(f.address_3, item.arguments[2])
  /\ k >= 3 => /\ f.address_3 = AddressIn(item.arguments[2])
               /\ HeadOfAmount(f.amount, item.arguments[3])
  /\ k >= 4 => f.amount = item.arguments[3]

SwapRead(item, k, f) ==
  LET exactIn == LowByteOf(item.arguments[7]) = 0
  IN  /\ k >= 2 => f.sub_account_1 = LowByteOf(item.arguments[1])
      /\ k >= 3 => f.sub_account_2 = LowByteOf(item.arguments[2])
      /\ k >= 5 => HeadOfAddress(f.address_2, item.arguments[5])
      /\ k >= 6 => /\ f.address_2 = AddressIn(item.arguments[5])
                   /\ HeadOfAddress(f.address_3, item.arguments[6])
      /\ k >= 7 => f.address_3 = AddressIn(item.arguments[6])
      /\ k >= 8 => f.swap_mode = LowByteOf(item.arguments[7])
      /\ k >= 8 /\ ~exactIn => HeadOfAmount(f.amount, item.arguments[8])
      /\ k >= 9 /\ ~exactIn => f.amount = item.arguments[8]
      /\ k >= 9 /\ exactIn => HeadOfAmount(f.amount, item.arguments[9])
      /\ k >= 10 /\ exactIn => f.amount = item.arguments[9]

SwapAndRepayRead(item, k, f) ==
  /\ k >= 2 => f.sub_account_1 = LowByteOf(item.arguments[1])
  /\ k >= 3 => f.sub_account_2 = LowByteOf(item.arguments[2])
  /\ k >= 6 => HeadOfAddress(f.address_2, item.arguments[6])
  /\ k >= 7 => /\ f.address_2 = AddressIn(item.arguments[6])
               /\ HeadOfAddress(f.address_3, item.arguments[7])
  /\ k >= 8 => f.address_3 = AddressIn(item.arguments[7])
  /\ k >= 9 => HeadOfAmount(f.amount, item.arguments[9])
  /\ k >= 10 => f.amount = item.arguments[9]

\* What the fields hold of the only item after k words.
ArgumentsRead(item, k, f) ==
  /\ item.type \in MarketTypes => MarketRead(item, k, f)
  /\ item.type \in PermitTypes => PermitRead(item, k, f)
  /\ item.type \in AmountTypes => AmountRead(item, k, f)
  /\ item.type = "TRANSFER" => TransferRead(item, k, f)
  /\ item.type = "TRANSFER_FROM" => TransferFromRead(item, k, f)
  /\ item.type = "SWAP" => SwapRead(item, k, f)
  /\ item.type = "SWAP_AND_REPAY" => SwapAndRepayRead(item, k, f)

-----------------------------------------------------------------------------
(***************************************************************************)
(* Each handler reads the next word as the words before it.                *)
(***************************************************************************)

\* The fields have the types of the two halves.
LEMMA FieldTypes ==
  ASSUME NEW f \in Fields
  PROVE  /\ f.address_1 \in Address /\ f.address_2 \in Address /\ f.address_3 \in Address
         /\ f.amount \in Word
         /\ DOMAIN f = {"address_1", "address_2", "address_3", "amount",
                        "sub_account_1", "sub_account_2", "swap_mode"}
BY DEF Fields

\* handle_enter_market.
LEMMA MarketReads ==
  ASSUME NEW item \in BatchItem, NEW f \in Fields, NEW k \in 0..2,
         Len(item.arguments) = 2, MarketRead(item, k, f)
  PROVE  MarketRead(item, k + 1, handle_enter_market(f, 3 - k, ItemDataWord(item, k + 1)))
<1> DEFINE param == ItemDataWord(item, k + 1)
<1> k = 0 \/ k = 1 \/ k = 2
  OBVIOUS
<1>1. CASE k = 0
  BY <1>1 DEF MarketRead
<1>2. CASE k = 1
  <2>1. HeadOfAddress(AddressHead(f.address_2, param), item.arguments[2])
    BY <1>2, HeadCopied
  <2> HIDE DEF param
  <2>2. handle_enter_market(f, 2, param).address_2 = AddressHead(f.address_2, param)
    <3> handle_enter_market(f, 2, param)
          = [f EXCEPT !.sub_account_1 = LowByteIn(param),
                      !.address_2 = AddressHead(f.address_2, param)]
      BY DEF handle_enter_market
    <3> QED
      BY DEF Fields
  <2> QED
    BY <1>2, <2>1, <2>2 DEF MarketRead, param
<1>3. CASE k = 2
  <2>1. AddressTail(f.address_2, param) = AddressIn(item.arguments[2])
    BY <1>3, TailCopied, FieldTypes DEF MarketRead
  <2> HIDE DEF param
  <2>2. handle_enter_market(f, 1, param).address_2 = AddressTail(f.address_2, param)
    BY DEF handle_enter_market, Fields
  <2>3. HeadOfAddress(AddressIn(item.arguments[2]), item.arguments[2])
    BY DEF HeadOfAddress
  <2> QED
    BY <1>3, <2>1, <2>2, <2>3 DEF MarketRead, param
<1> QED
  BY <1>1, <1>2, <1>3

\* handle_use_permit, which has read the token after two words and takes no more.
LEMMA PermitReads ==
  ASSUME NEW item \in BatchItem, NEW f \in Fields, NEW k \in 0..1,
         Len(item.arguments) >= 1, AddressIn(item.arguments[1])[1] # 0, PermitRead(item, k, f)
  PROVE  PermitRead(item, k + 1, handle_use_permit(f, ItemDataWord(item, k + 1)))
<1> DEFINE param == ItemDataWord(item, k + 1)
<1> k = 0 \/ k = 1
  OBVIOUS
<1>1. CASE k = 0
  <2>1. f.address_2 = ZeroAddress /\ PermitHeadMissing(f)
    BY <1>1 DEF PermitRead, PermitHeadMissing, ZeroAddress
  <2>2. HeadOfAddress(AddressHead(f.address_2, param), item.arguments[1])
    <3> 1 \in 1..Len(item.arguments)
      BY DEF BatchItem
    <3> QED
      BY <1>1, HeadCopied
  <2> HIDE DEF param
  <2>3. handle_use_permit(f, param).address_2 = AddressHead(f.address_2, param)
    BY <2>1, FieldTypes DEF handle_use_permit
  <2>4. AddressHead(f.address_2, param)[5] = 0
    BY <2>1 DEF AddressHead, copy_address, ZeroAddress
  <2> QED
    BY <1>1, <2>2, <2>3, <2>4 DEF PermitRead, param
<1>2. CASE k = 1
  <2>1. f.address_2[1] # 0 /\ ~PermitHeadMissing(f)
    BY <1>2 DEF PermitRead, HeadOfAddress, PermitHeadMissing
  <2>2. AddressTail(f.address_2, param) = AddressIn(item.arguments[1])
    <3> 1 \in 1..Len(item.arguments)
      BY DEF BatchItem
    <3> QED
      BY <1>2, TailCopied, FieldTypes DEF PermitRead
  <2> HIDE DEF param
  <2>3. handle_use_permit(f, param).address_2 = AddressTail(f.address_2, param)
    BY <2>1, FieldTypes DEF handle_use_permit
  <2> QED
    BY <1>2, <2>2, <2>3 DEF PermitRead, param
<1> QED
  BY <1>1, <1>2

\* handle_deposit.
LEMMA AmountReads ==
  ASSUME NEW item \in BatchItem, NEW f \in Fields, NEW k \in 0..2,
         Len(item.arguments) = 2, AmountRead(item, k, f)
  PROVE  AmountRead(item, k + 1, handle_deposit(f, 3 - k, ItemDataWord(item, k + 1)))
<1> DEFINE param == ItemDataWord(item, k + 1)
<1> k = 0 \/ k = 1 \/ k = 2
  OBVIOUS
<1>1. CASE k = 0
  BY <1>1 DEF AmountRead, handle_deposit
<1>2. CASE k = 1
  <2>1. /\ HeadOfAmount(AmountHead(f.amount, param), item.arguments[2])
        /\ LowByteIn(param) = LowByteOf(item.arguments[1])
    BY <1>2, HeadCopied, TailCopied
  <2> HIDE DEF param
  <2> DEFINE g == handle_deposit(f, 2, param)
  <2>2. /\ g.address_1 = f.address_1 /\ g.address_2 = f.address_1
        /\ g.sub_account_1 = LowByteIn(param) /\ g.amount = AmountHead(f.amount, param)
    <3> g = [f EXCEPT !.address_2 = f.address_1, !.sub_account_1 = LowByteIn(param),
                      !.amount = AmountHead(f.amount, param)]
      BY DEF handle_deposit
    <3> HIDE DEF g
    <3> QED
      BY DEF Fields
  <2> HIDE DEF g
  <2>3. AmountRead(item, 2, g)
    BY <2>1, <2>2 DEF AmountRead
  <2> QED
    BY <1>2, <2>3 DEF g, param
<1>3. CASE k = 2
  <2>1. AmountTail(f.amount, param) = item.arguments[2]
    BY <1>3, TailCopied, FieldTypes DEF AmountRead
  <2> HIDE DEF param
  <2> DEFINE g == handle_deposit(f, 1, param)
  <2>2. /\ g.address_1 = f.address_1 /\ g.address_2 = f.address_2
        /\ g.sub_account_1 = f.sub_account_1 /\ g.amount = AmountTail(f.amount, param)
    BY DEF handle_deposit, Fields
  <2> HIDE DEF g
  <2>3. AmountRead(item, 3, g)
    BY <1>3, <2>1, <2>2 DEF AmountRead, HeadOfAmount
  <2> QED
    BY <1>3, <2>3 DEF g, param
<1> QED
  BY <1>1, <1>2, <1>3

\* handle_transfer.
LEMMA TransferReads ==
  ASSUME NEW item \in BatchItem, NEW f \in Fields, NEW k \in 0..2,
         Len(item.arguments) = 2, TransferRead(item, k, f)
  PROVE  TransferRead(item, k + 1, handle_transfer(f, 3 - k, ItemDataWord(item, k + 1)))
<1> DEFINE param == ItemDataWord(item, k + 1)
<1> k = 0 \/ k = 1 \/ k = 2
  OBVIOUS
<1>1. CASE k = 0
  <2>1. HeadOfAddress(AddressHead(f.address_3, param), item.arguments[1])
    BY <1>1, HeadCopied
  <2> HIDE DEF param
  <2> DEFINE g == handle_transfer(f, 3, param)
  <2>2. /\ g.address_1 = f.address_1 /\ g.address_2 = f.address_1
        /\ g.address_3 = AddressHead(f.address_3, param)
    <3> g = [f EXCEPT !.address_2 = f.address_1, !.address_3 = AddressHead(f.address_3, param)]
      BY DEF handle_transfer
    <3> HIDE DEF g
    <3> QED
      BY DEF Fields
  <2> HIDE DEF g
  <2>3. TransferRead(item, 1, g)
    BY <2>1, <2>2 DEF TransferRead
  <2> QED
    BY <1>1, <2>3 DEF g, param
<1>2. CASE k = 1
  <2>1. /\ AddressTail(f.address_3, param) = AddressIn(item.arguments[1])
        /\ HeadOfAmount(AmountHead(f.amount, param), item.arguments[2])
    BY <1>2, HeadCopied, TailCopied, FieldTypes DEF TransferRead
  <2> HIDE DEF param
  <2> DEFINE g == handle_transfer(f, 2, param)
  <2>2. /\ g.address_1 = f.address_1 /\ g.address_2 = f.address_2
        /\ g.address_3 = AddressTail(f.address_3, param)
        /\ g.amount = AmountHead(f.amount, param)
    <3> g = [f EXCEPT !.address_3 = AddressTail(f.address_3, param),
                      !.amount = AmountHead(f.amount, param)]
      BY DEF handle_transfer
    <3> HIDE DEF g
    <3> QED
      BY DEF Fields
  <2> HIDE DEF g
  <2>3. TransferRead(item, 2, g)
    BY <1>2, <2>1, <2>2 DEF TransferRead, HeadOfAddress
  <2> QED
    BY <1>2, <2>3 DEF g, param
<1>3. CASE k = 2
  <2>1. AmountTail(f.amount, param) = item.arguments[2]
    BY <1>3, TailCopied, FieldTypes DEF TransferRead
  <2> HIDE DEF param
  <2> DEFINE g == handle_transfer(f, 1, param)
  <2>2. /\ g.address_1 = f.address_1 /\ g.address_2 = f.address_2
        /\ g.address_3 = f.address_3 /\ g.amount = AmountTail(f.amount, param)
    <3> g = [f EXCEPT !.amount = AmountTail(f.amount, param)]
      BY DEF handle_transfer
    <3> HIDE DEF g
    <3> QED
      BY DEF Fields
  <2> HIDE DEF g
  <2>3. TransferRead(item, 3, g)
    BY <1>3, <2>1, <2>2 DEF TransferRead, HeadOfAmount
  <2> QED
    BY <1>3, <2>3 DEF g, param
<1> QED
  BY <1>1, <1>2, <1>3

\* handle_transfer_from, where the sender takes the place of the token.
LEMMA TransferFromReads ==
  ASSUME NEW item \in BatchItem, NEW f \in Fields, NEW k \in 0..3,
         Len(item.arguments) = 3, TransferFromRead(item, k, f)
  PROVE  TransferFromRead(item, k + 1,
                          handle_transfer_from(f, 4 - k, ItemDataWord(item, k + 1)))
<1> DEFINE param == ItemDataWord(item, k + 1)
<1> k = 0 \/ k = 1 \/ k = 2 \/ k = 3
  OBVIOUS
<1>1. CASE k = 0
  <2>1. HeadOfAddress(AddressHead(f.address_1, param), item.arguments[1])
    BY <1>1, HeadCopied
  <2> HIDE DEF param
  <2> DEFINE g == handle_transfer_from(f, 4, param)
  <2>2. g.address_2 = f.address_1 /\ g.address_1 = AddressHead(f.address_1, param)
    <3> g = [f EXCEPT !.address_2 = f.address_1, !.address_1 = AddressHead(f.address_1, param)]
      BY DEF handle_transfer_from
    <3> HIDE DEF g
    <3> QED
      BY DEF Fields
  <2> HIDE DEF g
  <2>3. TransferFromRead(item, 1, g)
    BY <1>1, <2>1, <2>2 DEF TransferFromRead
  <2> QED
    BY <1>1, <2>3 DEF g, param
<1>2. CASE k = 1
  <2>1. /\ AddressTail(f.address_1, param) = AddressIn(item.arguments[1])
        /\ HeadOfAddress(AddressHead(f.address_3, param), item.arguments[2])
    BY <1>2, HeadCopied, TailCopied, FieldTypes DEF TransferFromRead
  <2> HIDE DEF param
  <2> DEFINE g == handle_transfer_from(f, 3, param)
  <2>2. /\ g.address_2 = f.address_2 /\ g.address_1 = AddressTail(f.address_1, param)
        /\ g.address_3 = AddressHead(f.address_3, param)
    <3> g = [f EXCEPT !.address_1 = AddressTail(f.address_1, param),
                      !.address_3 = AddressHead(f.address_3, param)]
      BY DEF handle_transfer_from
    <3> HIDE DEF g
    <3> QED
      BY DEF Fields
  <2> HIDE DEF g
  <2>3. TransferFromRead(item, 2, g)
    BY <1>2, <2>1, <2>2 DEF TransferFromRead, HeadOfAddress
  <2> QED
    BY <1>2, <2>3 DEF g, param
<1>3. CASE k = 2
  <2>1. /\ AddressTail(f.address_3, param) = AddressIn(item.arguments[2])
        /\ HeadOfAmount(AmountHead(f.amount, param), item.arguments[3])
    BY <1>3, HeadCopied, TailCopied, FieldTypes DEF TransferFromRead
  <2> HIDE DEF param
  <2> DEFINE g == handle_transfer_from(f, 2, param)
  <2>2. /\ g.address_1 = f.address_1 /\ g.address_2 = f.address_2
        /\ g.address_3 = AddressTail(f.address_3, param)
        /\ g.amount = AmountHead(f.amount, param)
    <3> g = [f EXCEPT !.address_3 = AddressTail(f.address_3, param),
                      !.amount = AmountHead(f.amount, param)]
      BY DEF handle_transfer_from
    <3> HIDE DEF g
    <3> QED
      BY DEF Fields
  <2> HIDE DEF g
  <2>3. TransferFromRead(item, 3, g)
    BY <1>3, <2>1, <2>2 DEF TransferFromRead, HeadOfAddress
  <2> QED
    BY <1>3, <2>3 DEF g, param
<1>4. CASE k = 3
  <2>1. AmountTail(f.amount, param) = item.arguments[3]
    BY <1>4, TailCopied, FieldTypes DEF TransferFromRead
  <2> HIDE DEF param
  <2> DEFINE g == handle_transfer_from(f, 1, param)
  <2>2. /\ g.address_1 = f.address_1 /\ g.address_2 = f.address_2
        /\ g.address_3 = f.address_3 /\ g.amount = AmountTail(f.amount, param)
    <3> g = [f EXCEPT !.amount = AmountTail(f.amount, param)]
      BY DEF handle_transfer_from
    <3> HIDE DEF g
    <3> QED
      BY DEF Fields
  <2> HIDE DEF g
  <2>3. TransferFromRead(item, 4, g)
    BY <1>4, <2>1, <2>2 DEF TransferFromRead, HeadOfAmount
  <2> QED
    BY <1>4, <2>3 DEF g, param
<1> QED
  BY <1>1, <1>2, <1>3, <1>4

\* Which word of a swap goes to which field.
LEMMA SwapWrites ==
  ASSUME NEW f \in Fields, NEW word \in 1..13, NEW param
  PROVE  LET g == handle_swap(f, word, param)
         IN  /\ g.sub_account_1 = IF word = 12 THEN LowByteIn(param) ELSE f.sub_account_1
             /\ g.sub_account_2 = IF word = 11 THEN LowByteIn(param) ELSE f.sub_account_2
             /\ g.address_2 = IF word = 9 THEN AddressHead(f.address_2, param)
                              ELSE IF word = 8 THEN AddressTail(f.address_2, param)
                              ELSE f.address_2
             /\ g.address_3 = IF word = 8 THEN AddressHead(f.address_3, param)
                              ELSE IF word = 7 THEN AddressTail(f.address_3, param)
                              ELSE f.address_3
             /\ g.swap_mode = IF word = 6 THEN LowByteIn(param) ELSE f.swap_mode
             /\ g.amount = IF \/ word = 6 /\ LowByteIn(param) # 0
                              \/ word = 5 /\ f.swap_mode = 0
                           THEN AmountHead(f.amount, param)
                           ELSE IF word = 5 \/ (word = 4 /\ f.swap_mode = 0)
                           THEN AmountTail(f.amount, param)
                           ELSE f.amount
<1> DEFINE g == handle_swap(f, word, param)
<1>1. CASE word = 12
  <2> g = [f EXCEPT !.sub_account_1 = LowByteIn(param)]
    BY <1>1 DEF handle_swap
  <2> HIDE DEF g
  <2> QED
    BY <1>1 DEF Fields, g
<1>2. CASE word = 11
  <2> g = [f EXCEPT !.sub_account_2 = LowByteIn(param)]
    BY <1>2 DEF handle_swap
  <2> HIDE DEF g
  <2> QED
    BY <1>2 DEF Fields, g
<1>3. CASE word = 9
  <2> g = [f EXCEPT !.address_2 = AddressHead(f.address_2, param)]
    BY <1>3 DEF handle_swap
  <2> HIDE DEF g
  <2> QED
    BY <1>3 DEF Fields, g
<1>4. CASE word = 8
  <2> g = [f EXCEPT !.address_2 = AddressTail(f.address_2, param),
                    !.address_3 = AddressHead(f.address_3, param)]
    BY <1>4 DEF handle_swap
  <2> HIDE DEF g
  <2> QED
    BY <1>4 DEF Fields, g
<1>5. CASE word = 7
  <2> g = [f EXCEPT !.address_3 = AddressTail(f.address_3, param)]
    BY <1>5 DEF handle_swap
  <2> HIDE DEF g
  <2> QED
    BY <1>5 DEF Fields, g
<1>6. CASE word = 6
  <2> g = [f EXCEPT !.swap_mode = LowByteIn(param),
                    !.amount = IF LowByteIn(param) # 0 THEN AmountHead(f.amount, param)
                                                       ELSE f.amount]
    BY <1>6 DEF handle_swap
  <2> HIDE DEF g
  <2> QED
    BY <1>6 DEF Fields, g
<1>7. CASE word = 5
  <2> g = [f EXCEPT !.amount = IF f.swap_mode # 0 THEN AmountTail(f.amount, param)
                                                  ELSE AmountHead(f.amount, param)]
    BY <1>7 DEF handle_swap
  <2> HIDE DEF g
  <2> QED
    BY <1>7 DEF Fields, g
<1>8. CASE word = 4
  <2> g = [f EXCEPT !.amount = IF f.swap_mode = 0 THEN AmountTail(f.amount, param)
                                                  ELSE f.amount]
    BY <1>8 DEF handle_swap
  <2> HIDE DEF g
  <2> QED
    BY <1>8 DEF Fields, g
<1>9. CASE word \in {13, 10, 3, 2, 1}
  <2> g = f
    BY <1>9 DEF handle_swap
  <2> HIDE DEF g
  <2> QED
    BY <1>9 DEF g
<1> QED
  BY <1>1, <1>2, <1>3, <1>4, <1>5, <1>6, <1>7, <1>8, <1>9

\* handle_swap, whose words are counted from the end of the arguments that a swap has.
LEMMA SwapReads ==
  ASSUME NEW item \in BatchItem, NEW f \in Fields, NEW k \in 0..12,
         Len(item.arguments) >= 9, SwapRead(item, k, f)
  PROVE  SwapRead(item, k + 1, handle_swap(f, 13 - k, ItemDataWord(item, k + 1)))
<1> DEFINE param == ItemDataWord(item, k + 1)
           g == handle_swap(f, 13 - k, param)
           mode == LowByteOf(item.arguments[7])
<1>1. /\ g.sub_account_1 = IF k = 1 THEN LowByteIn(param) ELSE f.sub_account_1
      /\ g.sub_account_2 = IF k = 2 THEN LowByteIn(param) ELSE f.sub_account_2
      /\ g.address_2 = IF k = 4 THEN AddressHead(f.address_2, param)
                       ELSE IF k = 5 THEN AddressTail(f.address_2, param)
                       ELSE f.address_2
      /\ g.address_3 = IF k = 5 THEN AddressHead(f.address_3, param)
                       ELSE IF k = 6 THEN AddressTail(f.address_3, param)
                       ELSE f.address_3
      /\ g.swap_mode = IF k = 7 THEN LowByteIn(param) ELSE f.swap_mode
      /\ g.amount = IF \/ k = 7 /\ LowByteIn(param) # 0
                       \/ k = 8 /\ f.swap_mode = 0
                    THEN AmountHead(f.amount, param)
                    ELSE IF k = 8 \/ (k = 9 /\ f.swap_mode = 0)
                    THEN AmountTail(f.amount, param)
                    ELSE f.amount
  <2> HIDE DEF param
  <2> 13 - k \in 1..13
    OBVIOUS
  <2> QED
    BY SwapWrites
<1>2. Len(item.arguments) \in Nat
  BY DEF BatchItem
<1>3. ASSUME k + 1 <= Len(item.arguments)
      PROVE  \A dst : /\ HeadOfAddress(AddressHead(dst, param), item.arguments[k + 1])
                      /\ HeadOfAmount(AmountHead(dst, param), item.arguments[k + 1])
  <2> k + 1 \in 1..Len(item.arguments)
    BY <1>2, <1>3
  <2> QED
    BY HeadCopied
<1>4. ASSUME k >= 1, k <= Len(item.arguments)
      PROVE  /\ LowByteIn(param) = LowByteOf(item.arguments[k])
             /\ \A dst \in Address :
                  HeadOfAddress(dst, item.arguments[k])
                    => AddressTail(dst, param) = AddressIn(item.arguments[k])
             /\ \A dst \in Word :
                  HeadOfAmount(dst, item.arguments[k])
                    => AmountTail(dst, param) = item.arguments[k]
  <2> k \in 1..Len(item.arguments)
    BY <1>2, <1>4
  <2> QED
    BY TailCopied
<1>5. /\ f.address_2 \in Address /\ f.address_3 \in Address /\ f.amount \in Word
  BY FieldTypes
<1> HIDE DEF param, g, mode
<1>6. /\ k + 1 >= 2 => g.sub_account_1 = LowByteOf(item.arguments[1])
      /\ k + 1 >= 3 => g.sub_account_2 = LowByteOf(item.arguments[2])
  BY <1>1, <1>4 DEF SwapRead
<1>7. k + 1 >= 5 => HeadOfAddress(g.address_2, item.arguments[5])
  <2>1. CASE k = 4
    BY <1>1, <1>3, <2>1
  <2>2. CASE k = 5
    BY <1>1, <1>4, <1>5, <2>2 DEF SwapRead, HeadOfAddress
  <2>3. CASE k >= 6
    BY <1>1, <2>3 DEF SwapRead
  <2> QED
    BY <2>1, <2>2, <2>3
<1>8. k + 1 >= 6 => g.address_2 = AddressIn(item.arguments[5])
  <2>1. CASE k = 5
    BY <1>1, <1>4, <1>5, <2>1 DEF SwapRead
  <2>2. CASE k >= 6
    BY <1>1, <2>2 DEF SwapRead
  <2> QED
    BY <2>1, <2>2
<1>9. k + 1 >= 6 => HeadOfAddress(g.address_3, item.arguments[6])
  <2>1. CASE k = 5
    BY <1>1, <1>3, <2>1
  <2>2. CASE k = 6
    BY <1>1, <1>4, <1>5, <2>2 DEF SwapRead, HeadOfAddress
  <2>3. CASE k >= 7
    BY <1>1, <2>3 DEF SwapRead
  <2> QED
    BY <2>1, <2>2, <2>3
<1>10. k + 1 >= 7 => g.address_3 = AddressIn(item.arguments[6])
  <2>1. CASE k = 6
    BY <1>1, <1>4, <1>5, <2>1 DEF SwapRead
  <2>2. CASE k >= 7
    BY <1>1, <2>2 DEF SwapRead
  <2> QED
    BY <2>1, <2>2
<1>11. k + 1 >= 8 => g.swap_mode = mode
  <2>1. CASE k = 7
    BY <1>1, <1>4, <2>1 DEF mode
  <2>2. CASE k >= 8
    BY <1>1, <2>2 DEF SwapRead, mode
  <2> QED
    BY <2>1, <2>2
<1>12. k >= 8 => f.swap_mode = mode
  BY DEF SwapRead, mode
<1>13. ASSUME mode # 0
       PROVE  /\ k + 1 >= 8 => HeadOfAmount(g.amount, item.arguments[8])
              /\ k + 1 >= 9 => g.amount = item.arguments[8]
  <2>1. CASE k = 7
    BY <1>1, <1>3, <1>4, <1>13, <2>1 DEF mode
  <2>2. CASE k = 8
    <3>1. f.amount \in Word /\ HeadOfAmount(f.amount, item.arguments[8])
      BY <1>5, <1>13, <2>2 DEF SwapRead, mode
    <3>2. AmountTail(f.amount, param) = item.arguments[8]
      BY <1>4, <2>2, <3>1
    <3>3. g.amount = item.arguments[8]
      BY <1>1, <1>12, <1>13, <2>2, <3>2
    <3> QED
      BY <2>2, <3>3 DEF HeadOfAmount
  <2>3. CASE k >= 9
    <3>1. f.amount = item.arguments[8]
      BY <1>13, <2>3 DEF SwapRead, mode
    <3>2. g.amount = item.arguments[8]
      BY <1>1, <1>12, <1>13, <2>3, <3>1
    <3> QED
      BY <3>2 DEF HeadOfAmount
  <2> QED
    BY <2>1, <2>2, <2>3
<1>14. ASSUME mode = 0
       PROVE  /\ k + 1 >= 9 => HeadOfAmount(g.amount, item.arguments[9])
              /\ k + 1 >= 10 => g.amount = item.arguments[9]
  <2>1. CASE k = 8
    BY <1>1, <1>3, <1>12, <1>14, <2>1
  <2>2. CASE k = 9
    <3>1. f.amount \in Word /\ HeadOfAmount(f.amount, item.arguments[9])
      BY <1>5, <1>14, <2>2 DEF SwapRead, mode
    <3>2. AmountTail(f.amount, param) = item.arguments[9]
      BY <1>4, <2>2, <3>1
    <3>3. g.amount = item.arguments[9]
      BY <1>1, <1>12, <1>14, <2>2, <3>2
    <3> QED
      BY <2>2, <3>3 DEF HeadOfAmount
  <2>3. CASE k >= 10
    <3>1. f.amount = item.arguments[9]
      BY <1>14, <2>3 DEF SwapRead, mode
    <3>2. g.amount = item.arguments[9]
      BY <1>1, <2>3, <3>1
    <3> QED
      BY <3>2 DEF HeadOfAmount
  <2> QED
    BY <2>1, <2>2, <2>3
<1>15. SwapRead(item, k + 1, g)
  BY <1>6, <1>7, <1>8, <1>9, <1>10, <1>11, <1>13, <1>14 DEF SwapRead, mode
<1> QED
  BY <1>15 DEF g, param

\* Which word of a swap with repayment goes to which field.
LEMMA SwapAndRepayWrites ==
  ASSUME NEW f \in Fields, NEW word \in 1..14, NEW param
  PROVE  LET g == handle_swap_and_repay(f, word, param)
         IN  /\ g.sub_account_1 = IF word = 13 THEN LowByteIn(param) ELSE f.sub_account_1
             /\ g.sub_account_2 = IF word = 12 THEN LowByteIn(param) ELSE f.sub_account_2
             /\ g.address_2 = IF word = 9 THEN AddressHead(f.address_2, param)
                              ELSE IF word = 8 THEN AddressTail(f.address_2, param)
                              ELSE f.address_2
             /\ g.address_3 = IF word = 8 THEN AddressHead(f.address_3, param)
                              ELSE IF word = 7 THEN AddressTail(f.address_3, param)
                              ELSE f.address_3
             /\ g.amount = IF word = 6 THEN AmountHead(f.amount, param)
                           ELSE IF word = 5 THEN AmountTail(f.amount, param)
                           ELSE f.amount
<1> DEFINE g == handle_swap_and_repay(f, word, param)
<1>1. CASE word = 13
  <2> g = [f EXCEPT !.sub_account_1 = LowByteIn(param)]
    BY <1>1 DEF handle_swap_and_repay
  <2> HIDE DEF g
  <2> QED
    BY <1>1 DEF Fields, g
<1>2. CASE word = 12
  <2> g = [f EXCEPT !.sub_account_2 = LowByteIn(param)]
    BY <1>2 DEF handle_swap_and_repay
  <2> HIDE DEF g
  <2> QED
    BY <1>2 DEF Fields, g
<1>3. CASE word = 9
  <2> g = [f EXCEPT !.address_2 = AddressHead(f.address_2, param)]
    BY <1>3 DEF handle_swap_and_repay
  <2> HIDE DEF g
  <2> QED
    BY <1>3 DEF Fields, g
<1>4. CASE word = 8
  <2> g = [f EXCEPT !.address_2 = AddressTail(f.address_2, param),
                    !.address_3 = AddressHead(f.address_3, param)]
    BY <1>4 DEF handle_swap_and_repay
  <2> HIDE DEF g
  <2> QED
    BY <1>4 DEF Fields, g
<1>5. CASE word = 7
  <2> g = [f EXCEPT !.address_3 = AddressTail(f.address_3, param)]
    BY <1>5 DEF handle_swap_and_repay
  <2> HIDE DEF g
  <2> QED
    BY <1>5 DEF Fields, g
<1>6. CASE word = 6
  <2> g = [f EXCEPT !.amount = AmountHead(f.amount, param)]
    BY <1>6 DEF handle_swap_and_repay
  <2> HIDE DEF g
  <2> QED
    BY <1>6 DEF Fields, g
<1>7. CASE word = 5
  <2> g = [f EXCEPT !.amount = AmountTail(f.amount, param)]
    BY <1>7 DEF handle_swap_and_repay
  <2> HIDE DEF g
  <2> QED
    BY <1>7 DEF Fields, g
<1>8. CASE word \in {14, 11, 10, 4, 3, 2, 1}
  <2> g = f
    BY <1>8 DEF handle_swap_and_repay
  <2> HIDE DEF g
  <2> QED
    BY <1>8 DEF g
<1> QED
  BY <1>1, <1>2, <1>3, <1>4, <1>5, <1>6, <1>7, <1>8

\* handle_swap_and_repay.
LEMMA SwapAndRepayReads ==
  ASSUME NEW item \in BatchItem, NEW f \in Fields, NEW k \in 0..13,
         Len(item.arguments) >= 9, SwapAndRepayRead(item, k, f)
  PROVE  SwapAndRepayRead(item, k + 1,
                          handle_swap_and_repay(f, 14 - k, ItemDataWord(item, k + 1)))
<1> DEFINE param == ItemDataWord(item, k + 1)
           g == handle_swap_and_repay(f, 14 - k, param)
<1>1. /\ g.sub_account_1 = IF k = 1 THEN LowByteIn(param) ELSE f.sub_account_1
      /\ g.sub_account_2 = IF k = 2 THEN LowByteIn(param) ELSE f.sub_account_2
      /\ g.address_2 = IF k = 5 THEN AddressHead(f.address_2, param)
                       ELSE IF k = 6 THEN AddressTail(f.address_2, param)
                       ELSE f.address_2
      /\ g.address_3 = IF k = 6 THEN AddressHead(f.address_3, param)
                       ELSE IF k = 7 THEN AddressTail(f.address_3, param)
                       ELSE f.address_3
      /\ g.amount = IF k = 8 THEN AmountHead(f.amount, param)
                    ELSE IF k = 9 THEN AmountTail(f.amount, param)
                    ELSE f.amount
  <2> HIDE DEF param
  <2> 14 - k \in 1..14
    OBVIOUS
  <2> QED
    BY SwapAndRepayWrites
<1>2. Len(item.arguments) \in Nat
  BY DEF BatchItem
<1>3. ASSUME k + 1 <= Len(item.arguments)
      PROVE  \A dst : /\ HeadOfAddress(AddressHead(dst, param), item.arguments[k + 1])
                      /\ HeadOfAmount(AmountHead(dst, param), item.arguments[k + 1])
  <2> k + 1 \in 1..Len(item.arguments)
    BY <1>2, <1>3
  <2> QED
    BY HeadCopied
<1>4. ASSUME k >= 1, k <= Len(item.arguments)
      PROVE  /\ LowByteIn(param) = LowByteOf(item.arguments[k])
             /\ \A dst \in Address :
                  HeadOfAddress(dst, item.arguments[k])
                    => AddressTail(dst, param) = AddressIn(item.arguments[k])
             /\ \A dst \in Word :
                  HeadOfAmount(dst, item.arguments[k])
                    => AmountTail(dst, param) = item.arguments[k]
  <2> k \in 1..Len(item.arguments)
    BY <1>2, <1>4
  <2> QED
    BY TailCopied
<1>5. /\ f.address_2 \in Address /\ f.address_3 \in Address /\ f.amount \in Word
  BY FieldTypes
<1> HIDE DEF param, g
<1>6. /\ k + 1 >= 2 => g.sub_account_1 = LowByteOf(item.arguments[1])
      /\ k + 1 >= 3 => g.sub_account_2 = LowByteOf(item.arguments[2])
  BY <1>1, <1>4 DEF SwapAndRepayRead
<1>7. k + 1 >= 6 => HeadOfAddress(g.address_2, item.arguments[6])
  <2>1. CASE k = 5
    BY <1>1, <1>3, <2>1
  <2>2. CASE k = 6
    BY <1>1, <1>4, <1>5, <2>2 DEF SwapAndRepayRead, HeadOfAddress
  <2>3. CASE k >= 7
    BY <1>1, <2>3 DEF SwapAndRepayRead
  <2> QED
    BY <2>1, <2>2, <2>3
<1>8. k + 1 >= 7 => g.address_2 = AddressIn(item.arguments[6])
  <2>1. CASE k = 6
    BY <1>1, <1>4, <1>5, <2>1 DEF SwapAndRepayRead
  <2>2. CASE k >= 7
    BY <1>1, <2>2 DEF SwapAndRepayRead
  <2> QED
    BY <2>1, <2>2
<1>9. k + 1 >= 7 => HeadOfAddress(g.address_3, item.arguments[7])
  <2>1. CASE k = 6
    BY <1>1, <1>3, <2>1
  <2>2. CASE k = 7
    BY <1>1, <1>4, <1>5, <2>2 DEF SwapAndRepayRead, HeadOfAddress
  <2>3. CASE k >= 8
    BY <1>1, <2>3 DEF SwapAndRepayRead
  <2> QED
    BY <2>1, <2>2, <2>3
<1>10. k + 1 >= 8 => g.address_3 = AddressIn(item.arguments[7])
  <2>1. CASE k = 7
    BY <1>1, <1>4, <1>5, <2>1 DEF SwapAndRepayRead
  <2>2. CASE k >= 8
    BY <1>1, <2>2 DEF SwapAndRepayRead
  <2> QED
    BY <2>1, <2>2
<1>11. k + 1 >= 9 => HeadOfAmount(g.amount, item.arguments[9])
  <2>1. CASE k = 8
    BY <1>1, <1>3, <2>1
  <2>2. CASE k = 9
    BY <1>1, <1>4, <1>5, <2>2 DEF SwapAndRepayRead, HeadOfAmount
  <2>3. CASE k >= 10
    BY <1>1, <2>3 DEF SwapAndRepayRead
  <2> QED
    BY <2>1, <2>2, <2>3
<1>12. k + 1 >= 10 => g.amount = item.arguments[9]
  <2>1. CASE k = 9
    BY <1>1, <1>4, <1>5, <2>1 DEF SwapAndRepayRead
  <2>2. CASE k >= 10
    BY <1>1, <2>2 DEF SwapAndRepayRead
  <2> QED
    BY <2>1, <2>2
<1>13. SwapAndRepayRead(item, k + 1, g)
  BY <1>6, <1>7, <1>8, <1>9, <1>10, <1>11, <1>12 DEF SwapAndRepayRead
<1> QED
  BY <1>13 DEF g, param

-----------------------------------------------------------------------------
(***************************************************************************)
(* One word of the only item, through its handler.                         *)
(***************************************************************************)

\* How many words a handler takes of a whole item.
LEMMA WordsOfWholeItem ==
  ASSUME NEW item \in BatchItem, IsWhole(item), item.type \in HandledTypes
  PROVE  /\ WordsTaken(item) \in Nat /\ WordsTaken(item) >= 2
         /\ WordsTaken(item) <= ArgumentCount(item) + 1
         /\ item.type \in MarketTypes \union AmountTypes \union {"TRANSFER"} =>
              WordsTaken(item) = 3
         /\ item.type = "TRANSFER_FROM" => WordsTaken(item) = 4
         /\ item.type = "SWAP" => WordsTaken(item) = 13
         /\ item.type = "SWAP_AND_REPAY" => WordsTaken(item) = 14
<1>1. /\ Len(item.arguments) \in Nat /\ item.payload \in Nat
      /\ ArgumentCount(item) = Len(item.arguments) + item.payload
  BY DEF BatchItem, ArgumentCount
<1>2. CASE item.type \in MarketTypes \union AmountTypes \union {"TRANSFER"}
  <2>1. WordsTaken(item) = ArgumentCount(item) + 1
    BY <1>2 DEF WordsTaken, MarketTypes, AmountTypes
  <2>2. Len(item.arguments) = 2 /\ item.payload = 0
    BY <1>2 DEF IsWhole
  <2> QED
    BY <1>1, <1>2, <2>1, <2>2 DEF MarketTypes, AmountTypes
<1>3. CASE item.type = "TRANSFER_FROM"
  <2>1. WordsTaken(item) = ArgumentCount(item) + 1
    BY <1>3 DEF WordsTaken
  <2>2. Len(item.arguments) = 3 /\ item.payload = 0
    BY <1>3 DEF IsWhole
  <2> QED
    BY <1>1, <1>3, <2>1, <2>2 DEF MarketTypes, AmountTypes
<1>4. CASE item.type \in PermitTypes
  <2>1. WordsTaken(item) = ArgumentCount(item) + 1
    BY <1>4 DEF WordsTaken, PermitTypes
  <2>2. Len(item.arguments) >= 1
    BY <1>4 DEF IsWhole
  <2> QED
    BY <1>1, <1>4, <2>1, <2>2 DEF PermitTypes, MarketTypes, AmountTypes
<1>5. CASE item.type = "SWAP"
  <2>1. WordsTaken(item) = 13
    BY <1>5 DEF WordsTaken
  <2>2. ArgumentCount(item) >= 12
    BY <1>5 DEF IsWhole
  <2> QED
    BY <1>1, <1>5, <2>1, <2>2 DEF MarketTypes, AmountTypes
<1>6. CASE item.type = "SWAP_AND_REPAY"
  <2>1. WordsTaken(item) = 14
    BY <1>6 DEF WordsTaken
  <2>2. ArgumentCount(item) >= 13
    BY <1>6 DEF IsWhole
  <2> QED
    BY <1>1, <1>6, <2>1, <2>2 DEF MarketTypes, AmountTypes
<1> QED
  BY <1>2, <1>3, <1>4, <1>5, <1>6 DEF HandledTypes

\* A handler that counts words makes of the fields what the next word of the item's
\* data says.
LEMMA HandlerFieldsRead ==
  ASSUME NEW item \in BatchItem, IsWhole(item), item.type \in HandledTypes \ PermitTypes,
         NEW f \in Fields, NEW k \in 0..WordsTaken(item) - 1, ArgumentsRead(item, k, f)
  PROVE  ArgumentsRead(item, k + 1,
           HandlerFields(item.type, f, WordsTaken(item) - k, ItemDataWord(item, k + 1)))
<1> DEFINE param == ItemDataWord(item, k + 1)
           word  == WordsTaken(item) - k
<1>1. CASE item.type \in MarketTypes
  <2>1. WordsTaken(item) = 3 /\ Len(item.arguments) = 2
    BY <1>1, WordsOfWholeItem DEF IsWhole
  <2>2. MarketRead(item, k, f)
    BY <1>1 DEF ArgumentsRead
  <2>3. MarketRead(item, k + 1, handle_enter_market(f, 3 - k, param))
    BY <2>1, <2>2, MarketReads
  <2>4. HandlerFields(item.type, f, word, param) = handle_enter_market(f, 3 - k, param)
    BY <1>1, <2>1 DEF HandlerFields, MarketTypes, PermitTypes, AmountTypes
  <2> HIDE DEF param
  <2> QED
    BY <1>1, <2>3, <2>4
       DEF ArgumentsRead, MarketTypes, PermitTypes, AmountTypes, param
<1>2. CASE item.type \in AmountTypes
  <2>1. WordsTaken(item) = 3 /\ Len(item.arguments) = 2
    BY <1>2, WordsOfWholeItem DEF IsWhole
  <2>2. AmountRead(item, k, f)
    BY <1>2 DEF ArgumentsRead
  <2>3. AmountRead(item, k + 1, handle_deposit(f, 3 - k, param))
    BY <2>1, <2>2, AmountReads
  <2>4. HandlerFields(item.type, f, word, param) = handle_deposit(f, 3 - k, param)
    BY <1>2, <2>1 DEF HandlerFields, MarketTypes, PermitTypes, AmountTypes
  <2> HIDE DEF param
  <2> QED
    BY <1>2, <2>3, <2>4
       DEF ArgumentsRead, MarketTypes, PermitTypes, AmountTypes, param
<1>3. CASE item.type = "TRANSFER"
  <2>1. WordsTaken(item) = 3 /\ Len(item.arguments) = 2
    BY <1>3, WordsOfWholeItem DEF IsWhole
  <2>2. TransferRead(item, k, f)
    BY <1>3 DEF ArgumentsRead
  <2>3. TransferRead(item, k + 1, handle_transfer(f, 3 - k, param))
    BY <2>1, <2>2, TransferReads
  <2>4. HandlerFields(item.type, f, word, param) = handle_transfer(f, 3 - k, param)
    BY <1>3, <2>1 DEF HandlerFields, MarketTypes, PermitTypes, AmountTypes
  <2> HIDE DEF param
  <2> QED
    BY <1>3, <2>3, <2>4
       DEF ArgumentsRead, MarketTypes, PermitTypes, AmountTypes, param
<1>4. CASE item.type = "TRANSFER_FROM"
  <2>1. WordsTaken(item) = 4 /\ Len(item.arguments) = 3
    BY <1>4, WordsOfWholeItem DEF IsWhole
  <2>2. TransferFromRead(item, k, f)
    BY <1>4 DEF ArgumentsRead
  <2>3. TransferFromRead(item, k + 1, handle_transfer_from(f, 4 - k, param))
    BY <2>1, <2>2, TransferFromReads
  <2>4. HandlerFields(item.type, f, word, param) = handle_transfer_from(f, 4 - k, param)
    BY <1>4, <2>1 DEF HandlerFields, MarketTypes, PermitTypes, AmountTypes
  <2> HIDE DEF param
  <2> QED
    BY <1>4, <2>3, <2>4
       DEF ArgumentsRead, MarketTypes, PermitTypes, AmountTypes, param
<1>5. CASE item.type = "SWAP"
  <2>1. WordsTaken(item) = 13 /\ Len(item.arguments) >= 9
    BY <1>5, WordsOfWholeItem DEF IsWhole
  <2>2. SwapRead(item, k, f)
    BY <1>5 DEF ArgumentsRead
  <2>3. SwapRead(item, k + 1, handle_swap(f, 13 - k, param))
    BY <2>1, <2>2, SwapReads
  <2>4. HandlerFields(item.type, f, word, param) = handle_swap(f, 13 - k, param)
    BY <1>5, <2>1 DEF HandlerFields, MarketTypes, PermitTypes, AmountTypes
  <2> HIDE DEF param
  <2> QED
    BY <1>5, <2>3, <2>4
       DEF ArgumentsRead, MarketTypes, PermitTypes, AmountTypes, param
<1>6. CASE item.type = "SWAP_AND_REPAY"
  <2>1. WordsTaken(item) = 14 /\ Len(item.arguments) >= 9
    BY <1>6, WordsOfWholeItem DEF IsWhole
  <2>2. SwapAndRepayRead(item, k, f)
    BY <1>6 DEF ArgumentsRead
  <2>3. SwapAndRepayRead(item, k + 1, handle_swap_and_repay(f, 14 - k, param))
    BY <2>1, <2>2, SwapAndRepayReads
  <2>4. HandlerFields(item.type, f, word, param) = handle_swap_and_repay(f, 14 - k, param)
    BY <1>6, <2>1 DEF HandlerFields, MarketTypes, PermitTypes, AmountTypes
  <2> HIDE DEF param
  <2> QED
    BY <1>6, <2>3, <2>4
       DEF ArgumentsRead, MarketTypes, PermitTypes, AmountTypes, param
<1> QED
  BY <1>1, <1>2, <1>3, <1>4, <1>5, <1>6 DEF HandledTypes

\* One call of the handler of the only item, with the words it has left to take: it
\* ends the item with all its arguments read, or is ready for the next word.
LEMMA CallReads ==
  ASSUME NEW item \in BatchItem, IsWhole(item), item.type \in HandledTypes,
         NEW f \in Fields, NEW k \in 0..WordsTaken(item) - 1, ArgumentsRead(item, k, f)
  PROVE  LET call == CallHandler(item.type, f, PARAMETER_LENGTH * (WordsTaken(item) - k),
                                 ItemDataWord(item, k + 1))
         IN  /\ call.done => ArgumentsRead(item, WordsTaken(item), call.fields)
             /\ ~call.done => /\ k + 1 < WordsTaken(item)
                              /\ ArgumentsRead(item, k + 1, call.fields)
                              /\ call.length
                                   = PARAMETER_LENGTH * (WordsTaken(item) - (k + 1))
<1> DEFINE taken  == WordsTaken(item)
           length == PARAMETER_LENGTH * (taken - k)
           param  == ItemDataWord(item, k + 1)
           call   == CallHandler(item.type, f, length, param)
<1>1. taken \in Nat /\ k \in Nat /\ k < taken /\ taken >= 2
  BY WordsOfWholeItem
<1>2. pre_handle(length) /\ length \div 32 = taken - k /\ length \in Nat
  <2> HIDE DEF taken
  <2>1. taken - k \in Nat /\ taken - k >= 1
    BY <1>1
  <2>2. \A x \in Nat : (32 * x) % 32 = 0 /\ (32 * x) \div 32 = x
    OBVIOUS
  <2> QED
    BY <2>1, <2>2 DEF pre_handle, PARAMETER_LENGTH
<1> HIDE DEF taken, param
<1>3. /\ post_handle(length).length = PARAMETER_LENGTH * (taken - (k + 1))
      /\ post_handle(length).done <=> k + 1 = taken
  <2>1. length - PARAMETER_LENGTH = PARAMETER_LENGTH * (taken - (k + 1))
    BY <1>1 DEF PARAMETER_LENGTH
  <2>2. PARAMETER_LENGTH * (taken - (k + 1)) < PARAMETER_LENGTH <=> k + 1 = taken
    BY <1>1 DEF PARAMETER_LENGTH
  <2> HIDE DEF length
  <2> QED
    BY <2>1, <2>2 DEF post_handle
<1>4. CASE item.type \notin PermitTypes
  <2>1. ~HandlerGivesUp(item.type, f, length)
    BY <1>2, <1>4 DEF HandlerGivesUp
  <2>2. (taken - k) % UINT8 = taken - k
    <3>1. taken <= 14
      BY <1>4, WordsOfWholeItem DEF HandledTypes, taken
    <3> QED
      BY <1>1, <3>1 DEF UINT8
  <2>3. /\ call.fields = HandlerFields(item.type, f, taken - k, param)
        /\ call.length = post_handle(length).length
        /\ call.done <=> post_handle(length).done
    <3> HIDE DEF length
    <3> QED
      BY <1>2, <2>1, <2>2 DEF CallHandler, PARAMETER_LENGTH
  <2>4. ArgumentsRead(item, k + 1, call.fields)
    <3>1. ArgumentsRead(item, k + 1, HandlerFields(item.type, f, taken - k, param))
      BY <1>4, HandlerFieldsRead DEF taken, param
    <3> HIDE DEF call
    <3> QED
      BY <2>3, <3>1
  <2> HIDE DEF call
  <2>5. call.done => ArgumentsRead(item, taken, call.fields)
    <3> SUFFICES ASSUME call.done
                 PROVE  ArgumentsRead(item, taken, call.fields)
      OBVIOUS
    <3> k + 1 = taken
      BY <1>3, <2>3
    <3> QED
      BY <2>4
  <2>6. ~call.done => k + 1 < taken
    BY <1>1, <1>3, <2>3
  <2> QED
    BY <1>3, <2>3, <2>4, <2>5, <2>6 DEF taken, call, param
<1>5. CASE item.type \in PermitTypes
  <2>0. /\ \A j : ArgumentsRead(item, j, f) <=> PermitRead(item, j, f)
        /\ \A j, g : ArgumentsRead(item, j, g) <=> PermitRead(item, j, g)
    BY <1>5 DEF ArgumentsRead, MarketTypes, PermitTypes, AmountTypes
  <2>1. CASE k >= 2
    <3>1. f.address_2 = AddressIn(item.arguments[1])
      BY <1>1, <2>0, <2>1 DEF PermitRead
    <3>2. f.address_2[1] # 0 /\ f.address_2[5] # 0
      BY <1>5, <3>1 DEF IsWhole
    <3>3. HandlerGivesUp(item.type, f, length)
      BY <1>5, <3>2 DEF HandlerGivesUp, PermitHeadMissing, PermitTailMissing
    <3>4. call = [fields |-> f, length |-> length, done |-> TRUE]
      BY <3>3 DEF CallHandler
    <3>5. PermitRead(item, taken, f)
      BY <1>1, <3>1 DEF PermitRead
    <3> QED
      BY <2>0, <3>4, <3>5 DEF taken, param
  <2>2. CASE k < 2
    <3>1. PermitHeadMissing(f) \/ PermitTailMissing(f)
      <4>1. k = 0 => f.address_2 = ZeroAddress
        BY <2>0 DEF PermitRead
      <4>2. k = 1 => f.address_2[5] = 0
        BY <2>0 DEF PermitRead
      <4> QED
        BY <1>1, <2>2, <4>1, <4>2 DEF PermitHeadMissing, PermitTailMissing, ZeroAddress
    <3>2. ~HandlerGivesUp(item.type, f, length)
      BY <1>2, <3>1 DEF HandlerGivesUp
    <3>3. /\ call.fields = handle_use_permit(f, param)
          /\ call.length = post_handle(length).length
          /\ call.done <=> post_handle(length).done
      <4>1. \A word : HandlerFields(item.type, f, word, param) = handle_use_permit(f, param)
        BY <1>5 DEF HandlerFields, MarketTypes, PermitTypes, AmountTypes
      <4> HIDE DEF length
      <4> QED
        BY <3>2, <4>1 DEF CallHandler
    <3>4. PermitRead(item, k + 1, handle_use_permit(f, param))
      <4>1. k \in 0..1
        BY <1>1, <2>2
      <4>2. Len(item.arguments) >= 1 /\ AddressIn(item.arguments[1])[1] # 0
        BY <1>5 DEF IsWhole
      <4> QED
        BY <2>0, <4>1, <4>2, PermitReads DEF param
    <3> HIDE DEF call
    <3>5. ArgumentsRead(item, k + 1, call.fields)
      BY <2>0, <3>3, <3>4
    <3>6. call.done => ArgumentsRead(item, taken, call.fields)
      <4> SUFFICES ASSUME call.done
                   PROVE  ArgumentsRead(item, taken, call.fields)
        OBVIOUS
      <4> k + 1 = taken
        BY <1>3, <3>3
      <4> QED
        BY <3>5
    <3>7. ~call.done => k + 1 < taken
      BY <1>1, <1>3, <3>3
    <3> QED
      BY <1>3, <3>3, <3>5, <3>6, <3>7 DEF taken, call, param
  <2> QED
    BY <1>1, <2>1, <2>2
<1> QED
  BY <1>4, <1>5

-----------------------------------------------------------------------------
(***************************************************************************)
(* The only item in the parser.                                            *)
(***************************************************************************)

\* The batches of one item that has the arguments of its function.
Whole == {t \in Decodable : Len(Items(t)) = 1 /\ IsWhole(Items(t)[1])}

\* The words of the item's data that have gone by.
DataRead(t) == fieldIndex - (HeadOf(t, 1) + 4)

\* The fields before the item's data.
ProxyFields(item) == [ZeroFields EXCEPT !.address_1 = AddressIn(item.proxy)]

\* The fields hold what has been read of the only item, and the handler counts the
\* words to come.
OnlyItemRead(t) ==
  LET item == Items(t)[1]
  IN  /\ next_param \in {"BATCH_DISPATCH_ITEMS_OFFSET", "BATCH_DISPATCH_NUMBER_OF_ITEMS",
                         "BATCH_DISPATCH_ITEMS_OFFSETS", "BATCH_DISPATCH_ITEM_PROXY"}
           => fields = ZeroFields
      /\ (\/ next_param = "BATCH_DISPATCH_ITEM_LENGTH"
          \/ next_param = "BATCH_DISPATCH_ITEM" /\ item_handler = NULL)
           => fields = ProxyFields(item)
      /\ next_param = "BATCH_DISPATCH_ITEM" /\ item_handler # NULL =>
           /\ DataRead(t) \in 1..WordsTaken(item) - 1
           /\ item_length = PARAMETER_LENGTH * (WordsTaken(item) - DataRead(t))
           /\ ArgumentsRead(item, DataRead(t), fields)
      /\ next_param = "UNEXPECTED_PARAMETER"
           => ArgumentsRead(item, WordsTaken(item), fields)

\* The words of the only item.
LEMMA OnlyItemWords ==
  ASSUME NEW t \in Whole
  PROVE  LET item == Items(t)[1]
         IN  /\ t \in Decodable /\ Len(Items(t)) = 1
             /\ item \in BatchItem /\ IsWhole(item) /\ HeadOf(t, 1) = 4
             /\ \A k \in 1..ItemSize(item) : Words[t][4 + k] = ItemWord(item, k)
<1> DEFINE items    == Items(t)
           item     == items[1]
           deferred == Transactions[t].deferLiquidityChecks
<1>1. t \in Decodable /\ Len(items) = 1 /\ IsWhole(item)
  BY DEF Whole
<1>2. items \in Seq(BatchItem) /\ HeadOf(t, 1) = 3 + Len(items) /\ deferred \in Seq(Word)
  BY <1>1, HeadPlaces, TransactionsAssumption DEF Decodable
<1>3. HeadOf(t, 1) = 4 /\ item \in BatchItem
  <2>1. HeadOf(t, 1) = 4
    BY <1>1, <1>2
  <2>2. 1 \in 1..Len(items)
    BY <1>1
  <2>3. items[1] \in BatchItem
    BY <1>2, <2>2
  <2> QED
    BY <2>1, <2>3
<1>4. Words[t] = BatchWords(items, deferred)
  BY <1>1, WordsOfTransaction DEF CallData, Decodable, Items
<1>5. ASSUME NEW k \in 1..ItemSize(item)
      PROVE  Words[t][4 + k] = ItemWord(item, k)
  <2>1. 3 + ItemStart(items, 1) = 4
    BY <1>3 DEF HeadOf
  <2>2. 1 \in 1..Len(items)
    BY <1>1
  <2> HIDE DEF items, deferred
  <2>3. BatchWords(items, deferred)[3 + ItemStart(items, 1) + k] = ItemWord(items[1], k)
    BY <1>2, <2>2, BatchLayout
  <2> QED
    BY <1>4, <2>1, <2>3
<1> QED
  BY <1>1, <1>3, <1>5

\* Before its data nothing of the item's arguments has been read.
LEMMA NothingRead ==
  ASSUME NEW item \in BatchItem
  PROVE  ArgumentsRead(item, 0, ProxyFields(item))
<1>1. /\ ProxyFields(item).address_1 = AddressIn(item.proxy)
      /\ ProxyFields(item).address_2 = ZeroAddress
  BY DEF ProxyFields, ZeroFields
<1> QED
  BY <1>1 DEF ArgumentsRead, MarketRead, PermitRead, AmountRead, TransferRead,
              TransferFromRead, SwapRead, SwapAndRepayRead

\* The length of a whole item, in words with its selector as one, when its handler is
\* first called: rounded up for most, hardcoded for the swaps.
LEMMA LengthOfWholeItem ==
  ASSUME NEW item \in BatchItem, IsWhole(item), item.type \in HandledTypes, NEW param,
         ItemHandler(param) = item.type, item_length = ItemDataLength(item) % UINT16
  PROVE  /\ item_length > SELECTOR_SIZE
         /\ ItemLength(param) = PARAMETER_LENGTH * WordsTaken(item)
<1> DEFINE args  == ArgumentCount(item)
           taken == WordsTaken(item)
<1>1. args \in Nat /\ args >= 1 /\ taken \in Nat
  <2>1. args \in Nat
    BY ItemSizeType
  <2>2. taken \in Nat /\ taken >= 2 /\ taken <= args + 1
    BY WordsOfWholeItem
  <2> HIDE DEF args, taken
  <2> QED
    BY <2>1, <2>2
<1>2. item_length = 4 + 32 * args
  <2>1. ItemDataLength(item) = 4 + 32 * args
    BY DEF ItemDataLength, SELECTOR_SIZE, PARAMETER_LENGTH
  <2>2. ItemDataLength(item) < 65536
    BY DEF IsWhole, UINT16
  <2>3. item_length = ItemDataLength(item) % 65536
    BY DEF UINT16
  <2> HIDE DEF args
  <2>4. 4 + 32 * args \in Nat
    BY <1>1
  <2> QED
    BY <2>1, <2>2, <2>3, <2>4
<1>3. item_length >= PARAMETER_LENGTH /\ item_length % PARAMETER_LENGTH = SELECTOR_SIZE
  <2> HIDE DEF args
  <2>1. (4 + 32 * args) % 32 = 4
    BY <1>1
  <2> QED
    BY <1>1, <1>2, <2>1 DEF PARAMETER_LENGTH, SELECTOR_SIZE
<1>4. item_length > SELECTOR_SIZE
  <2> HIDE DEF args
  <2> QED
    BY <1>1, <1>2 DEF SELECTOR_SIZE
<1>5. CASE item.type = "SWAP"
  <2>1. ItemLength(param) = 416
    BY <1>3, <1>5 DEF ItemLength, SWAP_ITEM_LENGTH_WITHOUT_PAYLOAD_ALIGNED
  <2>2. taken = 13
    BY <1>5, WordsOfWholeItem
  <2> QED
    BY <1>4, <2>1, <2>2 DEF PARAMETER_LENGTH
<1>6. CASE item.type = "SWAP_AND_REPAY"
  <2>1. ItemLength(param) = 448
    BY <1>3, <1>6 DEF ItemLength, SWAP_AND_REPAY_ITEM_LENGTH_WITHOUT_PAYLOAD_ALIGNED
  <2>2. taken = 14
    BY <1>6, WordsOfWholeItem
  <2> QED
    BY <1>4, <2>1, <2>2 DEF PARAMETER_LENGTH
<1>7. CASE item.type \notin {"SWAP", "SWAP_AND_REPAY"}
  <2>1. ItemLength(param) = (item_length - SELECTOR_SIZE + PARAMETER_LENGTH) % UINT16
    BY <1>3, <1>7 DEF ItemLength
  <2>2. taken = args + 1
    BY <1>7 DEF WordsTaken
  <2>3. PARAMETER_LENGTH * taken < UINT16
    <3>1. CASE item.type \in PermitTypes
      BY <3>1 DEF IsWhole
    <3>2. CASE item.type \notin PermitTypes
      <4> taken <= 4
        BY <1>7, <3>2, WordsOfWholeItem DEF HandledTypes
      <4> HIDE DEF taken
      <4> QED
        BY <1>1 DEF PARAMETER_LENGTH, UINT16
    <3> QED
      BY <3>1, <3>2
  <2> HIDE DEF args, taken
  <2>4. ItemLength(param) = (32 * args + 32) % 65536
    <3> item_length - SELECTOR_SIZE + PARAMETER_LENGTH = 32 * args + 32
      BY <1>1, <1>2 DEF SELECTOR_SIZE, PARAMETER_LENGTH
    <3> QED
      BY <2>1 DEF UINT16
  <2>5. 32 * args + 32 = 32 * taken /\ 32 * taken < 65536 /\ 32 * args + 32 \in Nat
    BY <1>1, <2>2, <2>3 DEF PARAMETER_LENGTH, UINT16
  <2>6. ItemLength(param) = 32 * taken
    BY <2>4, <2>5
  <2> QED
    BY <1>4, <2>6 DEF PARAMETER_LENGTH, taken
<1> QED
  BY <1>5, <1>6, <1>7

\* The word the parser hands to the item's handler, and what comes of it.
LEMMA ItemRead ==
  ASSUME NEW t \in Whole, IInv, Follows(t), OnlyItemRead(t), AtWord("BATCH_DISPATCH_ITEM"),
         NEW param, param = Words[t][fieldIndex + 1]
  PROVE  LET item == Items(t)[1]
             read == DataRead(t)
             call == handle_item(param)
         IN  /\ read \in Nat
             /\ call.done => ArgumentsRead(item, WordsTaken(item), call.fields)
             /\ ~call.done =>
                  /\ read + 1 < WordsTaken(item) /\ WordsTaken(item) \in Nat
                  /\ ArgumentsRead(item, read + 1, call.fields)
                  /\ call.length = PARAMETER_LENGTH * (WordsTaken(item) - (read + 1))
<1> DEFINE item  == Items(t)[1]
           read  == DataRead(t)
           taken == WordsTaken(item)
<1>1. /\ t \in Decodable /\ Len(Items(t)) = 1 /\ item \in BatchItem /\ IsWhole(item)
      /\ HeadOf(t, 1) = 4
      /\ \A k \in 1..ItemSize(item) : Words[t][4 + k] = ItemWord(item, k)
  BY OnlyItemWords
<1>2. /\ AtItem /\ next_param = "BATCH_DISPATCH_ITEM" /\ batch_dispatch_number_of_items = 1
      /\ CurrentIndex = 0 /\ fieldIndex \in Nat
  <2>1. AtItem /\ next_param = "BATCH_DISPATCH_ITEM"
    BY <1>1, AtData
  <2>2. batch_dispatch_number_of_items = 1 /\ cnt \in 1..1 /\ CurrentIndex = 1 - cnt
    BY <1>1, <2>1, ItemHere
  <2> QED
    BY <2>1, <2>2, Numbers
<1>3. ItemTypeOf(ItemSelector(param)) = item.type
  <2>1. 0 + 1 = 1
    OBVIOUS
  <2> QED
    BY <1>1, <1>2, <2>1, ItemTyped
<1>4. read = fieldIndex - 8 /\ fieldIndex = read + 8
  BY <1>1, <1>2 DEF DataRead
<1>5. /\ item_handler = NULL =>
           read = 0 /\ item_length = ItemDataLength(item) % UINT16 /\ fields = ProxyFields(item)
      /\ item_handler # NULL =>
           /\ read \in 1..taken - 1 /\ item_length = PARAMETER_LENGTH * (taken - read)
           /\ ArgumentsRead(item, read, fields)
  <2>1. ASSUME item_handler = NULL
        PROVE  /\ read = 0 /\ item_length = ItemDataLength(item) % UINT16
               /\ fields = ProxyFields(item)
    <3>1. fieldIndex = HeadOf(t, 0 + 1) + 4 /\ item_length = ItemDataLength(Items(t)[0 + 1]) % UINT16
      BY <1>1, <1>2, <2>1, AtData
    <3>2. fields = ProxyFields(item)
      BY <1>2, <2>1 DEF OnlyItemRead
    <3> QED
      BY <1>1, <1>4, <3>1, <3>2
  <2>2. ASSUME item_handler # NULL
        PROVE  /\ read \in 1..taken - 1 /\ item_length = PARAMETER_LENGTH * (taken - read)
               /\ ArgumentsRead(item, read, fields)
    BY <1>2, <2>2 DEF OnlyItemRead
  <2> QED
    BY <2>1, <2>2
<1>6. CASE item.type = "UNEXPECTED_ITEM"
  <2>1. handle_item(param).done
    BY <1>3, <1>6 DEF handle_item, ReadsArguments
  <2>2. item_handler = NULL
    BY <1>1, <1>2, <1>6, AtData DEF HandledTypes, MarketTypes, PermitTypes, AmountTypes
  <2>3. \A f : ArgumentsRead(item, taken, f)
    BY <1>6 DEF ArgumentsRead, MarketTypes, PermitTypes, AmountTypes
  <2> QED
    BY <1>5, <2>1, <2>2, <2>3
<1>7. CASE item.type \in HandledTypes
  <2>1. item.type # "UNEXPECTED_ITEM" /\ item.type # NULL
    BY <1>7 DEF HandledTypes, MarketTypes, PermitTypes, AmountTypes, NULL
  <2>2. ItemHandler(param) = item.type
    BY <1>3, <2>1 DEF ItemHandler
  <2>3. taken \in Nat /\ taken >= 2 /\ taken <= ArgumentCount(item) + 1
    BY <1>1, <1>7, WordsOfWholeItem
  <2>4. /\ read \in 0..taken - 1 /\ ArgumentsRead(item, read, fields)
        /\ item_length > SELECTOR_SIZE
        /\ ItemLength(param) = PARAMETER_LENGTH * (taken - read)
    <3>1. CASE item_handler = NULL
      <4>1. item_length > SELECTOR_SIZE /\ ItemLength(param) = PARAMETER_LENGTH * taken
        BY <1>1, <1>5, <1>7, <2>2, <3>1, LengthOfWholeItem
      <4>2. read = 0 /\ ArgumentsRead(item, 0, fields)
        BY <1>1, <1>5, <3>1, NothingRead
      <4> HIDE DEF taken
      <4>3. taken - 0 = taken /\ 0 \in 0..taken - 1
        BY <2>3
      <4> QED
        BY <4>1, <4>2, <4>3
    <3>2. CASE item_handler # NULL
      <4>1. /\ read \in 1..taken - 1 /\ item_length = PARAMETER_LENGTH * (taken - read)
            /\ ArgumentsRead(item, read, fields)
        BY <1>5, <3>2
      <4> HIDE DEF taken, read
      <4>2. taken - read \in Nat /\ taken - read >= 1
        BY <2>3, <4>1
      <4>3. \A x \in Nat : x >= 1 => 32 * x > 4 /\ (32 * x) % 32 # 4
        OBVIOUS
      <4>4. item_length > SELECTOR_SIZE /\ item_length % PARAMETER_LENGTH # SELECTOR_SIZE
        BY <4>1, <4>2, <4>3 DEF PARAMETER_LENGTH, SELECTOR_SIZE
      <4>5. ItemLength(param) = item_length
        BY <4>4 DEF ItemLength
      <4>6. read \in 0..taken - 1
        BY <4>1
      <4> QED
        BY <4>1, <4>4, <4>5, <4>6
    <3> QED
      BY <3>1, <3>2
  <2>5. param = ItemDataWord(item, read + 1)
    <3>1. ItemSize(item) = 5 + ArgumentCount(item) /\ ArgumentCount(item) \in Nat
      BY <1>1, ItemSizeType DEF ItemSize
    <3> HIDE DEF taken, read
    <3>2. read + 5 \in 1..ItemSize(item) /\ fieldIndex + 1 = 4 + (read + 5)
      BY <1>4, <2>3, <2>4, <3>1
    <3>3. param = ItemWord(item, read + 5)
      BY <1>1, <3>2
    <3>4. read + 5 \notin {1, 2, 3, 4} /\ (read + 5) - 4 = read + 1
      BY <2>3, <2>4
    <3>5. ItemWord(item, read + 5) = ItemDataWord(item, (read + 5) - 4)
      BY <3>4 DEF ItemWord
    <3> QED
      BY <3>3, <3>4, <3>5
  <2>6. handle_item(param) = CallHandler(item.type, fields, PARAMETER_LENGTH * (taken - read),
                                         ItemDataWord(item, read + 1))
    <3>1. ReadsArguments(param)
      BY <1>2, <1>3, <2>1, <2>2, <2>4 DEF ReadsArguments
    <3> HIDE DEF taken, read, item
    <3> QED
      BY <2>2, <2>4, <2>5, <3>1 DEF handle_item
  <2>7. fields \in Fields
    BY DEF IInv, TypeOK
  <2>8. LET call == CallHandler(item.type, fields, PARAMETER_LENGTH * (taken - read),
                                ItemDataWord(item, read + 1))
        IN  /\ call.done => ArgumentsRead(item, taken, call.fields)
            /\ ~call.done => /\ read + 1 < taken
                             /\ ArgumentsRead(item, read + 1, call.fields)
                             /\ call.length = PARAMETER_LENGTH * (taken - (read + 1))
    BY <1>1, <1>7, <2>4, <2>7, CallReads
  <2>9. read \in Nat
    BY <2>3, <2>4
  <2> HIDE DEF taken, read
  <2> QED
    BY <2>3, <2>6, <2>8, <2>9 DEF taken, read
<1>8. item.type = "UNEXPECTED_ITEM" \/ item.type \in HandledTypes
  BY <1>1 DEF BatchItem
<1> QED
  BY <1>6, <1>7, <1>8

\* The proxy of the only item goes to the cleared address_1.
LEMMA ProxyRead ==
  ASSUME NEW t \in Whole, IInv, Follows(t), OnlyItemRead(t),
         ReadItemProxy(Words[t][fieldIndex + 1])
  PROVE  OnlyItemRead(t)'
<1> DEFINE item  == Items(t)[1]
           param == Words[t][fieldIndex + 1]
<1>1. /\ t \in Decodable /\ item \in BatchItem /\ HeadOf(t, 1) = 4
      /\ \A k \in 1..ItemSize(item) : Words[t][4 + k] = ItemWord(item, k)
      /\ ItemSize(item) >= 5 /\ ItemSize(item) \in Nat /\ Len(Items(t)) = 1
  BY OnlyItemWords, ItemSizeType
<1>2. /\ AtWord("BATCH_DISPATCH_ITEM_PROXY") /\ AtItem
      /\ next_param = "BATCH_DISPATCH_ITEM_PROXY"
  BY DEF ReadItemProxy, AtWord, AtItem
<1>3. CurrentIndex + 1 = 1
  <2> cnt \in 1..1 /\ CurrentIndex = 1 - cnt
    BY <1>1, <1>2, ItemHere
  <2> QED
    OBVIOUS
<1>4. fieldIndex = 5
  <2>1. Seeks(HeadOf(t, CurrentIndex + 1) + 1)
    BY <1>2 DEF Follows, InItem
  <2>2. Seeks(5)
    <3> HeadOf(t, CurrentIndex + 1) + 1 = 5
      BY <1>1, <1>3
    <3> QED
      BY <2>1
  <2> QED
    BY <1>2, <2>2, WordSought
<1>5. param = item.proxy
  <2>1. 2 \in 1..ItemSize(item) /\ fieldIndex + 1 = 4 + 2
    BY <1>1, <1>4
  <2>2. param = ItemWord(item, 2)
    BY <1>1, <2>1
  <2> QED
    BY <2>2 DEF ItemWord
<1>6. fields = ZeroFields
  BY <1>2 DEF OnlyItemRead
<1>7. copy_address(fields.address_1, param, 5) = AddressIn(item.proxy)
  <2>1. copy_address(fields.address_1, param, 5) = [i \in 1..5 |-> param[8 - 5 + i]]
    BY DEF copy_address
  <2>2. \A i \in 1..5 : 8 - 5 + i = i + 3
    OBVIOUS
  <2> QED
    BY <1>5, <2>1, <2>2 DEF AddressIn
<1>8. /\ fields' = ProxyFields(item)
      /\ next_param' = "BATCH_DISPATCH_ITEM_LENGTH"
  <2>1. fields' = [fields EXCEPT !.address_1 = copy_address(fields.address_1, param, 5)]
    BY DEF ReadItemProxy
  <2>2. next_param' = "BATCH_DISPATCH_ITEM_LENGTH"
    BY DEF ReadItemProxy, GoTo
  <2> QED
    BY <1>6, <1>7, <2>1, <2>2 DEF ProxyFields
<1> QED
  BY <1>8 DEF OnlyItemRead

\* A word of the only item's data.
LEMMA DataTaken ==
  ASSUME NEW t \in Whole, IInv, Follows(t), OnlyItemRead(t),
         \/ ReadItem(Words[t][fieldIndex + 1])
         \/ FinishItem(Words[t][fieldIndex + 1])
  PROVE  OnlyItemRead(t)'
<1> DEFINE item  == Items(t)[1]
           param == Words[t][fieldIndex + 1]
           call  == handle_item(param)
           read  == DataRead(t)
           taken == WordsTaken(item)
<1>1. AtWord("BATCH_DISPATCH_ITEM")
  BY DEF ReadItem, FinishItem
<1>2. /\ read \in Nat
      /\ call.done => ArgumentsRead(item, taken, call.fields)
      /\ ~call.done => /\ read + 1 < taken /\ taken \in Nat
                       /\ ArgumentsRead(item, read + 1, call.fields)
                       /\ call.length = PARAMETER_LENGTH * (taken - (read + 1))
  BY <1>1, ItemRead
<1>3. t \in Decodable /\ Len(Items(t)) = 1 /\ HeadOf(t, 1) = 4
  BY OnlyItemWords
<1>4. fieldIndex \in Nat /\ fieldIndex' = fieldIndex + 1
  BY <1>1, Numbers DEF AtWord, BatchWord, Provided
<1>5. DataRead(t)' = read + 1
  BY <1>3, <1>4 DEF DataRead
<1>6. CASE ReadItem(param)
  <2>1. /\ ~call.done /\ item_handler' = ItemHandler(param)
        /\ item_length' = call.length /\ fields' = call.fields
        /\ next_param' = "BATCH_DISPATCH_ITEM"
    BY <1>6 DEF ReadItem, Continue
  <2>2. ItemHandler(param) # NULL
    BY <1>1, <1>3, <2>1, HandlerGoesOn
  <2> HIDE DEF call, read, taken, item, param
  <2>3. read + 1 \in 1..taken - 1
    BY <1>2, <2>1
  <2>4. /\ DataRead(t)' \in 1..taken - 1
        /\ item_length' = PARAMETER_LENGTH * (taken - DataRead(t)')
        /\ ArgumentsRead(item, DataRead(t)', fields')
    BY <1>2, <1>5, <2>1, <2>3
  <2> QED
    BY <2>1, <2>2, <2>4 DEF OnlyItemRead, item, taken
<1>7. CASE FinishItem(param)
  <2>1. /\ call.done /\ fields' = call.fields
    BY <1>7 DEF FinishItem
  <2>2. next_param' = "UNEXPECTED_PARAMETER"
    <3>1. batch_dispatch_number_of_items = 1 /\ cnt = 1
      <4>1. AtItem
        BY <1>1, <1>3, AtData
      <4>2. batch_dispatch_number_of_items = 1 /\ cnt \in 1..1
        BY <1>3, <4>1, ItemHere
      <4> QED
        BY <4>2
    <3>2. cntLess = 0
      BY <3>1 DEF cntLess, UINT8
    <3> HIDE DEF call, param
    <3> QED
      BY <1>7, <3>2 DEF FinishItem, Continue
  <2> HIDE DEF call
  <2> QED
    BY <1>2, <2>1, <2>2 DEF OnlyItemRead
<1> QED
  BY <1>6, <1>7

\* Every word of a batch of one item is read into the fields as its item says.
LEMMA OnlyItemStep ==
  ASSUME NEW t \in Whole, IInv, Follows(t), OnlyItemRead(t),
         ProvideWord(Words[t][fieldIndex + 1])
  PROVE  OnlyItemRead(t)'
<1> DEFINE param == Words[t][fieldIndex + 1]
<1>1. t \in Decodable /\ Len(Items(t)) = 1
  BY OnlyItemWords
<1>2. CASE SkipWord
  <2>1. go_to_offset /\ UNCHANGED <<next_param, fields, item_handler>>
    BY <1>2 DEF SkipWord, itemVars
  <2>2. next_param # "BATCH_DISPATCH_ITEM"
    BY <2>1 DEF Follows, InItem, AtItem
  <2> QED
    BY <2>1, <2>2 DEF OnlyItemRead
<1>3. CASE MissGoal
  BY <1>1, <1>3, NothingMissed
<1>4. CASE IgnoreWord
  <2> next_param = "UNEXPECTED_PARAMETER" /\ UNCHANGED <<next_param, fields>>
    BY <1>4 DEF IgnoreWord, AtWord, Continue
  <2> QED
    BY DEF OnlyItemRead
<1>5. ~ActivateMarket(param)
  BY DEF ActivateMarket, Follows
<1>6. CASE \/ ReadItemsOffset(param) \/ ReadNumberOfItems(param)
           \/ ReadOnlyItemOffset(param)
  <2>1. /\ next_param \in {"BATCH_DISPATCH_ITEMS_OFFSET", "BATCH_DISPATCH_NUMBER_OF_ITEMS",
                           "BATCH_DISPATCH_ITEMS_OFFSETS"}
        /\ next_param' \in {"BATCH_DISPATCH_NUMBER_OF_ITEMS", "BATCH_DISPATCH_ITEMS_OFFSETS",
                            "BATCH_DISPATCH_ITEM_PROXY"}
        /\ UNCHANGED fields
    BY <1>6
       DEF ReadItemsOffset, ReadNumberOfItems, ReadOnlyItemOffset, AtWord, GoTo, Continue
  <2> QED
    BY <2>1 DEF OnlyItemRead
<1>7. CASE ReadItemOffset(param) \/ ReadLastItemOffset(param)
  <2>1. next_param = "BATCH_DISPATCH_ITEMS_OFFSETS" /\ batch_dispatch_number_of_items # 1
    BY <1>7 DEF ReadItemOffset, ReadLastItemOffset, AtWord, RememberOffset
  <2> QED
    BY <1>1, <2>1 DEF Follows, InHeader
<1>8. CASE ReadItemProxy(param)
  BY <1>8, ProxyRead
<1>9. CASE ReadItemLength(param)
  <2>1. /\ next_param = "BATCH_DISPATCH_ITEM_LENGTH" /\ next_param' = "BATCH_DISPATCH_ITEM"
        /\ UNCHANGED <<fields, item_handler>>
    BY <1>9 DEF ReadItemLength, AtWord, Continue
  <2>2. item_handler = NULL
    BY <2>1 DEF IInv, ParserInv, HandlerMatchesItem
  <2> QED
    BY <2>1, <2>2 DEF OnlyItemRead
<1>10. CASE ReadItem(param) \/ FinishItem(param)
  BY <1>10, DataTaken
<1> QED
  BY <1>2, <1>3, <1>4, <1>5, <1>6, <1>7, <1>8, <1>9, <1>10
     DEF ProvideWord, PassWord, ReadWord

-----------------------------------------------------------------------------
(***************************************************************************)
(* The transaction in the fields.                                          *)
(***************************************************************************)

\* The market that activateMarket activates is in address_2 after its only word.
MarketKnown(t) ==
  /\ selectorIndex = "ACTIVATE_MARKET"
  /\ fieldIndex \in {0, 1}
  /\ fieldIndex = 1 => fields.address_2 = AddressIn(Transactions[t].underlying)

Activations == {t \in Readable : Transactions[t].function = "ACTIVATE_MARKET"}

\* What has been read of the transaction is in the fields.
ReadInv ==
  /\ \A t \in Whole : phase # "idle" /\ tx = t => OnlyItemRead(t)
  /\ \A t \in Activations :
       phase # "idle" /\ tx = t => MarketKnown(t) /\ (DataIsIn => fieldIndex = 1)

\* The only word of activateMarket.
LEMMA MarketStep ==
  ASSUME NEW t \in Activations, IInv, MarketKnown(t), fieldIndex < Len(Words[t]),
         ProvideWord(Words[t][fieldIndex + 1])
  PROVE  MarketKnown(t)'
<1> DEFINE underlying == Transactions[t].underlying
           param      == Words[t][fieldIndex + 1]
<1>1. Words[t] = <<underlying>>
  BY WordsOfTransaction DEF Activations, CallData
<1>2. fieldIndex = 0 /\ param = underlying
  BY <1>1 DEF MarketKnown
<1>3. ActivateMarket(param)
  <2>1. ~BatchWord
    BY DEF MarketKnown, BatchWord
  <2> QED
    BY <2>1 DEF ProvideWord, PassWord, ReadWord, SkipWord, MissGoal, IgnoreWord, AtWord,
                ReadItemsOffset, ReadNumberOfItems, ReadOnlyItemOffset, ReadItemOffset,
                ReadLastItemOffset, ReadItemProxy, ReadItemLength, ReadItem, FinishItem
<1>4. /\ fields' = [fields EXCEPT !.address_2 = copy_address(fields.address_2, param, 5)]
      /\ selectorIndex' = "ACTIVATE_MARKET" /\ fieldIndex' = 1
  BY <1>2, <1>3 DEF ActivateMarket, Provided
<1>5. copy_address(fields.address_2, param, 5) = AddressIn(underlying)
  <2>1. copy_address(fields.address_2, param, 5) = [i \in 1..5 |-> param[8 - 5 + i]]
    BY DEF copy_address
  <2>2. \A i \in 1..5 : 8 - 5 + i = i + 3
    OBVIOUS
  <2> QED
    BY <1>2, <2>1, <2>2 DEF AddressIn
<1>6. fields'.address_2 = AddressIn(underlying)
  <2> fields \in Fields
    BY DEF IInv, TypeOK
  <2> QED
    BY <1>4, <1>5 DEF Fields
<1> QED
  BY <1>4, <1>6 DEF MarketKnown

\* The handlers that only read the context leave what has been read.
LEMMA AnswerKeepsRead ==
  ASSUME NEW t, UNCHANGED <<fieldIndex, contextVars>>
  PROVE  /\ OnlyItemRead(t) => OnlyItemRead(t)'
         /\ MarketKnown(t) => MarketKnown(t)'
<1>1. UNCHANGED <<fieldIndex, selectorIndex, next_param, item_length, item_handler, fields>>
  BY DEF contextVars, itemVars
<1> QED
  BY <1>1 DEF OnlyItemRead, MarketKnown, DataRead

\* Between transactions nothing is read.
LEMMA ReadInvInit == SessionInit => ReadInv
BY DEF SessionInit, ReadInv

\* init clears the fields.
LEMMA BeginReads ==
  ASSUME NEW t \in Readable, InitContract(CallSelector(Transactions[t]))
  PROVE  /\ t \in Whole => OnlyItemRead(t)'
         /\ t \in Activations => MarketKnown(t)'
<1> DEFINE sel == CallSelector(Transactions[t])
<1>1. fieldIndex' = 0 /\ fields' = ZeroFields
  BY DEF InitContract, ClearedContext
<1>2. ASSUME t \in Whole
      PROVE  OnlyItemRead(t)'
  <2>1. sel = SelectorOf["BATCH_DISPATCH"]
    BY <1>2 DEF Whole, Decodable, CallSelector, Selectors
  <2>2. FoundSelector(sel) = "BATCH_DISPATCH"
    BY <2>1, SelectorAssumption DEF FoundSelector, Selectors
  <2>3. next_param' = "BATCH_DISPATCH_ITEMS_OFFSET"
    BY <2>2 DEF InitContract
  <2> QED
    BY <1>1, <2>3 DEF OnlyItemRead
<1>3. ASSUME t \in Activations
      PROVE  MarketKnown(t)'
  <2>1. sel = SelectorOf["ACTIVATE_MARKET"]
    BY <1>3 DEF Activations, CallSelector, Selectors
  <2>2. FoundSelector(sel) = "ACTIVATE_MARKET"
    BY <2>1, SelectorAssumption DEF FoundSelector, Selectors
  <2>3. selectorIndex' = "ACTIVATE_MARKET"
    BY <2>2 DEF InitContract
  <2> QED
    BY <1>1, <2>3 DEF MarketKnown
<1> QED
  BY <1>2, <1>3

\* Every call of the app keeps what has been read of the transaction.
LEMMA ReadStep ==
  ASSUME SessionInv, BatchInv, ReadInv, [SessionNext]_sessionVars
  PROVE  ReadInv'
<1> SUFFICES ASSUME NEW t \in Whole \union Activations, phase' # "idle", tx' = t
             PROVE  /\ t \in Whole => OnlyItemRead(t)'
                    /\ t \in Activations => MarketKnown(t)' /\ (DataIsIn' => fieldIndex' = 1)
  BY DEF ReadInv
<1>1. IInv /\ t \in Readable
  BY DEF SessionInv, Whole, Decodable, Activations
<1>2. ASSUME NEW s \in DOMAIN Transactions, Begin(s)
      PROVE  /\ t \in Whole => OnlyItemRead(t)'
             /\ t \in Activations => MarketKnown(t)' /\ (DataIsIn' => fieldIndex' = 1)
  <2>1. InitContract(CallSelector(Transactions[s])) /\ phase' = "parsing" /\ s = t
    BY <1>2 DEF Begin
  <2> QED
    BY <1>1, <2>1, BeginReads DEF DataIsIn
<1>3. CASE Feed
  <2>1. /\ phase = "parsing" /\ phase' = "parsing" /\ tx = t
        /\ fieldIndex < Len(Words[t]) /\ ProvideWord(Words[t][fieldIndex + 1])
    BY <1>3 DEF Feed, hostVars
  <2>2. t \in Whole => Follows(t) /\ OnlyItemRead(t)
    BY <2>1 DEF BatchInv, ReadInv, Whole
  <2>3. t \in Activations => MarketKnown(t)
    BY <2>1 DEF ReadInv
  <2> QED
    BY <1>1, <2>1, <2>2, <2>3, OnlyItemStep, MarketStep DEF DataIsIn
<1>4. ASSUME UNCHANGED <<fieldIndex, contextVars>>, phase # "idle", tx = t,
             DataIsIn' => DataIsIn \/ fieldIndex = Len(Words[t])
      PROVE  /\ t \in Whole => OnlyItemRead(t)'
             /\ t \in Activations => MarketKnown(t)' /\ (DataIsIn' => fieldIndex' = 1)
  <2>1. /\ t \in Whole => OnlyItemRead(t)
        /\ t \in Activations => MarketKnown(t) /\ (DataIsIn => fieldIndex = 1)
    BY <1>4 DEF ReadInv
  <2>2. ASSUME t \in Activations
        PROVE  Len(Words[t]) = 1
    <3>1. Transactions[t].function = "ACTIVATE_MARKET"
      BY <2>2 DEF Activations
    <3>2. Words[t] = <<Transactions[t].underlying>>
      BY <1>1, <3>1, WordsOfTransaction DEF CallData
    <3> QED
      BY <3>2
  <2> QED
    BY <1>4, <2>1, <2>2, AnswerKeepsRead
<1>5. CASE EndOfData
  <2>1. phase = "parsing" /\ tx = t /\ fieldIndex = Len(Words[t])
        /\ UNCHANGED <<fieldIndex, contextVars>>
    BY <1>5 DEF EndOfData, Finalize
  <2> QED
    BY <1>4, <2>1
<1>6. CASE Inform
  <2>1. phase = "finalized" /\ tx = t /\ UNCHANGED <<fieldIndex, contextVars>>
    BY <1>6 DEF Inform, ProvideToken
  <2> QED
    BY <1>4, <2>1 DEF DataIsIn
<1>7. CASE Identify
  <2>1. phase = "informed" /\ tx = t /\ UNCHANGED <<fieldIndex, contextVars>>
    BY <1>7 DEF Identify, QueryContractID
  <2> QED
    BY <1>4, <2>1 DEF DataIsIn
<1>8. ASSUME NEW i \in 0..numScreens - 1, LeafTo(i)
      PROVE  /\ t \in Whole => OnlyItemRead(t)'
             /\ t \in Activations => MarketKnown(t)' /\ (DataIsIn' => fieldIndex' = 1)
  <2>1. phase = "review" /\ tx = t /\ UNCHANGED <<fieldIndex, contextVars>>
    BY <1>8 DEF LeafTo, QueryContractUI
  <2> QED
    BY <1>4, <2>1 DEF DataIsIn
<1>9. CASE UNCHANGED sessionVars
  <2>1. UNCHANGED <<phase, tx, fieldIndex, contextVars>>
    BY <1>9 DEF sessionVars, parserVars, hostVars
  <2> QED
    BY <1>4, <2>1 DEF DataIsIn
<1>10. ~End
  BY DEF End
<1> QED
  BY <1>2, <1>3, <1>5, <1>6, <1>7, <1>8, <1>9, <1>10 DEF SessionNext

-----------------------------------------------------------------------------
(***************************************************************************)
(* The answers to the app.                                                 *)
(***************************************************************************)

SwapTypes == {"SWAP", "SWAP_AND_REPAY"}

\* handle_finalize has asked for the tokens in the fields, and announced the screens.
Asked ==
  DataIsIn =>
    /\ tokenLookup1 = fields.address_2
    /\ selectorIndex = "ACTIVATE_MARKET" => numScreens = 1
    /\ selectorIndex = "BATCH_DISPATCH" /\ batch_dispatch_number_of_items = 1 =>
         /\ numScreens = ScreensOf(item_types[0])
         /\ item_types[0] \in SwapTypes => tokenLookup2 = fields.address_3

\* What the context keeps of a token is what the app knows of it.
KnownAs(address, found, ticker, decimals) ==
  /\ found <=> address \in DOMAIN Tokens
  /\ found => /\ ticker = strlcpy(Tokens[address][1], MAX_TICKER_LEN_OVERRIDE)
              /\ decimals = Tokens[address][2]

\* handle_provide_token has kept the tokens asked for.
Informed ==
  phase \in {"informed", "review"} =>
    /\ KnownAs(tokenLookup1, token_found_1, ticker_1, decimals_1)
    /\ KnownAs(tokenLookup2, token_found_2, ticker_2, decimals_2)

\* The answers, and a review that begins before its first screen.
AnswersInv ==
  /\ Asked
  /\ Informed
  /\ phase # "review" => screenIndex = NoIndex

\* A token of the app's list is not the null pointer.
LEMMA TokensAreNoNull ==
  ASSUME NEW lookup
  PROVE  KnownToken(lookup) # NoToken <=> lookup \in DOMAIN Tokens
<1>1. ASSUME lookup \in DOMAIN Tokens
      PROVE  Tokens[lookup] # NoToken
  <2>1. Tokens[lookup] = <<Tokens[lookup][1], Tokens[lookup][2]>>
    BY <1>1, TokensAssumption
  <2>2. Len(Tokens[lookup]) = 2
    BY <2>1
  <2>3. Len(NoToken) = 0
    BY DEF NoToken
  <2> QED
    BY <2>2, <2>3
<1> QED
  BY <1>1 DEF KnownToken

\* Finalize's answers stay while the context stays.
LEMMA AskedKept ==
  ASSUME Asked, UNCHANGED <<contextVars, lookupVars>>, DataIsIn' => DataIsIn
  PROVE  Asked'
BY DEF Asked, contextVars, batchVars, itemVars, lookupVars

\* The tokens stay while nothing is provided.
LEMMA InformedKept ==
  ASSUME Informed, UNCHANGED <<lookupVars, tokenVars>>,
         phase' \in {"informed", "review"} => phase \in {"informed", "review"}
  PROVE  Informed'
BY DEF Informed, KnownAs, lookupVars, tokenVars

\* Between transactions nothing is answered.
LEMMA AnswersInvInit == SessionInit => AnswersInv
BY DEF SessionInit, AnswersInv, Asked, Informed, DataIsIn

\* Every call of the app leaves the answers those of the transaction in the fields.
LEMMA AnswersStep ==
  ASSUME AnswersInv, [SessionNext]_sessionVars
  PROVE  AnswersInv'
<1> DEFINE Unseen == phase # "review" => screenIndex = NoIndex
<1>1. Asked /\ Informed /\ Unseen
  BY DEF AnswersInv
<1>2. ASSUME phase' \in {"idle", "parsing"}, screenIndex' = NoIndex
      PROVE  Asked' /\ Informed' /\ Unseen'
  BY <1>2 DEF Asked, Informed, DataIsIn
<1>3. ASSUME NEW t \in DOMAIN Transactions, Begin(t)
      PROVE  Asked' /\ Informed' /\ Unseen'
  BY <1>2, <1>3 DEF Begin
<1>4. ASSUME Feed
      PROVE  Asked' /\ Informed' /\ Unseen'
  BY <1>1, <1>2, <1>4 DEF Feed, hostVars
<1>5. ASSUME EndOfData
      PROVE  Asked' /\ Informed' /\ Unseen'
  <2>1. phase = "parsing" /\ phase' \in {"finalized", "idle"} /\ screenIndex' = NoIndex
    BY <1>1, <1>5 DEF EndOfData
  <2>2. /\ tokenLookup1' = fields.address_2
        /\ selectorIndex = "ACTIVATE_MARKET" => numScreens' = 1
        /\ selectorIndex = "BATCH_DISPATCH" /\ batch_dispatch_number_of_items = 1 =>
             /\ numScreens' = ScreensOf(item_types[0])
             /\ item_types[0] \in SwapTypes => tokenLookup2' = fields.address_3
    BY <1>5 DEF EndOfData, Finalize, SwapTypes
  <2>3. /\ selectorIndex' = selectorIndex /\ fields' = fields /\ item_types' = item_types
        /\ batch_dispatch_number_of_items' = batch_dispatch_number_of_items
    BY <1>5 DEF EndOfData, Finalize, contextVars, batchVars, itemVars
  <2>4. Asked'
    BY <2>2, <2>3 DEF Asked
  <2> QED
    BY <2>1, <2>4 DEF Informed
<1>6. ASSUME Inform
      PROVE  Asked' /\ Informed' /\ Unseen'
  <2>1. /\ phase = "finalized" /\ phase' = "informed" /\ screenIndex' = screenIndex
        /\ UNCHANGED <<contextVars, lookupVars>>
    BY <1>6 DEF Inform, ProvideToken
  <2>2. Asked'
    BY <1>1, <2>1, AskedKept DEF DataIsIn
  <2>3. /\ tokenLookup1' = tokenLookup1 /\ tokenLookup2' = tokenLookup2
    BY <2>1 DEF lookupVars
  <2>4. KnownAs(tokenLookup1, token_found_1', ticker_1', decimals_1')
    <3>1. CASE tokenLookup1 \in DOMAIN Tokens
      <4> KnownToken(tokenLookup1) # NoToken /\ KnownToken(tokenLookup1) = Tokens[tokenLookup1]
        BY <3>1, TokensAreNoNull DEF KnownToken
      <4> QED
        BY <1>6, <3>1 DEF Inform, ProvideToken, KnownAs
    <3>2. CASE tokenLookup1 \notin DOMAIN Tokens
      <4> KnownToken(tokenLookup1) = NoToken
        BY <3>2 DEF KnownToken
      <4> QED
        BY <1>6, <3>2 DEF Inform, ProvideToken, KnownAs
    <3> QED
      BY <3>1, <3>2
  <2>5. KnownAs(tokenLookup2, token_found_2', ticker_2', decimals_2')
    <3>1. CASE tokenLookup2 \in DOMAIN Tokens
      <4> KnownToken(tokenLookup2) # NoToken /\ KnownToken(tokenLookup2) = Tokens[tokenLookup2]
        BY <3>1, TokensAreNoNull DEF KnownToken
      <4> QED
        BY <1>6, <3>1 DEF Inform, ProvideToken, KnownAs
    <3>2. CASE tokenLookup2 \notin DOMAIN Tokens
      <4> KnownToken(tokenLookup2) = NoToken
        BY <3>2 DEF KnownToken
      <4> QED
        BY <1>6, <3>2 DEF Inform, ProvideToken, KnownAs
    <3> QED
      BY <3>1, <3>2
  <2>6. Informed'
    BY <2>3, <2>4, <2>5 DEF Informed, KnownAs
  <2> QED
    BY <1>1, <2>1, <2>2, <2>6
<1>7. ASSUME Identify
      PROVE  Asked' /\ Informed' /\ Unseen'
  <2>1. /\ phase = "informed" /\ phase' = "review"
        /\ UNCHANGED <<contextVars, lookupVars, tokenVars>>
    BY <1>7 DEF Identify, QueryContractID
  <2> QED
    BY <1>1, <2>1, AskedKept, InformedKept DEF DataIsIn
<1>8. ASSUME NEW i \in 0..numScreens - 1, LeafTo(i)
      PROVE  Asked' /\ Informed' /\ Unseen'
  <2>1. /\ phase = "review" /\ phase' = "review"
        /\ UNCHANGED <<contextVars, lookupVars, tokenVars>>
    BY <1>8 DEF LeafTo, QueryContractUI
  <2> QED
    BY <1>1, <2>1, AskedKept, InformedKept DEF DataIsIn
<1>9. ASSUME End
      PROVE  Asked' /\ Informed' /\ Unseen'
  BY <1>2, <1>9 DEF End
<1>10. ASSUME UNCHANGED sessionVars
       PROVE  Asked' /\ Informed' /\ Unseen'
  <2>1. UNCHANGED <<phase, screenIndex, contextVars, lookupVars, tokenVars>>
    BY <1>10 DEF sessionVars, parserVars, displayVars, hostVars
  <2> QED
    BY <1>1, <2>1, AskedKept, InformedKept DEF DataIsIn
<1> QED
  BY <1>3, <1>4, <1>5, <1>6, <1>7, <1>8, <1>9, <1>10 DEF SessionNext, AnswersInv

-----------------------------------------------------------------------------
(***************************************************************************)
(* The screens of one item.                                                *)
(***************************************************************************)

\* What the user sees of a screen.
Seen(screen) == [title |-> screen.title, msg |-> screen.msg]

\* A screen with these lines, as the promise states it.
Says(t, m) == [title |-> t, msg |-> m]

\* The promise is stated in the words of the code.
LEMMA SameWords ==
  /\ \A s : R!Text(s) = Text(s)
  /\ \A n : R!Number(n) = Number(n)
  /\ \A a : R!AddressLine(a) = AddressLine(a)
  /\ \A prefix, account : R!SubAccountLine(prefix, account) = SubAccountLine(prefix, account)
  /\ \A word : R!AddressIn(word) = AddressIn(word)
  /\ \A word : R!SubAccount(word) = LowByteOf(word)
  /\ \A item : R!Name(item) = <<item_type_to_string(item.type)>>
  /\ \A t, m : R!Fact(t, m) = Says(t, m)
<1>1. \A s : R!Text(s) = Text(s)
  BY DEF R!Text, Text
<1>2. \A n : R!Number(n) = Number(n)
  BY DEF R!Number, Number
<1>3. \A a : R!AddressLine(a) = AddressLine(a)
  BY DEF R!AddressLine, R!Text, R!AddressText, AddressLine, Text, AddressText
<1>4. \A prefix, account : R!SubAccountLine(prefix, account) = SubAccountLine(prefix, account)
  BY DEF R!SubAccountLine, R!Text, R!Number, SubAccountLine, Text, Number
<1>5. \A word : R!AddressIn(word) = AddressIn(word)
  BY DEF R!AddressIn, AddressIn
<1>6. \A word : R!SubAccount(word) = LowByteOf(word)
  BY DEF R!SubAccount, LowByteOf, R!UINT8, UINT8
<1>7. \A item : R!Name(item) = <<item_type_to_string(item.type)>>
  BY DEF R!Name, R!item_type_to_string, item_type_to_string, R!Text, Text, R!PermitTypes,
         PermitTypes
<1>8. \A t, m : R!Fact(t, m) = Says(t, m)
  BY DEF R!Fact, Says
<1> QED
  BY <1>1, <1>2, <1>3, <1>4, <1>5, <1>6, <1>7, <1>8

\* A token, and an amount of it, as the promise has them.
LEMMA TokenFacts ==
  ASSUME NEW address, NEW found, NEW ticker, NEW decimals,
         KnownAs(address, found, ticker, decimals)
  PROVE  /\ \A label :
              R!TokenFact(label, address) = Says(<<Text(label)>>, TokenLine(found, ticker, address))
         /\ \A label, amount :
              R!AmountFact(label, amount, address)
                = Says(<<Text(label)>>,
                       AmountLine(amount, IF found THEN decimals ELSE DEFAULT_DECIMALS))
<1>1. \A f, k, a : R!TokenLine(f, k, a) = TokenLine(f, k, a)
  BY SameWords DEF R!TokenLine, TokenLine, R!Ticker, Ticker
<1>2. \A a, d : R!AmountLine(a, d) = AmountLine(a, d)
  BY SameWords DEF R!AmountLine, AmountLine, R!Amount, Amount
<1>3. \A src, size : R!strlcpy(src, size) = strlcpy(src, size)
  BY DEF R!strlcpy, strlcpy
<1>4. R!MAX_TICKER_LEN_OVERRIDE = MAX_TICKER_LEN_OVERRIDE /\ R!DEFAULT_DECIMALS = DEFAULT_DECIMALS
  BY DEF R!MAX_TICKER_LEN_OVERRIDE, MAX_TICKER_LEN_OVERRIDE, R!DEFAULT_DECIMALS, DEFAULT_DECIMALS
<1>5. CASE address \in DOMAIN Tokens
  <2>1. /\ found
        /\ ticker = strlcpy(Tokens[address][1], MAX_TICKER_LEN_OVERRIDE)
        /\ decimals = Tokens[address][2]
    BY <1>5 DEF KnownAs
  <2>2. TokenLine(TRUE, ticker, address) = TokenLine(found, ticker, address)
    BY <2>1 DEF TokenLine
  <2>3. \A label : R!TokenFact(label, address)
                     = Says(<<Text(label)>>, TokenLine(TRUE, ticker, address))
    BY <1>1, <1>3, <1>4, <1>5, <2>1, SameWords DEF R!TokenFact
  <2>4. \A label, amount : R!AmountFact(label, amount, address)
                             = Says(<<Text(label)>>, AmountLine(amount, decimals))
    BY <1>2, <1>5, <2>1, SameWords DEF R!AmountFact
  <2> QED
    BY <2>1, <2>2, <2>3, <2>4
<1>6. CASE address \notin DOMAIN Tokens
  <2>1. ~found
    BY <1>6 DEF KnownAs
  <2>2. TokenLine(FALSE, <<>>, address) = TokenLine(found, ticker, address)
    BY <2>1 DEF TokenLine
  <2>3. \A label : R!TokenFact(label, address)
                     = Says(<<Text(label)>>, TokenLine(FALSE, <<>>, address))
    BY <1>1, <1>6, SameWords DEF R!TokenFact
  <2>4. \A label, amount : R!AmountFact(label, amount, address)
                             = Says(<<Text(label)>>, AmountLine(amount, DEFAULT_DECIMALS))
    BY <1>2, <1>4, <1>6, SameWords DEF R!AmountFact
  <2> QED
    BY <2>1, <2>2, <2>3, <2>4
<1> QED
  BY <1>5, <1>6

\* The app knows the tokens that the screens name.
Token1Known == KnownAs(fields.address_2, token_found_1, ticker_1, decimals_1)
Token2Known == KnownAs(fields.address_3, token_found_2, ticker_2, decimals_2)

\* A screen shows its two lines.
LEMMA SeenScreen == \A t, m : Seen(Screen(t, m)) = Says(t, m)
BY DEF Seen, Screen, Says

\* The screens of a token and of an amount.
LEMMA TokenSeen ==
  /\ Token1Known =>
       /\ \A label : Seen(TokenScreen(label)) = R!TokenFact(label, fields.address_2)
       /\ \A label : Seen(Screen(<<Text(label)>>, Amount1Line))
                       = R!AmountFact(label, fields.amount, fields.address_2)
  /\ Token2Known =>
       /\ \A label : Seen(Screen(<<Text(label)>>, Token2Line))
                       = R!TokenFact(label, fields.address_3)
       /\ \A label : Seen(Screen(<<Text(label)>>, Amount2Line))
                       = R!AmountFact(label, fields.amount, fields.address_3)
<1>1. ASSUME Token1Known
      PROVE  /\ \A label : Seen(TokenScreen(label)) = R!TokenFact(label, fields.address_2)
             /\ \A label : Seen(Screen(<<Text(label)>>, Amount1Line))
                             = R!AmountFact(label, fields.amount, fields.address_2)
  BY <1>1, SeenScreen, TokenFacts DEF Token1Known, TokenScreen, Token1Line, Amount1Line
<1>2. ASSUME Token2Known
      PROVE  /\ \A label : Seen(Screen(<<Text(label)>>, Token2Line))
                             = R!TokenFact(label, fields.address_3)
             /\ \A label : Seen(Screen(<<Text(label)>>, Amount2Line))
                             = R!AmountFact(label, fields.amount, fields.address_3)
  BY <1>2, SeenScreen, TokenFacts DEF Token2Known, Token2Line, Amount2Line
<1> QED
  BY <1>1, <1>2

\* The promise distinguishes the types that the code does.
LEMMA SameTypes ==
  R!MarketTypes = MarketTypes /\ R!PermitTypes = PermitTypes /\ R!AmountTypes = AmountTypes
BY DEF R!MarketTypes, MarketTypes, R!PermitTypes, PermitTypes, R!AmountTypes, AmountTypes

\* The screens of enterMarket, exitMarket and the permits.
LEMMA MarketSeen ==
  ASSUME NEW item \in BatchItem, IsWhole(item), item.type \in MarketTypes \union PermitTypes,
         ArgumentsRead(item, WordsTaken(item), fields), Token1Known
  PROVE  /\ R!ItemFacts(item)
              = <<Seen(ItemScreen(item.type, 0)), Seen(ItemScreen(item.type, 1))>>
         /\ ScreensOf(item.type) = 2
<1> DEFINE arg  == item.arguments
           name == <<item_type_to_string(item.type)>>
<1>1. ASSUME item.type \in MarketTypes
      PROVE  R!ItemFacts(item) = <<Says(name, <<>>), R!TokenFact("Token: ", fields.address_2)>>
  <2>1. fields.address_2 = AddressIn(arg[2])
    <3>1. WordsTaken(item) = 3
      BY <1>1, WordsOfWholeItem DEF HandledTypes
    <3> QED
      BY <1>1, <3>1 DEF ArgumentsRead, MarketRead
  <2>2. item.type \notin PermitTypes \union AmountTypes
                     \union {"TRANSFER", "TRANSFER_FROM", "SWAP", "SWAP_AND_REPAY"}
    BY <1>1 DEF MarketTypes, PermitTypes, AmountTypes
  <2>3. R!ItemFacts(item)
          = <<R!Fact(R!Name(item), <<>>), R!TokenFact("Token: ", R!AddressIn(arg[2]))>>
    BY <1>1, <2>2, SameTypes DEF R!ItemFacts
  <2> QED
    BY <2>1, <2>3, SameWords
<1>2. ASSUME item.type \in PermitTypes
      PROVE  R!ItemFacts(item) = <<Says(name, <<>>), R!TokenFact("Token: ", fields.address_2)>>
  <2>1. fields.address_2 = AddressIn(arg[1])
    <3>1. WordsTaken(item) \in Nat /\ WordsTaken(item) >= 2
      BY <1>2, WordsOfWholeItem DEF HandledTypes
    <3> QED
      BY <1>2, <3>1 DEF ArgumentsRead, PermitRead
  <2>2. item.type \notin MarketTypes \union AmountTypes
                     \union {"TRANSFER", "TRANSFER_FROM", "SWAP", "SWAP_AND_REPAY"}
    BY <1>2 DEF MarketTypes, PermitTypes, AmountTypes
  <2>3. R!ItemFacts(item)
          = <<R!Fact(R!Name(item), <<>>), R!TokenFact("Token: ", R!AddressIn(arg[1]))>>
    BY <1>2, <2>2, SameTypes DEF R!ItemFacts
  <2> QED
    BY <2>1, <2>3, SameWords
<1>3. R!ItemFacts(item) = <<Says(name, <<>>), R!TokenFact("Token: ", fields.address_2)>>
  BY <1>1, <1>2
<1>4. item.type \notin AmountTypes \union {"TRANSFER", "TRANSFER_FROM", "SWAP", "SWAP_AND_REPAY"}
  BY DEF MarketTypes, PermitTypes, AmountTypes
<1>5. \A index \in Nat : ItemScreen(item.type, index) = MarketScreen(item.type, index)
  BY <1>4 DEF ItemScreen
<1>6. /\ Seen(ItemScreen(item.type, 0)) = Says(name, <<>>)
      /\ Seen(ItemScreen(item.type, 1)) = R!TokenFact("Token: ", fields.address_2)
  <2>1. /\ ItemScreen(item.type, 0) = MarketScreen(item.type, 0)
        /\ ItemScreen(item.type, 1) = MarketScreen(item.type, 1)
    BY <1>5
  <2>2. /\ MarketScreen(item.type, 0) = Screen(name, <<>>)
        /\ MarketScreen(item.type, 1) = TokenScreen("Token: ")
    BY DEF MarketScreen
  <2> QED
    BY <2>1, <2>2, SeenScreen, TokenSeen
<1>7. ScreensOf(item.type) = 2
  BY <1>4 DEF ScreensOf
<1> QED
  BY <1>3, <1>6, <1>7

\* The screens of deposit and the functions like it.
LEMMA AmountSeen ==
  ASSUME NEW item \in BatchItem, IsWhole(item), item.type \in AmountTypes,
         ArgumentsRead(item, WordsTaken(item), fields), Token1Known
  PROVE  /\ R!ItemFacts(item)
              = <<Seen(ItemScreen(item.type, 0)), Seen(ItemScreen(item.type, 1)),
                  Seen(ItemScreen(item.type, 2))>>
         /\ ScreensOf(item.type) = 3
<1> DEFINE arg  == item.arguments
           name == <<item_type_to_string(item.type)>>
<1>1. /\ fields.address_2 = AddressIn(item.proxy)
      /\ fields.sub_account_1 = LowByteOf(arg[1])
      /\ fields.amount = arg[2]
  <2>1. WordsTaken(item) = 3
    BY WordsOfWholeItem DEF HandledTypes
  <2> QED
    BY <2>1 DEF ArgumentsRead, AmountRead
<1>2. item.type \notin MarketTypes \union PermitTypes
                   \union {"TRANSFER", "TRANSFER_FROM", "SWAP", "SWAP_AND_REPAY"}
  BY DEF MarketTypes, PermitTypes, AmountTypes
<1>3. R!ItemFacts(item)
        = <<Says(name, SubAccountLine("Sub-account: ", fields.sub_account_1)),
            R!TokenFact("Token: ", fields.address_2),
            R!AmountFact("Amount: ", fields.amount, fields.address_2)>>
  <2>1. R!ItemFacts(item)
          = <<R!Fact(R!Name(item), R!SubAccountLine("Sub-account: ", R!SubAccount(arg[1]))),
              R!TokenFact("Token: ", R!AddressIn(item.proxy)),
              R!AmountFact("Amount: ", arg[2], R!AddressIn(item.proxy))>>
    BY <1>2, SameTypes DEF R!ItemFacts
  <2> QED
    BY <1>1, <2>1, SameWords
<1>4. \A index \in Nat : ItemScreen(item.type, index) = AmountScreen(item.type, index)
  BY <1>2 DEF ItemScreen
<1>5. /\ Seen(ItemScreen(item.type, 0))
           = Says(name, SubAccountLine("Sub-account: ", fields.sub_account_1))
      /\ Seen(ItemScreen(item.type, 1)) = R!TokenFact("Token: ", fields.address_2)
      /\ Seen(ItemScreen(item.type, 2))
           = R!AmountFact("Amount: ", fields.amount, fields.address_2)
  <2>1. /\ ItemScreen(item.type, 0) = AmountScreen(item.type, 0)
        /\ ItemScreen(item.type, 1) = AmountScreen(item.type, 1)
        /\ ItemScreen(item.type, 2) = AmountScreen(item.type, 2)
    BY <1>4
  <2>2. /\ AmountScreen(item.type, 0) = Screen(name, SubAccountLine("Sub-account: ", fields.sub_account_1))
        /\ AmountScreen(item.type, 1) = TokenScreen("Token: ")
        /\ AmountScreen(item.type, 2) = Screen(<<Text("Amount: ")>>, Amount1Line)
    BY DEF AmountScreen
  <2> QED
    BY <2>1, <2>2, SeenScreen, TokenSeen
<1>6. ScreensOf(item.type) = 3
  BY <1>2 DEF ScreensOf
<1> QED
  BY <1>3, <1>5, <1>6

\* The screens of transfer.
LEMMA TransferSeen ==
  ASSUME NEW item \in BatchItem, IsWhole(item), item.type = "TRANSFER",
         ArgumentsRead(item, WordsTaken(item), fields), Token1Known
  PROVE  /\ R!ItemFacts(item)
              = <<Seen(ItemScreen(item.type, 0)), Seen(ItemScreen(item.type, 1)),
                  Seen(ItemScreen(item.type, 2)), Seen(ItemScreen(item.type, 3))>>
         /\ ScreensOf(item.type) = 4
<1> DEFINE arg  == item.arguments
           name == <<item_type_to_string(item.type)>>
<1>1. /\ fields.address_2 = AddressIn(item.proxy)
      /\ fields.address_3 = AddressIn(arg[1])
      /\ fields.amount = arg[2]
  <2>1. WordsTaken(item) = 3
    BY WordsOfWholeItem DEF HandledTypes
  <2> QED
    BY <2>1 DEF ArgumentsRead, TransferRead
<1>2. item.type \notin MarketTypes \union PermitTypes \union AmountTypes
  BY DEF MarketTypes, PermitTypes, AmountTypes
<1>3. R!ItemFacts(item)
        = <<Says(name, <<>>), R!TokenFact("Token: ", fields.address_2),
            R!AmountFact("Amount: ", fields.amount, fields.address_2),
            Says(<<Text("To: ")>>, AddressLine(fields.address_3))>>
  <2>1. R!ItemFacts(item)
          = <<R!Fact(R!Name(item), <<>>), R!TokenFact("Token: ", R!AddressIn(item.proxy)),
              R!AmountFact("Amount: ", arg[2], R!AddressIn(item.proxy)),
              R!Fact(<<R!Text("To: ")>>, R!AddressLine(R!AddressIn(arg[1])))>>
    BY <1>2, SameTypes DEF R!ItemFacts
  <2> QED
    BY <1>1, <2>1, SameWords
<1>4. \A index \in Nat : ItemScreen(item.type, index) = TransferScreen(item.type, index)
  BY <1>2 DEF ItemScreen
<1>5. /\ Seen(ItemScreen(item.type, 0)) = Says(name, <<>>)
      /\ Seen(ItemScreen(item.type, 1)) = R!TokenFact("Token: ", fields.address_2)
      /\ Seen(ItemScreen(item.type, 2))
           = R!AmountFact("Amount: ", fields.amount, fields.address_2)
      /\ Seen(ItemScreen(item.type, 3))
           = Says(<<Text("To: ")>>, AddressLine(fields.address_3))
  <2>1. /\ ItemScreen(item.type, 0) = TransferScreen(item.type, 0)
        /\ ItemScreen(item.type, 1) = TransferScreen(item.type, 1)
        /\ ItemScreen(item.type, 2) = TransferScreen(item.type, 2)
        /\ ItemScreen(item.type, 3) = TransferScreen(item.type, 3)
    BY <1>4
  <2>2. /\ TransferScreen(item.type, 0) = Screen(name, <<>>)
        /\ TransferScreen(item.type, 1) = TokenScreen("Token: ")
        /\ TransferScreen(item.type, 2) = Screen(<<Text("Amount: ")>>, Amount1Line)
        /\ TransferScreen(item.type, 3) = Screen(<<Text("To: ")>>, AddressLine(fields.address_3))
    BY DEF TransferScreen
  <2> QED
    BY <2>1, <2>2, SeenScreen, TokenSeen
<1>6. ScreensOf(item.type) = 4
  BY <1>2 DEF ScreensOf
<1> QED
  BY <1>3, <1>5, <1>6

\* The screens of transferFrom.
LEMMA TransferFromSeen ==
  ASSUME NEW item \in BatchItem, IsWhole(item), item.type = "TRANSFER_FROM",
         ArgumentsRead(item, WordsTaken(item), fields), Token1Known
  PROVE  /\ R!ItemFacts(item)
              = <<Seen(ItemScreen(item.type, 0)), Seen(ItemScreen(item.type, 1)),
                  Seen(ItemScreen(item.type, 2)), Seen(ItemScreen(item.type, 3)),
                  Seen(ItemScreen(item.type, 4))>>
         /\ ScreensOf(item.type) = 5
<1> DEFINE arg  == item.arguments
           name == <<item_type_to_string(item.type)>>
<1>1. /\ fields.address_2 = AddressIn(item.proxy)
      /\ fields.address_1 = AddressIn(arg[1])
      /\ fields.address_3 = AddressIn(arg[2])
      /\ fields.amount = arg[3]
  <2>1. WordsTaken(item) = 4
    BY WordsOfWholeItem DEF HandledTypes
  <2> QED
    BY <2>1 DEF ArgumentsRead, TransferFromRead
<1>2. item.type \notin MarketTypes \union PermitTypes \union AmountTypes
  BY DEF MarketTypes, PermitTypes, AmountTypes
<1>3. R!ItemFacts(item)
        = <<Says(name, <<>>), R!TokenFact("Token: ", fields.address_2),
            R!AmountFact("Amount: ", fields.amount, fields.address_2),
            Says(<<Text("To: ")>>, AddressLine(fields.address_3)),
            Says(<<Text("From: ")>>, AddressLine(fields.address_1))>>
  <2>1. R!ItemFacts(item)
          = <<R!Fact(R!Name(item), <<>>), R!TokenFact("Token: ", R!AddressIn(item.proxy)),
              R!AmountFact("Amount: ", arg[3], R!AddressIn(item.proxy)),
              R!Fact(<<R!Text("To: ")>>, R!AddressLine(R!AddressIn(arg[2]))),
              R!Fact(<<R!Text("From: ")>>, R!AddressLine(R!AddressIn(arg[1])))>>
    BY <1>2, SameTypes DEF R!ItemFacts
  <2> QED
    BY <1>1, <2>1, SameWords
<1>4. \A index \in Nat : ItemScreen(item.type, index) = TransferScreen(item.type, index)
  BY <1>2 DEF ItemScreen
<1>5. /\ Seen(ItemScreen(item.type, 0)) = Says(name, <<>>)
      /\ Seen(ItemScreen(item.type, 1)) = R!TokenFact("Token: ", fields.address_2)
      /\ Seen(ItemScreen(item.type, 2))
           = R!AmountFact("Amount: ", fields.amount, fields.address_2)
      /\ Seen(ItemScreen(item.type, 3))
           = Says(<<Text("To: ")>>, AddressLine(fields.address_3))
      /\ Seen(ItemScreen(item.type, 4))
           = Says(<<Text("From: ")>>, AddressLine(fields.address_1))
  <2>1. /\ ItemScreen(item.type, 0) = TransferScreen(item.type, 0)
        /\ ItemScreen(item.type, 1) = TransferScreen(item.type, 1)
        /\ ItemScreen(item.type, 2) = TransferScreen(item.type, 2)
        /\ ItemScreen(item.type, 3) = TransferScreen(item.type, 3)
        /\ ItemScreen(item.type, 4) = TransferScreen(item.type, 4)
    BY <1>4
  <2>2. /\ TransferScreen(item.type, 0) = Screen(name, <<>>)
        /\ TransferScreen(item.type, 1) = TokenScreen("Token: ")
        /\ TransferScreen(item.type, 2) = Screen(<<Text("Amount: ")>>, Amount1Line)
        /\ TransferScreen(item.type, 3) = Screen(<<Text("To: ")>>, AddressLine(fields.address_3))
        /\ TransferScreen(item.type, 4) = Screen(<<Text("From: ")>>, AddressLine(fields.address_1))
    BY DEF TransferScreen
  <2> QED
    BY <2>1, <2>2, SeenScreen, TokenSeen
<1>6. ScreensOf(item.type) = 5
  BY <1>2 DEF ScreensOf
<1> QED
  BY <1>3, <1>5, <1>6

\* The screens of swap, by its mode.
LEMMA SwapSeen ==
  ASSUME NEW item \in BatchItem, IsWhole(item), item.type = "SWAP",
         ArgumentsRead(item, WordsTaken(item), fields), Token1Known, Token2Known
  PROVE  /\ R!ItemFacts(item)
              = <<Seen(ItemScreen(item.type, 0)), Seen(ItemScreen(item.type, 1)),
                  Seen(ItemScreen(item.type, 2)), Seen(ItemScreen(item.type, 3)),
                  Seen(ItemScreen(item.type, 4))>>
         /\ ScreensOf(item.type) = 5
<1> DEFINE arg     == item.arguments
           name    == <<item_type_to_string(item.type)>>
           exactIn == fields.swap_mode = 0
           mode    == <<Text(IF exactIn THEN "Exact In" ELSE "Exact Out")>>
           to      == SubAccountLine("To sub-account: ", fields.sub_account_2)
           from    == SubAccountLine("From sub-account: ", fields.sub_account_1)
           last    == IF exactIn THEN Screen(<<Text("Min. received: ")>>, Amount2Line)
                                 ELSE Screen(<<Text("Max swapped: ")>>, Amount1Line)
           amount  == IF exactIn
                      THEN R!AmountFact("Min. received: ", fields.amount, fields.address_3)
                      ELSE R!AmountFact("Max swapped: ", fields.amount, fields.address_2)
<1>1. /\ fields.address_2 = AddressIn(arg[5])
      /\ fields.address_3 = AddressIn(arg[6])
      /\ fields.sub_account_1 = LowByteOf(arg[1])
      /\ fields.sub_account_2 = LowByteOf(arg[2])
      /\ fields.swap_mode = LowByteOf(arg[7])
      /\ fields.amount = IF exactIn THEN arg[9] ELSE arg[8]
  <2>1. WordsTaken(item) = 13
    BY DEF WordsTaken
  <2>2. SwapRead(item, 13, fields)
    BY <2>1 DEF ArgumentsRead
  <2> QED
    BY <2>2 DEF SwapRead
<1>2. item.type \notin MarketTypes \union PermitTypes \union AmountTypes
  BY DEF MarketTypes, PermitTypes, AmountTypes
<1>3. R!ItemFacts(item)
        = <<Says(name, mode), Says(to, from), R!TokenFact("Token out: ", fields.address_3),
            R!TokenFact("Token in: ", fields.address_2), amount>>
  <2>1. CASE exactIn
    <3>1. R!SubAccount(arg[7]) = 0
      BY <1>1, <2>1, SameWords
    <3>2. R!ItemFacts(item)
            = <<R!Fact(R!Name(item), <<R!Text("Exact In")>>),
                R!Fact(R!SubAccountLine("To sub-account: ", R!SubAccount(arg[2])),
                       R!SubAccountLine("From sub-account: ", R!SubAccount(arg[1]))),
                R!TokenFact("Token out: ", R!AddressIn(arg[6])),
                R!TokenFact("Token in: ", R!AddressIn(arg[5])),
                R!AmountFact("Min. received: ", arg[9], R!AddressIn(arg[6]))>>
      BY <1>2, <3>1, SameTypes DEF R!ItemFacts
    <3> QED
      BY <1>1, <2>1, <3>2, SameWords
  <2>2. CASE ~exactIn
    <3>1. R!SubAccount(arg[7]) # 0
      BY <1>1, <2>2, SameWords
    <3>2. R!ItemFacts(item)
            = <<R!Fact(R!Name(item), <<R!Text("Exact Out")>>),
                R!Fact(R!SubAccountLine("To sub-account: ", R!SubAccount(arg[2])),
                       R!SubAccountLine("From sub-account: ", R!SubAccount(arg[1]))),
                R!TokenFact("Token out: ", R!AddressIn(arg[6])),
                R!TokenFact("Token in: ", R!AddressIn(arg[5])),
                R!AmountFact("Max swapped: ", arg[8], R!AddressIn(arg[5]))>>
      BY <1>2, <3>1, SameTypes DEF R!ItemFacts
    <3> QED
      BY <1>1, <2>2, <3>2, SameWords
  <2> QED
    BY <2>1, <2>2
<1>4. \A index \in Nat : ItemScreen(item.type, index) = SwapScreen(index)
  BY <1>2 DEF ItemScreen
<1>5. /\ Seen(ItemScreen(item.type, 0)) = Says(name, mode)
      /\ Seen(ItemScreen(item.type, 1)) = Says(to, from)
      /\ Seen(ItemScreen(item.type, 2)) = R!TokenFact("Token out: ", fields.address_3)
      /\ Seen(ItemScreen(item.type, 3)) = R!TokenFact("Token in: ", fields.address_2)
      /\ Seen(ItemScreen(item.type, 4)) = amount
  <2>1. /\ ItemScreen(item.type, 0) = SwapScreen(0)
        /\ ItemScreen(item.type, 1) = SwapScreen(1)
        /\ ItemScreen(item.type, 2) = SwapScreen(2)
        /\ ItemScreen(item.type, 3) = SwapScreen(3)
        /\ ItemScreen(item.type, 4) = SwapScreen(4)
    BY <1>4
  <2>2. /\ SwapScreen(0) = Screen(name, mode)
        /\ SwapScreen(1) = Screen(to, from)
        /\ SwapScreen(2) = Screen(<<Text("Token out: ")>>, Token2Line)
        /\ SwapScreen(3) = TokenScreen("Token in: ")
        /\ SwapScreen(4) = last
    BY DEF SwapScreen
  <2> QED
    BY <2>1, <2>2, SeenScreen, TokenSeen
<1>6. ScreensOf(item.type) = 5
  BY <1>2 DEF ScreensOf
<1> QED
  BY <1>3, <1>5, <1>6

\* The screens of swapAndRepay.
LEMMA SwapAndRepaySeen ==
  ASSUME NEW item \in BatchItem, IsWhole(item), item.type = "SWAP_AND_REPAY",
         ArgumentsRead(item, WordsTaken(item), fields), Token1Known, Token2Known
  PROVE  /\ R!ItemFacts(item)
              = <<Seen(ItemScreen(item.type, 0)), Seen(ItemScreen(item.type, 1)),
                  Seen(ItemScreen(item.type, 2)), Seen(ItemScreen(item.type, 3)),
                  Seen(ItemScreen(item.type, 4))>>
         /\ ScreensOf(item.type) = 5
<1> DEFINE arg  == item.arguments
           name == <<item_type_to_string(item.type)>>
           to   == SubAccountLine("Repay sub-account: ", fields.sub_account_2)
           from == SubAccountLine("From sub-account: ", fields.sub_account_1)
<1>1. /\ fields.address_2 = AddressIn(arg[6])
      /\ fields.address_3 = AddressIn(arg[7])
      /\ fields.sub_account_1 = LowByteOf(arg[1])
      /\ fields.sub_account_2 = LowByteOf(arg[2])
      /\ fields.amount = arg[9]
  <2>1. WordsTaken(item) = 14
    BY DEF WordsTaken
  <2>2. SwapAndRepayRead(item, 14, fields)
    BY <2>1 DEF ArgumentsRead
  <2> QED
    BY <2>2 DEF SwapAndRepayRead
<1>2. item.type \notin MarketTypes \union PermitTypes \union AmountTypes
  BY DEF MarketTypes, PermitTypes, AmountTypes
<1>3. R!ItemFacts(item)
        = <<Says(name, <<>>), Says(to, from), R!TokenFact("Repay asset: ", fields.address_3),
            R!TokenFact("Token in: ", fields.address_2),
            R!AmountFact("Max swapped: ", fields.amount, fields.address_2)>>
  <2>1. R!ItemFacts(item)
          = <<R!Fact(R!Name(item), <<>>),
              R!Fact(R!SubAccountLine("Repay sub-account: ", R!SubAccount(arg[2])),
                     R!SubAccountLine("From sub-account: ", R!SubAccount(arg[1]))),
              R!TokenFact("Repay asset: ", R!AddressIn(arg[7])),
              R!TokenFact("Token in: ", R!AddressIn(arg[6])),
              R!AmountFact("Max swapped: ", arg[9], R!AddressIn(arg[6]))>>
    BY <1>2, SameTypes DEF R!ItemFacts
  <2> QED
    BY <1>1, <2>1, SameWords
<1>4. \A index \in Nat : ItemScreen(item.type, index) = SwapAndRepayScreen(index)
  BY <1>2 DEF ItemScreen
<1>5. /\ Seen(ItemScreen(item.type, 0)) = Says(name, <<>>)
      /\ Seen(ItemScreen(item.type, 1)) = Says(to, from)
      /\ Seen(ItemScreen(item.type, 2)) = R!TokenFact("Repay asset: ", fields.address_3)
      /\ Seen(ItemScreen(item.type, 3)) = R!TokenFact("Token in: ", fields.address_2)
      /\ Seen(ItemScreen(item.type, 4))
           = R!AmountFact("Max swapped: ", fields.amount, fields.address_2)
  <2>1. /\ ItemScreen(item.type, 0) = SwapAndRepayScreen(0)
        /\ ItemScreen(item.type, 1) = SwapAndRepayScreen(1)
        /\ ItemScreen(item.type, 2) = SwapAndRepayScreen(2)
        /\ ItemScreen(item.type, 3) = SwapAndRepayScreen(3)
        /\ ItemScreen(item.type, 4) = SwapAndRepayScreen(4)
    BY <1>4
  <2>2. /\ SwapAndRepayScreen(0) = Screen(name, <<>>)
        /\ SwapAndRepayScreen(1) = Screen(to, from)
        /\ SwapAndRepayScreen(2) = Screen(<<Text("Repay asset: ")>>, Token2Line)
        /\ SwapAndRepayScreen(3) = TokenScreen("Token in: ")
        /\ SwapAndRepayScreen(4) = Screen(<<Text("Max swapped: ")>>, Amount1Line)
    BY DEF SwapAndRepayScreen
  <2> QED
    BY <2>1, <2>2, SeenScreen, TokenSeen
<1>6. ScreensOf(item.type) = 5
  BY <1>2 DEF ScreensOf
<1> QED
  BY <1>3, <1>5, <1>6

\* The screen of an item the plugin does not know.
LEMMA UnexpectedSeen ==
  ASSUME NEW item \in BatchItem, item.type = "UNEXPECTED_ITEM"
  PROVE  /\ R!ItemFacts(item) = <<Seen(ItemScreen(item.type, 0))>>
         /\ ScreensOf(item.type) = 1
<1>1. item.type \notin MarketTypes \union PermitTypes \union AmountTypes
  BY DEF MarketTypes, PermitTypes, AmountTypes
<1>2. R!ItemFacts(item) = <<Says(<<item_type_to_string(item.type)>>, <<>>)>>
  <2>1. R!ItemFacts(item) = <<R!Fact(R!Name(item), <<>>)>>
    BY <1>1, SameTypes DEF R!ItemFacts
  <2> QED
    BY <2>1, SameWords
<1>3. Seen(ItemScreen(item.type, 0)) = Says(<<item_type_to_string(item.type)>>, <<>>)
  BY <1>1 DEF ItemScreen, Seen, Screen, Says
<1>4. ScreensOf(item.type) = 1
  BY <1>1 DEF ScreensOf
<1> QED
  BY <1>2, <1>3, <1>4

\* The screens of a batch of one item are the facts of that item.
LEMMA ItemSeen ==
  ASSUME NEW item \in BatchItem, IsWhole(item),
         ArgumentsRead(item, WordsTaken(item), fields), Token1Known,
         item.type \in SwapTypes => Token2Known
  PROVE  /\ Len(R!ItemFacts(item)) = ScreensOf(item.type)
         /\ \A i \in 0..ScreensOf(item.type) - 1 :
              Seen(ItemScreen(item.type, i)) = R!ItemFacts(item)[i + 1]
<1> DEFINE S(i) == Seen(ItemScreen(item.type, i))
<1> HIDE DEF S
<1>1. CASE item.type \in MarketTypes \union PermitTypes
  <2>1. R!ItemFacts(item) = <<S(0), S(1)>> /\ ScreensOf(item.type) = 2
    BY <1>1, MarketSeen DEF S
  <2>2. \A i \in 0..1 : S(i) = <<S(0), S(1)>>[i + 1]
    OBVIOUS
  <2> QED
    BY <2>1, <2>2 DEF S
<1>2. CASE item.type \in AmountTypes
  <2>1. R!ItemFacts(item) = <<S(0), S(1), S(2)>> /\ ScreensOf(item.type) = 3
    BY <1>2, AmountSeen DEF S
  <2>2. \A i \in 0..2 : S(i) = <<S(0), S(1), S(2)>>[i + 1]
    OBVIOUS
  <2> QED
    BY <2>1, <2>2 DEF S
<1>3. CASE item.type = "TRANSFER"
  <2>1. R!ItemFacts(item) = <<S(0), S(1), S(2), S(3)>> /\ ScreensOf(item.type) = 4
    BY <1>3, TransferSeen DEF S
  <2>2. \A i \in 0..3 : S(i) = <<S(0), S(1), S(2), S(3)>>[i + 1]
    OBVIOUS
  <2> QED
    BY <2>1, <2>2 DEF S
<1>4. CASE item.type \in {"TRANSFER_FROM", "SWAP", "SWAP_AND_REPAY"}
  <2>1. R!ItemFacts(item) = <<S(0), S(1), S(2), S(3), S(4)>> /\ ScreensOf(item.type) = 5
    BY <1>4, TransferFromSeen, SwapSeen, SwapAndRepaySeen DEF S, SwapTypes
  <2>2. \A i \in 0..4 : S(i) = <<S(0), S(1), S(2), S(3), S(4)>>[i + 1]
    OBVIOUS
  <2> QED
    BY <2>1, <2>2 DEF S
<1>5. CASE item.type = "UNEXPECTED_ITEM"
  <2>1. R!ItemFacts(item) = <<S(0)>> /\ ScreensOf(item.type) = 1
    BY <1>5, UnexpectedSeen DEF S
  <2>2. \A i \in 0..0 : S(i) = <<S(0)>>[i + 1]
    OBVIOUS
  <2> QED
    BY <2>1, <2>2 DEF S
<1>6. item.type \in HandledTypes \union {"UNEXPECTED_ITEM"}
  BY DEF BatchItem
<1> QED
  BY <1>1, <1>2, <1>3, <1>4, <1>5, <1>6 DEF HandledTypes

-----------------------------------------------------------------------------
(***************************************************************************)
(* The screens of several items.                                           *)
(***************************************************************************)

\* Two sequences, one of them short.
LEMMA ShortConcat ==
  /\ \A a, b : <<a>> \o <<b>> = <<a, b>>
  /\ \A S : \A a \in S : \A s \in Seq(S) :
       /\ Len(<<a>> \o s) = 1 + Len(s)
       /\ (<<a>> \o s)[1] = a
       /\ \A k \in 1..Len(s) : (<<a>> \o s)[k + 1] = s[k]
<1>1. ASSUME NEW a, NEW b
      PROVE  <<a>> \o <<b>> = <<a, b>>
  <2>1. <<a>> \in Seq({a, b}) /\ <<b>> \in Seq({a, b}) /\ <<a, b>> \in Seq({a, b})
    OBVIOUS
  <2>2. <<a>> \o <<b>> \in Seq({a, b}) /\ Len(<<a>> \o <<b>>) = 2
    BY <2>1
  <2>3. (<<a>> \o <<b>>)[1] = a /\ (<<a>> \o <<b>>)[2] = b
    BY <2>1
  <2> DEFINE s == <<a>> \o <<b>>
  <2> HIDE DEF s
  <2>4. s \in Seq({a, b}) /\ Len(s) = 2 /\ s[1] = a /\ s[2] = b
    BY <2>2, <2>3 DEF s
  <2>5. s = <<a, b>>
    BY <2>4
  <2> QED
    BY <2>5 DEF s
<1>2. ASSUME NEW S, NEW a \in S, NEW s \in Seq(S)
      PROVE  /\ Len(<<a>> \o s) = 1 + Len(s)
             /\ (<<a>> \o s)[1] = a
             /\ \A k \in 1..Len(s) : (<<a>> \o s)[k + 1] = s[k]
  OBVIOUS
<1> QED
  BY <1>1, <1>2

\* The lines that the promise has for a batch.
LEMMA LinesOfBatch ==
  ASSUME NEW items, Len(items) \in 1..255
  PROVE  LET lines == R!BatchLines(items)
             n     == Len(items)
         IN  /\ Len(lines) = IF n > MAX_ITEMS_IN_BATCH THEN MAX_ITEMS_IN_BATCH + 1 ELSE n
             /\ \A i \in 1..n :
                  i <= MAX_ITEMS_IN_BATCH =>
                    lines[i] = <<Number(i), item_type_to_string(items[i].type)>>
             /\ n > MAX_ITEMS_IN_BATCH =>
                  lines[MAX_ITEMS_IN_BATCH + 1]
                    = <<Text("and"), Number(n - MAX_ITEMS_IN_BATCH), Text("more")>>
<1> DEFINE n       == Len(items)
           Line(i) == <<Number(i), item_type_to_string(items[i].type)>>
           more    == <<Text("and"), Number(n - MAX_ITEMS_IN_BATCH), Text("more")>>
<1>1. n \in Nat /\ MAX_ITEMS_IN_BATCH \in Nat
  BY MaxItemsAssumption DEF UINT8
<1>2. \A i : <<R!Number(i)>> \o R!Name(items[i]) = Line(i)
  BY SameWords, ShortConcat
<1>3. <<R!Text("and"), R!Number(n - MAX_ITEMS_IN_BATCH), R!Text("more")>> = more
  BY SameWords
<1>4. CASE n <= MAX_ITEMS_IN_BATCH
  <2>1. R!BatchLines(items) = [i \in 1..n |-> Line(i)]
    BY <1>2, <1>4 DEF R!BatchLines
  <2> HIDE DEF n, Line
  <2>2. Len([i \in 1..n |-> Line(i)]) = n
    BY <1>1
  <2>3. \A i \in 1..n : [j \in 1..n |-> Line(j)][i] = Line(i)
    OBVIOUS
  <2> DEFINE f == [i \in 1..n |-> Line(i)]
  <2> HIDE DEF f
  <2>4. Len(f) = n /\ \A i \in 1..n : f[i] = Line(i)
    BY <2>2, <2>3 DEF f
  <2>5. R!BatchLines(items) = f
    BY <2>1 DEF f
  <2>6. ~(n > MAX_ITEMS_IN_BATCH)
    BY <1>1, <1>4
  <2> QED
    BY <2>4, <2>5, <2>6 DEF n, Line
<1>5. CASE n > MAX_ITEMS_IN_BATCH
  <2> DEFINE m == MAX_ITEMS_IN_BATCH
             f == [i \in 1..m + 1 |-> IF i <= m THEN Line(i) ELSE more]
  <2>1. R!BatchLines(items) = f
    <3> ~(n <= MAX_ITEMS_IN_BATCH)
      BY <1>1, <1>5
    <3> QED
      BY <1>2, <1>3 DEF R!BatchLines
  <2> HIDE DEF n, Line, more
  <2>2. Len(f) = m + 1
    BY <1>1
  <2>3. \A i \in 1..n : i <= m => f[i] = Line(i)
    BY <1>1
  <2>4. f[m + 1] = more
    BY <1>1
  <2> HIDE DEF f
  <2> QED
    BY <1>1, <1>5, <2>1, <2>2, <2>3, <2>4 DEF n, Line, more
<1> QED
  BY <1>1, <1>4, <1>5

\* The facts of a batch, two lines to a screen.
LEMMA FactsOfBatch ==
  ASSUME NEW items, Len(items) \in 1..255
  PROVE  LET lines   == R!BatchLines(items)
             Line(i) == IF i <= Len(lines) THEN lines[i] ELSE <<>>
             facts   == R!BatchFacts(items)
         IN  /\ Len(facts) = 1 + (Len(lines) + 1) \div 2
             /\ facts[1] = Says(<<Number(Len(items)), Text("items")>>, <<Text("in a batch")>>)
             /\ \A s \in 1..(Len(lines) + 1) \div 2 :
                  facts[s + 1] = Says(Line(2 * s - 1), Line(2 * s))
<1> DEFINE lines   == R!BatchLines(items)
           Line(i) == IF i <= Len(lines) THEN lines[i] ELSE <<>>
           pages   == (Len(lines) + 1) \div 2
           first   == Says(<<Number(Len(items)), Text("items")>>, <<Text("in a batch")>>)
           rest    == [s \in 1..pages |-> Says(Line(2 * s - 1), Line(2 * s))]
           S       == {first} \union {rest[s] : s \in 1..pages}
<1>1. pages \in Nat
  <2> Len(lines) \in Nat
    BY LinesOfBatch, MaxItemsAssumption DEF UINT8
  <2> HIDE DEF lines
  <2> QED
    OBVIOUS
<1>2. R!BatchFacts(items) = <<first>> \o rest
  BY SameWords DEF R!BatchFacts
<1> HIDE DEF lines, Line, pages, first
<1>3. rest \in Seq(S) /\ Len(rest) = pages
  <2>1. rest \in [1..pages -> S]
    OBVIOUS
  <2>2. DOMAIN rest = 1..pages
    OBVIOUS
  <2> HIDE DEF rest, S
  <2> QED
    BY <1>1, <2>1, <2>2
<1>4. \A s \in 1..pages : rest[s] = Says(Line(2 * s - 1), Line(2 * s))
  OBVIOUS
<1>5. first \in S
  OBVIOUS
<1> HIDE DEF rest, S
<1>6. /\ Len(<<first>> \o rest) = 1 + pages
      /\ (<<first>> \o rest)[1] = first
      /\ \A k \in 1..pages : (<<first>> \o rest)[k + 1] = rest[k]
  BY <1>3, <1>5, ShortConcat
<1> QED
  BY <1>2, <1>4, <1>6 DEF lines, Line, pages, first

\* The context holds the batch t of several items.
ListKnown(t) ==
  /\ ShowsList /\ batch_dispatch_number_of_items = Len(Items(t))
  /\ (is_max_exceeded <=> Len(Items(t)) > MAX_ITEMS_IN_BATCH)
  /\ TypesKnown(t, Len(Items(t)))

\* The screens of a batch of several items are its facts.
LEMMA BatchSeen ==
  ASSUME NEW t \in Decodable, ListKnown(t), ~ListEndsHalfway(t)
  PROVE  /\ Len(R!BatchFacts(Items(t))) = ScreensOfBatch
         /\ \A i \in 0..ScreensOfBatch - 1 :
              Seen(ScreenAt(i)) = R!BatchFacts(Items(t))[i + 1]
<1> DEFINE items   == Items(t)
           n       == Len(items)
           m       == MAX_ITEMS_IN_BATCH
           lines   == R!BatchLines(items)
           Line(k) == IF k <= Len(lines) THEN lines[k] ELSE <<>>
           Told(k) == <<Number(k), item_type_to_string(items[k].type)>>
           facts   == R!BatchFacts(items)
           pages   == (Len(lines) + 1) \div 2
<1>1. /\ n \in 1..255 /\ m \in 1..255 /\ n # 1 /\ n \in Nat /\ m \in Nat
      /\ batch_dispatch_number_of_items = n
      /\ (is_max_exceeded <=> n > m)
  <2>1. n \in 1..255
    BY HeadPlaces
  <2>2. n # 1 /\ batch_dispatch_number_of_items = n /\ (is_max_exceeded <=> n > m)
    BY DEF ListKnown, ShowsList
  <2> HIDE DEF n
  <2> QED
    BY <2>1, <2>2, MaxItemsAssumption DEF UINT8
<1>2. /\ Len(lines) = IF n > m THEN m + 1 ELSE n
      /\ \A k \in 1..n : k <= m => lines[k] = Told(k)
      /\ n > m => lines[m + 1] = <<Text("and"), Number(n - m), Text("more")>>
  BY <1>1, LinesOfBatch
<1>3. /\ Len(facts) = 1 + pages
      /\ facts[1] = Says(<<Number(n), Text("items")>>, <<Text("in a batch")>>)
      /\ \A s \in 1..pages : facts[s + 1] = Says(Line(2 * s - 1), Line(2 * s))
  BY <1>1, FactsOfBatch
<1>4. n % 2 = 0 \/ n >= m
  <2>1. n % 2 = 0 \/ n % 2 = 1
    <3> HIDE DEF n
    <3> QED
      BY <1>1
  <2>2. n % 2 = 1 => n >= m
    <3>1. ~(n # 1 /\ n % 2 = 1 /\ n < m)
      BY DEF ListEndsHalfway
    <3> HIDE DEF n, m
    <3> QED
      BY <1>1, <3>1
  <2> QED
    BY <2>1, <2>2
<1>5. ASSUME NEW index \in Nat, index < n, index < m
      PROVE  ItemTypeLine(index) = Told(index + 1)
  <2>1. index \in Indices
    BY <1>1, <1>5 DEF Indices
  <2>2. item_types[index] = items[index + 1].type
    BY <1>5, <2>1 DEF ListKnown, TypesKnown
  <2> QED
    BY <2>2 DEF ItemTypeLine
<1>6. MoreLine = <<Text("and"), Number(n - m), Text("more")>>
  BY <1>1 DEF MoreLine
<1>7. ScreensOfBatch = 1 + pages
  <2>1. ScreensOfBatch = IF n > m THEN 1 + m \div 2 + 1 ELSE 1 + (n \div 2) + (n % 2)
    BY <1>1 DEF ScreensOfBatch
  <2>2. pages = IF n > m THEN (m + 2) \div 2 ELSE (n + 1) \div 2
    <3> HIDE DEF n, m, lines
    <3> QED
      BY <1>1, <1>2
  <2> HIDE DEF n, m, pages
  <2>3. \A k \in 1..255 : (k + 2) \div 2 = k \div 2 + 1 /\ (k + 1) \div 2 = (k \div 2) + (k % 2)
    OBVIOUS
  <2>4. (m + 2) \div 2 = m \div 2 + 1 /\ (n + 1) \div 2 = (n \div 2) + (n % 2)
    BY <1>1, <2>3
  <2>5. m \div 2 \in Nat /\ n \div 2 \in Nat /\ n % 2 \in Nat
    BY <1>1
  <2> QED
    BY <1>1, <2>1, <2>2, <2>4, <2>5
<1>8. Seen(ScreenAt(0)) = facts[1]
  <2>1. ScreenAt(0) = SummaryScreen
    BY DEF ListKnown, ShowsList, ScreenAt
  <2>2. SummaryScreen = Screen(<<Number(n), Text("items")>>, <<Text("in a batch")>>)
    BY <1>1 DEF SummaryScreen
  <2> QED
    BY <1>3, <2>1, <2>2, SeenScreen
<1>9. ASSUME NEW i \in 1..pages
      PROVE  Seen(ScreenAt(i)) = Says(Line(2 * i - 1), Line(2 * i))
  <2> DEFINE index == (i - 1) * 2
  <2>1. /\ i \in Nat /\ i # 0 /\ index \in Nat /\ index + 1 = 2 * i - 1 /\ index + 2 = 2 * i
        /\ (index + 1) + 1 = 2 * i
    BY <1>9
  <2>2. ScreenAt(i) = ItemTypesScreen(i)
    BY <2>1 DEF ListKnown, ShowsList, ScreenAt
  <2>3. 2 * i <= Len(lines) + 1 /\ Len(lines) \in Nat
    <3> HIDE DEF lines, n, m
    <3>1. Len(lines) \in Nat
      BY <1>1, <1>2
    <3>2. 2 * ((Len(lines) + 1) \div 2) <= Len(lines) + 1
      BY <3>1
    <3> QED
      BY <1>9, <3>1, <3>2
  <2>4. \A s, r : \A a, b : Seen([title |-> a, msg |-> b, result |-> r]) = Says(a, b)
    BY DEF Seen, Says
  <2>5. ItemTypesScreen(i)
          = CASE index + 1 < m -> Screen(ItemTypeLine(index), ItemTypeLine(index + 1))
              [] index + 1 = m ->
                   IF is_max_exceeded THEN Screen(ItemTypeLine(index), MoreLine)
                                      ELSE BadScreen(ItemTypeLine(index), <<>>)
              [] OTHER ->
                   IF is_max_exceeded THEN Screen(MoreLine, <<>>) ELSE BadScreen(<<>>, <<>>)
    BY DEF ItemTypesScreen
  <2> HIDE DEF index, n, m, lines
  <2> /\ n \in Nat /\ m \in Nat
      /\ Len(lines) = IF n > m THEN m + 1 ELSE n
    BY <1>1, <1>2
  <2>6. CASE index + 1 < m
    <3>1. index + 1 < n
      <4>1. CASE n > m
        BY <1>1, <2>1, <2>6, <4>1
      <4>2. CASE ~(n > m)
        <5>1. index + 2 <= n + 1
          BY <2>1, <2>3, <4>2
        <5>2. CASE n >= m
          BY <1>1, <2>1, <2>6, <5>2
        <5>3. CASE n % 2 = 0
          <6>1. 2 * i # n + 1
            BY <1>1, <2>1, <5>3
          <6> QED
            BY <1>1, <2>1, <5>1, <6>1
        <5> QED
          BY <1>4, <5>2, <5>3
      <4> QED
        BY <4>1, <4>2
    <3>2. ItemTypesScreen(i) = Screen(ItemTypeLine(index), ItemTypeLine(index + 1))
      BY <2>6, <2>5
    <3>3. ItemTypeLine(index) = Told(2 * i - 1) /\ ItemTypeLine(index + 1) = Told(2 * i)
      <4>1. index < n /\ index < m /\ index + 1 < n /\ index + 1 < m /\ index + 1 \in Nat
        BY <1>1, <2>1, <2>6, <3>1
      <4>2. ItemTypeLine(index) = Told(index + 1)
        BY <1>5, <2>1, <4>1
      <4>3. ItemTypeLine(index + 1) = Told((index + 1) + 1)
        BY <1>5, <4>1
      <4> QED
        BY <2>1, <4>2, <4>3
    <3>4. Line(2 * i - 1) = Told(2 * i - 1) /\ Line(2 * i) = Told(2 * i)
      <4>1. 2 * i - 1 \in 1..n /\ 2 * i \in 1..n /\ 2 * i <= m /\ 2 * i - 1 <= m
        BY <1>1, <2>1, <2>6, <3>1
      <4>2. 2 * i <= Len(lines) /\ 2 * i - 1 <= Len(lines)
        BY <4>1
      <4> QED
        BY <1>2, <4>1, <4>2
    <3> HIDE DEF Told, Line
    <3> QED
      BY <2>2, <3>2, <3>3, <3>4, SeenScreen
  <2>7. CASE index + 1 = m
    <3>1. index < n /\ index < m
      BY <1>4, <2>1, <2>3, <2>7
    <3>2. ItemTypeLine(index) = Told(2 * i - 1)
      BY <1>5, <2>1, <3>1
    <3>3. Line(2 * i - 1) = Told(2 * i - 1)
      <4>1. 2 * i - 1 \in 1..n /\ 2 * i - 1 <= m
        BY <1>1, <2>1, <2>7, <3>1
      <4>2. 2 * i - 1 <= Len(lines)
        BY <4>1
      <4> QED
        BY <1>2, <4>1, <4>2
    <3>4. CASE n > m
      <4>1. ItemTypesScreen(i) = Screen(ItemTypeLine(index), MoreLine)
        BY <1>1, <2>7, <2>5, <3>4
      <4>2. Line(2 * i) = MoreLine
        <5>1. 2 * i = m + 1 /\ 2 * i <= Len(lines)
          BY <2>1, <2>7, <3>4
        <5> QED
          BY <1>2, <1>6, <3>4, <5>1
      <4> HIDE DEF Told, Line
      <4> QED
        BY <2>2, <3>2, <3>3, <4>1, <4>2, SeenScreen
    <3>5. CASE ~(n > m)
      <4>1. ItemTypesScreen(i) = BadScreen(ItemTypeLine(index), <<>>)
        BY <1>1, <2>7, <2>5, <3>5
      <4>2. Line(2 * i) = <<>>
        <5>1. ~(2 * i <= Len(lines))
          BY <2>1, <2>7, <3>5
        <5> QED
          BY <5>1
      <4> HIDE DEF Told, Line
      <4> QED
        BY <2>2, <2>4, <3>2, <3>3, <4>1, <4>2 DEF BadScreen
    <3> QED
      BY <3>4, <3>5
  <2>8. CASE index + 1 > m
    <3>1. n > m /\ 2 * i - 1 = m + 1
      BY <2>1, <2>3, <2>8
    <3>2. ItemTypesScreen(i) = Screen(MoreLine, <<>>)
      BY <1>1, <2>1, <2>8, <2>5, <3>1
    <3>3. Line(2 * i - 1) = MoreLine /\ Line(2 * i) = <<>>
      <4>1. 2 * i - 1 <= Len(lines) /\ ~(2 * i <= Len(lines))
        BY <2>1, <3>1
      <4> QED
        BY <1>2, <1>6, <3>1, <4>1
    <3> HIDE DEF Line
    <3> QED
      BY <2>2, <3>2, <3>3, SeenScreen
  <2> QED
    BY <1>1, <2>1, <2>6, <2>7, <2>8
<1>10. ASSUME NEW i \in 0..pages
       PROVE  Seen(ScreenAt(i)) = facts[i + 1]
  <2> HIDE DEF pages, facts, Line
  <2>1. CASE i = 0
    BY <1>8, <2>1
  <2>2. CASE i # 0
    <3>1. i \in 1..pages
      BY <1>10, <2>2
    <3> QED
      BY <1>3, <1>9, <3>1
  <2> QED
    BY <2>1, <2>2
<1>11. pages \in Nat
  <2> HIDE DEF lines, n, m
  <2>1. Len(lines) \in Nat
    BY <1>1, <1>2
  <2> QED
    BY <2>1
<1> HIDE DEF pages, facts
<1>12. ScreensOfBatch - 1 = pages
  BY <1>7, <1>11
<1> QED
  BY <1>3, <1>7, <1>10, <1>12 DEF facts

-----------------------------------------------------------------------------
(***************************************************************************)
(* The screens of a transaction.                                           *)
(***************************************************************************)

\* The transactions whose review is true: a market to activate, an item that has the
\* arguments of its function, a list of items whose last screen is not half empty.
Reviewable ==
  Activations \union
  {t \in Decodable : /\ Len(Items(t)) = 1 => IsWhole(Items(t)[1])
                     /\ ~ListEndsHalfway(t)}

\* The screens announced are as many as the facts, and each says one of them.
TellsFacts(t) ==
  /\ numScreens = Len(R!Facts(Transactions[t]))
  /\ \A i \in 0..numScreens - 1 : Seen(ScreenAt(i)) = R!Facts(Transactions[t])[i + 1]

\* The app's tokens are those of the fields.
LEMMA TokensKnown ==
  ASSUME AnswersInv, phase \in {"informed", "review"}
  PROVE  /\ Token1Known
         /\ selectorIndex = "BATCH_DISPATCH" /\ batch_dispatch_number_of_items = 1
              /\ item_types[0] \in SwapTypes => Token2Known
<1>1. DataIsIn /\ Asked /\ Informed
  BY DEF DataIsIn, AnswersInv
<1>2. /\ KnownAs(tokenLookup1, token_found_1, ticker_1, decimals_1)
      /\ KnownAs(tokenLookup2, token_found_2, ticker_2, decimals_2)
  BY <1>1 DEF Informed
<1>3. /\ tokenLookup1 = fields.address_2
      /\ selectorIndex = "BATCH_DISPATCH" /\ batch_dispatch_number_of_items = 1
           /\ item_types[0] \in SwapTypes => tokenLookup2 = fields.address_3
  BY <1>1 DEF Asked
<1> QED
  BY <1>2, <1>3 DEF Token1Known, Token2Known

\* The one screen of activateMarket.
LEMMA ActivationTold ==
  ASSUME ReadInv, AnswersInv, phase \in {"informed", "review"},
         NEW t \in Activations, tx = t
  PROVE  TellsFacts(t)
<1> DEFINE market == AddressIn(Transactions[t].underlying)
<1>1. phase # "idle" /\ DataIsIn
  BY DEF DataIsIn
<1>2. MarketKnown(t) /\ fieldIndex = 1
  BY <1>1 DEF ReadInv
<1>3. selectorIndex = "ACTIVATE_MARKET" /\ fields.address_2 = market
  BY <1>2 DEF MarketKnown
<1>4. numScreens = 1
  BY <1>1, <1>3 DEF AnswersInv, Asked
<1>5. R!Facts(Transactions[t]) = <<R!TokenFact("Token: ", market)>>
  BY SameWords DEF Activations, R!Facts
<1>6. ScreenAt(0) = TokenScreen("Token: ")
  BY <1>3 DEF ScreenAt
<1>7. Seen(ScreenAt(0)) = R!TokenFact("Token: ", market)
  BY <1>3, <1>6, TokensKnown, TokenSeen
<1>8. Len(R!Facts(Transactions[t])) = 1 /\ R!Facts(Transactions[t])[1] = Seen(ScreenAt(0))
  <2> DEFINE fact   == R!TokenFact("Token: ", market)
             facts  == R!Facts(Transactions[t])
             screen == Seen(ScreenAt(0))
  <2>1. facts = <<fact>> /\ screen = fact
    BY <1>5, <1>7
  <2> HIDE DEF fact, facts, screen
  <2>2. Len(facts) = 1 /\ facts[1] = screen
    BY <2>1
  <2> QED
    BY <2>2 DEF facts, screen
<1>9. ASSUME NEW i \in 0..0
      PROVE  Seen(ScreenAt(i)) = R!Facts(Transactions[t])[i + 1]
  <2> i = 0 /\ i + 1 = 1
    OBVIOUS
  <2> QED
    BY <1>8
<1> QED
  BY <1>4, <1>8, <1>9 DEF TellsFacts

\* A batch of one item.
LEMMA OnlyItemTold ==
  ASSUME SessionInv, BatchInv, ReadInv, AnswersInv, phase \in {"informed", "review"},
         NEW t \in Whole, tx = t
  PROVE  TellsFacts(t)
<1> DEFINE item == Items(t)[1]
<1>1. /\ t \in Decodable /\ Len(Items(t)) = 1 /\ item \in BatchItem /\ IsWhole(item)
  BY OnlyItemWords
<1>2. DataIsIn /\ phase # "idle"
  BY DEF DataIsIn
<1>3. IInv /\ Follows(t) /\ fieldIndex = Len(Words[t]) /\ OnlyItemRead(t)
  BY <1>1, <1>2 DEF SessionInv, BatchInv, ReadInv
<1>4. selectorIndex = "BATCH_DISPATCH" /\ batch_dispatch_number_of_items = 1
  BY <1>1, <1>2, BatchRead
<1>5. next_param = "UNEXPECTED_PARAMETER"
  <2>1. SwapIsComplete(t)
    BY <1>1 DEF SwapIsComplete, IsWhole
  <2>2. fieldIndex >= DeferredStart(t)
    BY <1>1, <1>3, WordsOfBatch, Numbers
  <2> QED
    BY <1>1, <1>3, <2>1, <2>2, DoneAfterItems
<1>6. item_types[0] = item.type
  <2>1. 0 \in Indices
    BY MaxItemsAssumption DEF Indices, UINT8
  <2>2. TypesKnown(t, 1)
    BY <1>1, <1>3, <1>5 DEF Follows, AfterItems
  <2> QED
    BY <2>1, <2>2 DEF TypesKnown
<1>7. ArgumentsRead(item, WordsTaken(item), fields)
  BY <1>3, <1>5 DEF OnlyItemRead
<1>8. /\ Len(R!ItemFacts(item)) = ScreensOf(item.type)
      /\ \A i \in 0..ScreensOf(item.type) - 1 :
           Seen(ItemScreen(item.type, i)) = R!ItemFacts(item)[i + 1]
  BY <1>1, <1>4, <1>6, <1>7, TokensKnown, ItemSeen
<1>9. numScreens = ScreensOf(item.type)
  BY <1>2, <1>4, <1>6 DEF AnswersInv, Asked
<1>10. R!Facts(Transactions[t]) = R!ItemFacts(item)
  <2>1. Transactions[t].function = "BATCH_DISPATCH"
    BY <1>1 DEF Decodable
  <2> QED
    BY <1>1, <2>1 DEF R!Facts, Items
<1>11. \A i : ScreenAt(i) = ItemScreen(item.type, i)
  BY <1>4, <1>6 DEF ScreenAt
<1> HIDE DEF item
<1> QED
  BY <1>8, <1>9, <1>10, <1>11 DEF TellsFacts

\* A batch of several items.
LEMMA ListTold ==
  ASSUME SessionInv, BatchInv, AnswersInv, phase \in {"informed", "review"},
         NEW t \in Decodable, tx = t, Len(Items(t)) # 1, ~ListEndsHalfway(t)
  PROVE  TellsFacts(t)
<1>1. DataIsIn /\ phase # "idle"
  BY DEF DataIsIn
<1>2. IInv /\ Follows(t) /\ fieldIndex = Len(Words[t])
  BY <1>1 DEF SessionInv, BatchInv
<1>3. /\ selectorIndex = "BATCH_DISPATCH"
      /\ batch_dispatch_number_of_items = Len(Items(t))
      /\ (is_max_exceeded <=> Len(Items(t)) > MAX_ITEMS_IN_BATCH)
  BY <1>1, BatchRead
<1>4. TypesKnown(t, Len(Items(t)))
  <2>1. SwapIsComplete(t)
    BY DEF SwapIsComplete
  <2>2. fieldIndex >= DeferredStart(t)
    BY <1>2, WordsOfBatch, Numbers
  <2>3. next_param = "UNEXPECTED_PARAMETER"
    BY <1>2, <2>1, <2>2, DoneAfterItems
  <2> QED
    BY <1>2, <2>3 DEF Follows, AfterItems
<1>5. ListKnown(t)
  BY <1>3, <1>4 DEF ListKnown, ShowsList
<1>6. numScreens = ScreensOfBatch
  BY <1>1, <1>3 DEF SessionInv, Announced
<1>7. R!Facts(Transactions[t]) = R!BatchFacts(Items(t))
  <2>1. Transactions[t].function = "BATCH_DISPATCH"
    BY DEF Decodable
  <2> QED
    BY <2>1 DEF R!Facts, Items
<1> QED
  BY <1>5, <1>6, <1>7, BatchSeen DEF TellsFacts

\* Every transaction that can be reviewed.
LEMMA FactsTold ==
  ASSUME SessionInv, BatchInv, ReadInv, AnswersInv, phase \in {"informed", "review"},
         NEW t \in Reviewable, tx = t
  PROVE  TellsFacts(t)
<1>1. CASE t \in Activations
  BY <1>1, ActivationTold
<1>2. CASE t \in Decodable /\ Len(Items(t)) = 1 /\ IsWhole(Items(t)[1])
  <2> t \in Whole
    BY <1>2 DEF Whole
  <2> QED
    BY OnlyItemTold
<1>3. CASE t \in Decodable /\ Len(Items(t)) # 1 /\ ~ListEndsHalfway(t)
  BY <1>3, ListTold
<1> QED
  BY <1>1, <1>2, <1>3 DEF Reviewable

-----------------------------------------------------------------------------
(***************************************************************************)
(* The review.                                                             *)
(***************************************************************************)

\* The app is busy with a transaction that init accepted.
Accepted == phase # "idle" => tx \in Readable

\* The screen displayed says the fact that the user has leafed to.
Displayed == [title |-> title, msg |-> msg]

DisplayedTrue ==
  \A t \in Reviewable :
    phase = "review" /\ tx = t /\ screenIndex # NoIndex =>
      /\ screenIndex \in 0..numScreens - 1
      /\ Displayed = R!Facts(Transactions[t])[screenIndex + 1]

\* The inductive invariant: what has been read of the transaction, what the app was
\* asked and has answered, and what is displayed.
ReviewInv == SessionInv /\ BatchInv /\ ReadInv /\ AnswersInv /\ Accepted /\ DisplayedTrue

\* Between transactions nothing is displayed.
LEMMA ReviewInvInit == SessionInit => ReviewInv
<1>1. SessionInit => Accepted /\ DisplayedTrue
  BY DEF SessionInit, Accepted, DisplayedTrue
<1> QED
  BY <1>1, SessionInvInit, BatchInvInit, ReadInvInit, AnswersInvInit DEF ReviewInv

\* Only init begins with a transaction.
LEMMA AcceptedStep ==
  ASSUME Accepted, [SessionNext]_sessionVars
  PROVE  Accepted'
<1>1. ASSUME NEW t \in DOMAIN Transactions, Begin(t)
      PROVE  Accepted'
  <2>1. result' = "OK" => t \in Readable
    BY <1>1, AcceptsReadable DEF Begin
  <2> QED
    BY <1>1, <2>1 DEF Begin, Accepted
<1>2. ASSUME tx' = tx, phase' # "idle" => phase # "idle"
      PROVE  Accepted'
  BY <1>2 DEF Accepted
<1>3. CASE Feed \/ EndOfData \/ Inform \/ Identify
  BY <1>2, <1>3 DEF Feed, EndOfData, Inform, Identify, hostVars
<1>4. CASE \E i \in 0..numScreens - 1 : LeafTo(i)
  BY <1>2, <1>4 DEF LeafTo
<1>5. CASE End
  BY <1>5 DEF End, Accepted
<1>6. CASE UNCHANGED sessionVars
  BY <1>2, <1>6 DEF sessionVars, hostVars
<1> QED
  BY <1>1, <1>3, <1>4, <1>5, <1>6 DEF SessionNext

\* The screen leafed to says its fact, and stays until the next.
LEMMA DisplayedTrueStep ==
  ASSUME ReviewInv, [SessionNext]_sessionVars
  PROVE  DisplayedTrue'
<1> SUFFICES ASSUME NEW t \in Reviewable, phase' = "review", tx' = t, screenIndex' # NoIndex
             PROVE  /\ screenIndex' \in 0..numScreens' - 1
                    /\ Displayed' = R!Facts(Transactions[t])[screenIndex' + 1]
  BY DEF DisplayedTrue
<1>1. SessionInv /\ BatchInv /\ ReadInv /\ AnswersInv /\ DisplayedTrue
  BY DEF ReviewInv
<1>2. CASE \E i \in 0..numScreens - 1 : LeafTo(i)
  <2>1. PICK i \in 0..numScreens - 1 : LeafTo(i)
    BY <1>2
  <2>2. phase = "review" /\ tx = t /\ screenIndex' = i /\ numScreens' = numScreens
    BY <2>1 DEF LeafTo, QueryContractUI, lookupVars
  <2>3. Displayed' = Seen(ScreenAt(i))
    BY <2>1 DEF LeafTo, QueryContractUI, Displayed, Seen
  <2>4. TellsFacts(t)
    BY <1>1, <2>2, FactsTold
  <2> QED
    BY <2>2, <2>3, <2>4 DEF TellsFacts
<1>3. CASE UNCHANGED sessionVars
  <2>1. UNCHANGED <<phase, tx, screenIndex, numScreens, title, msg>>
    BY <1>3 DEF sessionVars, displayVars, lookupVars, screenVars, hostVars
  <2> QED
    BY <1>1, <2>1 DEF DisplayedTrue, Displayed
<1>4. CASE Identify
  <2> phase = "informed" /\ screenIndex' = screenIndex
    BY <1>4 DEF Identify
  <2> QED
    BY <1>1 DEF AnswersInv
<1>5. ASSUME NEW s \in DOMAIN Transactions, Begin(s)
      PROVE  FALSE
  BY <1>5 DEF Begin
<1>6. CASE Feed \/ EndOfData \/ Inform \/ End
  BY <1>6 DEF Feed, EndOfData, Inform, End, hostVars
<1> QED
  BY <1>2, <1>3, <1>4, <1>5, <1>6 DEF SessionNext

LEMMA ReviewInvStep == ReviewInv /\ [SessionNext]_sessionVars => ReviewInv'
<1> SUFFICES ASSUME ReviewInv, [SessionNext]_sessionVars
             PROVE  ReviewInv'
  OBVIOUS
<1>1. SessionInv /\ BatchInv /\ ReadInv /\ AnswersInv /\ Accepted
  BY DEF ReviewInv
<1>2. SessionInv' /\ BatchInv'
  BY <1>1, SessionStep, BatchStep
<1>3. ReadInv' /\ AnswersInv' /\ Accepted'
  BY <1>1, ReadStep, AnswersStep, AcceptedStep
<1> QED
  BY <1>2, <1>3, DisplayedTrueStep DEF ReviewInv

LEMMA ReviewInvariant == SessionSpec => []ReviewInv
BY ReviewInvInit, ReviewInvStep, PTL DEF SessionSpec

-----------------------------------------------------------------------------
(***************************************************************************)
(* What follows.                                                           *)
(***************************************************************************)

\* The screens of the transaction under review, and the one displayed, are its facts.
SaysTheFacts ==
  phase = "review" =>
    /\ numScreens = Len(R!Facts(Tx))
    /\ screenIndex # NoIndex => Displayed = R!Facts(Tx)[screenIndex + 1]

\* Whatever the transactions before it, however malformed, and wherever they were given
\* up: a transaction that can be reviewed has as many screens as there are facts to
\* tell of it, and each screen the user leafs to says the fact of its number, with the
\* arguments, tokens, amounts and sub-accounts of that transaction
\* (handle_provide_parameter.c:47-342, handle_finalize.c:7-62,
\* handle_provide_token.c:3-24, handle_query_contract_ui.c:3-385).
THEOREM ReviewableIsReviewed == SessionSpec => [](tx \in Reviewable => SaysTheFacts)
<1>1. ReviewInv => (tx \in Reviewable => SaysTheFacts)
  <2> SUFFICES ASSUME ReviewInv, NEW t \in Reviewable, t = tx, phase = "review"
               PROVE  /\ numScreens = Len(R!Facts(Transactions[t]))
                      /\ screenIndex # NoIndex =>
                           Displayed = R!Facts(Transactions[t])[screenIndex + 1]
    BY DEF SaysTheFacts, Tx
  <2>1. TellsFacts(t)
    BY FactsTold DEF ReviewInv
  <2> QED
    BY <2>1 DEF TellsFacts, ReviewInv, DisplayedTrue
<1> QED
  BY <1>1, ReviewInvariant, PTL

\* If every transaction the plugin agrees to read can be reviewed, the plugin keeps the
\* promise of Review: identifying the contract submits the transaction, leafing to a
\* screen shows its fact, and every other call leaves the review as it is.
THEOREM ReviewsAreTrue ==
  ASSUME Readable \subseteq Reviewable
  PROVE  SessionSpec => ReviewIsTrue
<1>1. SessionInit => R!Init
  BY DEF SessionInit, R!Init, R!NoTransaction, R!NoScreen, NoTx
<1>2. ReviewInv /\ ReviewInv' /\ [SessionNext]_sessionVars => [R!Next]_(R!reviewVars)
  <2> SUFFICES ASSUME ReviewInv, ReviewInv', [SessionNext]_sessionVars
               PROVE  [R!Next]_(R!reviewVars)
    OBVIOUS
  <2>1. phase # "idle" => tx \in Readable /\ tx \in DOMAIN Transactions /\ tx # NoTx
    BY TransactionsAssumption DEF ReviewInv, Accepted, Readable, NoTx
  <2>2. ASSUME UNCHANGED <<tx, numScreens, screenIndex, title, msg, phase>>
        PROVE  UNCHANGED R!reviewVars
    BY <2>2 DEF R!reviewVars
  <2>3. ASSUME phase # "review", phase' # "review"
        PROVE  UNCHANGED R!reviewVars
    BY <2>3 DEF R!reviewVars
  <2>4. ASSUME Identify
        PROVE  R!Submit(tx)
    <3>1. /\ phase = "informed" /\ phase' = "review" /\ screenIndex' = screenIndex
          /\ tx' = tx /\ numScreens' = numScreens
      BY <2>4 DEF Identify, QueryContractID, lookupVars
    <3>2. screenIndex = NoIndex
      BY <3>1 DEF ReviewInv, AnswersInv
    <3>3. Transactions[tx].function \in {"ACTIVATE_MARKET", "BATCH_DISPATCH"}
      BY <2>1, <3>1 DEF Readable
    <3>4. numScreens = Len(R!Facts(Transactions[tx]))
      BY <2>1, <3>1, FactsTold DEF ReviewInv, TellsFacts
    <3> QED
      BY <3>1, <3>2, <3>3, <3>4 DEF R!Submit, R!NoTransaction, R!NoScreen, NoTx
  <2>5. ASSUME NEW i \in 0..numScreens - 1, LeafTo(i)
        PROVE  R!Show(i + 1) /\ i + 1 \in 1..numScreens /\ phase = "review"
    <3>1. /\ phase = "review" /\ phase' = "review" /\ screenIndex' = i
          /\ tx' = tx /\ numScreens' = numScreens /\ tx \in Reviewable
      BY <2>1, <2>5 DEF LeafTo, QueryContractUI, lookupVars
    <3>2. numScreens \in Nat /\ i \in Nat
      BY DEF ReviewInv, SessionInv, SessionTypeOK, UINT8
    <3>3. screenIndex' # NoIndex /\ i + 1 \in 1..numScreens
      BY <3>1, <3>2 DEF NoIndex
    <3>4. Displayed' = R!Facts(Transactions[tx])[i + 1]
      BY <3>1, <3>3 DEF ReviewInv, DisplayedTrue
    <3> QED
      BY <2>1, <3>1, <3>3, <3>4 DEF R!Show, R!NoTransaction, NoTx, Displayed
  <2>6. ASSUME End, phase = "review"
        PROVE  R!Close
    BY <2>1, <2>6 DEF End, R!Close, R!NoTransaction, R!NoScreen, NoTx
  <2>7. CASE Identify
    <3> tx \in DOMAIN Transactions
      BY <2>1, <2>7 DEF Identify
    <3> QED
      BY <2>4, <2>7 DEF R!Next
  <2>8. CASE \E i \in 0..numScreens - 1 : LeafTo(i)
    <3>1. PICK i \in 0..numScreens - 1 : LeafTo(i)
      BY <2>8
    <3> QED
      BY <2>5, <3>1 DEF R!Next
  <2>9. CASE End
    <3>1. CASE phase = "review"
      BY <2>6, <2>9, <3>1 DEF R!Next
    <3>2. CASE phase # "review"
      BY <2>3, <2>9, <3>2 DEF End
    <3> QED
      BY <3>1, <3>2
  <2>10. CASE \E t \in DOMAIN Transactions : Begin(t)
    BY <2>3, <2>10 DEF Begin
  <2>11. CASE Feed \/ EndOfData \/ Inform
    BY <2>3, <2>11 DEF Feed, EndOfData, Inform, hostVars
  <2>12. CASE UNCHANGED sessionVars
    BY <2>2, <2>12 DEF sessionVars, displayVars, lookupVars, screenVars, hostVars
  <2> QED
    BY <2>7, <2>8, <2>9, <2>10, <2>11, <2>12 DEF SessionNext
<1> QED
  BY <1>1, <1>2, ReviewInvariant, PTL DEF SessionSpec, ReviewIsTrue, R!Spec
=============================================================================
