----------------------------- MODULE Screens_proofs -----------------------------
(***************************************************************************)
(* What a line of a screen can be, whatever has been parsed, and what      *)
(* follows of every screen of a session: no line outgrows its buffer, and  *)
(* a numbered line is about an item that the batch has.                    *)
(***************************************************************************)
EXTENDS BatchParsing_proofs

-----------------------------------------------------------------------------
(***************************************************************************)
(* The lines.                                                              *)
(***************************************************************************)

\* A line that begins with text: at most one number follows, which fits a byte.
Plain(line) ==
  \/ Len(line) <= 1
  \/ /\ Len(line) = 2
     /\ line[1][1] = "text"
     /\ line[2][1] = "number" => line[2][2] \in 0..255

\* The line that says how many items there are.
SummaryLine == <<Number(batch_dispatch_number_of_items), Text("items")>>

\* The lines screen i has room for are those of items index and index + 1.
FirstIndex(i) == (i - 1) * 2

\* Some item whose type the plugin remembers, listed on screen i.
ListedLine(line, i) ==
  \E index \in Indices : index \in {FirstIndex(i), FirstIndex(i) + 1} /\ line = ItemTypeLine(index)

ShowsList == selectorIndex = "BATCH_DISPATCH" /\ batch_dispatch_number_of_items # 1

\* What a line of screen i is.
LineOf(line, i) ==
  \/ Plain(line)
  \/ ShowsList /\ line = SummaryLine
  \/ ShowsList /\ i # 0 /\ ListedLine(line, i)
  \/ ShowsList /\ line = MoreLine

\* Both lines of a screen begin with text.
PlainScreen(screen) == Plain(screen.title) /\ Plain(screen.msg)

\* The lines that are not numbered: text alone, an address, a sub-account.
LEMMA PlainPieces ==
  /\ Plain(<<>>)
  /\ \A piece : Plain(<<piece>>)
  /\ \A a : Plain(AddressLine(a))
  /\ \A prefix : \A account \in 0..255 : Plain(SubAccountLine(prefix, account))
<1>1. Plain(<<>>)
  BY DEF Plain
<1>2. \A piece : Plain(<<piece>>)
  BY DEF Plain
<1>3. \A a : Plain(AddressLine(a))
  BY DEF Plain, AddressLine, Text, AddressText
<1>4. \A prefix : \A account \in 0..255 : Plain(SubAccountLine(prefix, account))
  BY DEF Plain, SubAccountLine, Text, Number
<1> QED
  BY <1>1, <1>2, <1>3, <1>4

\* So are the lines of the tokens, the amounts and the sub-accounts of an item.
LEMMA PlainArguments ==
  ASSUME TypeOK
  PROVE  /\ Plain(Token1Line) /\ Plain(Token2Line)
         /\ Plain(Amount1Line) /\ Plain(Amount2Line)
         /\ \A prefix : /\ Plain(SubAccountLine(prefix, fields.sub_account_1))
                        /\ Plain(SubAccountLine(prefix, fields.sub_account_2))
<1>1. fields.sub_account_1 \in 0..255 /\ fields.sub_account_2 \in 0..255
  BY DEF TypeOK, Fields, UINT8
<1>2. Plain(Token1Line) /\ Plain(Token2Line)
  BY PlainPieces DEF Token1Line, Token2Line, TokenLine
<1>3. Plain(Amount1Line) /\ Plain(Amount2Line)
  BY PlainPieces DEF Amount1Line, Amount2Line, AmountLine
<1> QED
  BY <1>1, <1>2, <1>3, PlainPieces

\* The screens of a batch of one item, and of activateMarket.
LEMMA PlainItemScreens ==
  ASSUME TypeOK
  PROVE  /\ PlainScreen(TokenScreen("Token: "))
         /\ \A type, index : PlainScreen(ItemScreen(type, index))
<1>1. \A t, m : Plain(t) /\ Plain(m) => PlainScreen(Screen(t, m))
  BY DEF PlainScreen, Screen
<1>2. \A label : PlainScreen(TokenScreen(label))
  BY <1>1, PlainPieces, PlainArguments DEF TokenScreen
<1>3. \A type, index : PlainScreen(MarketScreen(type, index))
  BY <1>1, <1>2, PlainPieces DEF MarketScreen
<1>4. \A type, index : PlainScreen(AmountScreen(type, index))
  BY <1>1, <1>2, PlainPieces, PlainArguments DEF AmountScreen
<1>5. \A type, index : PlainScreen(TransferScreen(type, index))
  BY <1>1, <1>2, PlainPieces, PlainArguments DEF TransferScreen
<1>6. \A index : PlainScreen(SwapScreen(index))
  BY <1>1, <1>2, PlainPieces, PlainArguments DEF SwapScreen
<1>7. \A index : PlainScreen(SwapAndRepayScreen(index))
  BY <1>1, <1>2, PlainPieces, PlainArguments DEF SwapAndRepayScreen
<1>8. \A type, index : PlainScreen(ItemScreen(type, index))
  BY <1>1, <1>3, <1>4, <1>5, <1>6, <1>7, PlainPieces DEF ItemScreen
<1> QED
  BY <1>2, <1>8

\* The screens that list the items of a batch.
LEMMA ListLines ==
  ASSUME TypeOK, ShowsList, NEW i \in Nat, i # 0,
         NEW line \in {ItemTypesScreen(i).title, ItemTypesScreen(i).msg}
  PROVE  LineOf(line, i)
<1> DEFINE index == FirstIndex(i)
<1>1. index \in Nat /\ MAX_ITEMS_IN_BATCH \in Nat
  BY MaxItemsAssumption DEF FirstIndex, UINT8
<1>2. index = (i - 1) * 2
  BY DEF FirstIndex
<1>3. ASSUME NEW k \in {index, index + 1}, k < MAX_ITEMS_IN_BATCH
      PROVE  LineOf(ItemTypeLine(k), i)
  <2> k \in Indices
    BY <1>1, <1>3 DEF Indices
  <2> QED
    BY <1>3 DEF LineOf, ListedLine
<1>4. LineOf(<<>>, i) /\ LineOf(MoreLine, i)
  BY PlainPieces DEF LineOf
<1> HIDE DEF index
<1>5. CASE index + 1 < MAX_ITEMS_IN_BATCH
  <2>1. LineOf(ItemTypeLine(index), i) /\ LineOf(ItemTypeLine(index + 1), i)
    BY <1>1, <1>3, <1>5
  <2>2. line \in {ItemTypeLine(index), ItemTypeLine(index + 1)}
    BY <1>2, <1>5 DEF ItemTypesScreen, Screen
  <2> QED
    BY <2>1, <2>2
<1>6. CASE index + 1 = MAX_ITEMS_IN_BATCH
  <2>1. LineOf(ItemTypeLine(index), i)
    BY <1>1, <1>3, <1>6
  <2>2. line \in {ItemTypeLine(index), MoreLine, <<>>}
    BY <1>1, <1>2, <1>6 DEF ItemTypesScreen, Screen, BadScreen
  <2> QED
    BY <1>4, <2>1, <2>2
<1>7. CASE index + 1 > MAX_ITEMS_IN_BATCH
  <2> line \in {MoreLine, <<>>}
    BY <1>1, <1>2, <1>7 DEF ItemTypesScreen, Screen, BadScreen
  <2> QED
    BY <1>4
<1> QED
  BY <1>1, <1>5, <1>6, <1>7

\* A line of any screen is one of these.
LEMMA ScreenLines ==
  ASSUME TypeOK, NEW i \in Nat, NEW line \in {ScreenAt(i).title, ScreenAt(i).msg}
  PROVE  LineOf(line, i)
<1>1. ASSUME NEW screen, ScreenAt(i) = screen, PlainScreen(screen)
      PROVE  LineOf(line, i)
  BY <1>1 DEF PlainScreen, LineOf
<1>2. CASE selectorIndex = "ACTIVATE_MARKET"
  BY <1>1, <1>2, PlainItemScreens DEF ScreenAt
<1>3. CASE selectorIndex = "BATCH_DISPATCH" /\ batch_dispatch_number_of_items = 1
  BY <1>1, <1>3, PlainItemScreens DEF ScreenAt
<1>4. CASE ShowsList /\ i = 0
  <2>1. line \in {SummaryLine, <<Text("in a batch")>>}
    BY <1>4 DEF ScreenAt, SummaryScreen, Screen, SummaryLine, ShowsList
  <2> QED
    BY <1>4, <2>1, PlainPieces DEF LineOf
<1>5. CASE ShowsList /\ i # 0
  BY <1>5, ListLines DEF ScreenAt, ShowsList
<1>6. CASE selectorIndex \notin {"ACTIVATE_MARKET", "BATCH_DISPATCH"}
  <2> line = <<>>
    BY <1>6 DEF ScreenAt, BadScreen
  <2> QED
    BY PlainPieces DEF LineOf
<1> QED
  BY <1>2, <1>3, <1>4, <1>5, <1>6 DEF ShowsList

-----------------------------------------------------------------------------
(***************************************************************************)
(* The room of a line.                                                     *)
(***************************************************************************)

\* A number below 100 has two digits at most, one below 1000 three.
LEMMA FewDigits ==
  ASSUME NEW n \in 0..999
  PROVE  /\ DigitCount(n) \in Nat /\ DigitCount(n) <= 3
         /\ n <= 99 => DigitCount(n) <= 2
<1> DEFINE powers == {k \in 1..9 : 10^k <= n}
<1>1. ASSUME NEW k \in 3..9
      PROVE  10^k \in Int /\ 10^k >= 1000
  <2>1. CASE k = 3
    <3> 10^k = 1000
      BY <2>1
    <3> QED
      OBVIOUS
  <2>2. CASE k = 4
    <3> 10^k = 10000
      BY <2>2
    <3> QED
      OBVIOUS
  <2>3. CASE k = 5
    <3> 10^k = 100000
      BY <2>3
    <3> QED
      OBVIOUS
  <2>4. CASE k = 6
    <3> 10^k = 1000000
      BY <2>4
    <3> QED
      OBVIOUS
  <2>5. CASE k = 7
    <3> 10^k = 10000000
      BY <2>5
    <3> QED
      OBVIOUS
  <2>6. CASE k = 8
    <3> 10^k = 100000000
      BY <2>6
    <3> QED
      OBVIOUS
  <2>7. CASE k = 9
    <3> 10^k = 1000000000
      BY <2>7
    <3> QED
      OBVIOUS
  <2> QED
    BY <1>1, <2>1, <2>2, <2>3, <2>4, <2>5, <2>6, <2>7
<1>2. ASSUME NEW k, k = 2
      PROVE  10^k = 100
  BY <1>2
<1>3. powers \subseteq {1, 2}
  <2> SUFFICES ASSUME NEW k \in 1..9, 10^k <= n
               PROVE  k \in {1, 2}
    OBVIOUS
  <2>1. ASSUME k \in 3..9
        PROVE  FALSE
    <3>1. 10^k \in Int /\ 10^k >= 1000
      BY <1>1, <2>1
    <3> QED
      BY <3>1
  <2> QED
    BY <2>1
<1>4. n <= 99 => powers \subseteq {1}
  <2> SUFFICES ASSUME n <= 99, NEW k \in powers
               PROVE  k = 1
    OBVIOUS
  <2>1. k \in {1, 2} /\ 10^k <= n
    BY <1>3
  <2>2. k # 2
    BY <1>2, <2>1
  <2> QED
    BY <2>1, <2>2
<1>5. DigitCount(n) = 1 + Cardinality(powers)
  BY DEF DigitCount
<1>6. /\ IsFiniteSet({1}) /\ Cardinality({1}) = 1
      /\ IsFiniteSet({1, 2}) /\ Cardinality({1, 2}) = 2
  <2>1. IsFiniteSet({1}) /\ Cardinality({1}) = 1
    BY FS_Singleton
  <2>2. {1} \cup {2} = {1, 2} /\ 2 \notin {1}
    OBVIOUS
  <2>3. IsFiniteSet({1} \cup {2}) /\ Cardinality({1} \cup {2}) = Cardinality({1}) + 1
    BY <2>1, <2>2, FS_AddElement
  <2> QED
    BY <2>1, <2>2, <2>3
<1> HIDE DEF powers
<1>7. Cardinality(powers) <= 2 /\ Cardinality(powers) \in Nat
  <2>1. IsFiniteSet(powers) /\ Cardinality(powers) <= Cardinality({1, 2})
    BY <1>3, <1>6, FS_Subset
  <2> QED
    BY <1>6, <2>1, FS_CardinalityType
<1>8. n <= 99 => Cardinality(powers) <= 1
  <2> SUFFICES ASSUME n <= 99
               PROVE  Cardinality(powers) <= 1
    OBVIOUS
  <2>1. Cardinality(powers) <= Cardinality({1})
    BY <1>4, <1>6, FS_Subset
  <2> QED
    BY <1>6, <2>1
<1> QED
  BY <1>5, <1>7, <1>8

\* How many characters itoa writes for the numbers shown.
LEMMA ShortNumerals ==
  /\ \A n \in 0..255 : NumeralLength(n) \in Nat /\ NumeralLength(n) <= 3
  /\ \A n \in 0..99 : NumeralLength(n) \in Nat /\ NumeralLength(n) <= 2
  /\ \A n \in -99..255 : NumeralLength(n) \in Nat /\ NumeralLength(n) <= 3
<1>1. \A n \in -99..255 : NumeralLength(n) \in Nat /\ NumeralLength(n) <= 3
  <2> TAKE n \in -99..255
  <2>1. CASE n < 0
    <3>1. Magnitude(n) = -n /\ -n \in 0..99 /\ -n \in 0..999
      BY <2>1 DEF Magnitude
    <3>2. DigitCount(-n) \in Nat /\ DigitCount(-n) <= 2
      BY <3>1, FewDigits
    <3>3. NumeralLength(n) = DigitCount(-n) + 1
      BY <2>1, <3>1 DEF NumeralLength
    <3> QED
      BY <3>2, <3>3
  <2>2. CASE ~(n < 0)
    <3>1. Magnitude(n) = n /\ n \in 0..999
      BY <2>2 DEF Magnitude
    <3>2. DigitCount(n) \in Nat /\ DigitCount(n) <= 3
      BY <3>1, FewDigits
    <3>3. NumeralLength(n) = DigitCount(n) + 0
      BY <2>2, <3>1 DEF NumeralLength
    <3> QED
      BY <3>2, <3>3
  <2> QED
    BY <2>1, <2>2
<1>2. \A n \in 0..99 : NumeralLength(n) \in Nat /\ NumeralLength(n) <= 2
  <2> TAKE n \in 0..99
  <2>1. Magnitude(n) = n /\ n \in 0..999 /\ ~(n < 0)
    BY DEF Magnitude
  <2>2. DigitCount(n) \in Nat /\ DigitCount(n) <= 2
    BY <2>1, FewDigits
  <2>3. NumeralLength(n) = DigitCount(n) + 0
    BY <2>1 DEF NumeralLength
  <2> QED
    BY <2>2, <2>3
<1> QED
  BY <1>1, <1>2

\* The names the list shows: every item type that item_type_to_string knows.
ShownTypes == HandledTypes \union {"ACTIVATE_MARKET", "UNEXPECTED_ITEM"}

\* The table of types holds only such.
TypesShown == \A i \in Indices : item_types[i] \in ShownTypes

\* No name of an item type is longer than fifteen characters.
LEMMA NamesAreShort ==
  \A type \in ShownTypes :
    LET name == item_type_to_string(type)
    IN  /\ name # Text("items") /\ name[1] = "text"
        /\ NameLength[name[2]] \in 0..15
<1> TAKE type \in ShownTypes
<1>1. CASE type \in PermitTypes
  <2> item_type_to_string(type) = <<"text", "PERMIT">>
    BY <1>1 DEF item_type_to_string, Text
  <2> QED
    BY DEF NameLength, Text
<1>2. CASE type \notin PermitTypes
  <2>1. item_type_to_string(type) = <<"text", type>>
    BY <1>2 DEF item_type_to_string, Text
  <2>2. type \in {"ACTIVATE_MARKET", "ENTER_MARKET", "EXIT_MARKET", "DEPOSIT", "WITHDRAW",
                  "BORROW", "REPAY", "MINT", "BURN", "TRANSFER", "TRANSFER_FROM", "SWAP",
                  "SWAP_AND_REPAY", "UNEXPECTED_ITEM"}
    BY <1>2 DEF ShownTypes, HandledTypes, MarketTypes, AmountTypes
  <2>3. NameLength[type] \in 0..15
    BY <2>2 DEF NameLength
  <2>4. <<"text", type>> # Text("items")
    BY <2>2 DEF Text
  <2> QED
    BY <2>1, <2>3, <2>4
<1> QED
  BY <1>1, <1>2

\* No line of a screen outgrows its buffer.
LEMMA LineFits ==
  ASSUME TypeOK, TypesShown, MAX_ITEMS_IN_BATCH <= 99, NEW i \in Nat, NEW line,
         LineOf(line, i)
  PROVE  ~Overflows(line)
<1>1. CASE Plain(line)
  <2>1. CASE Len(line) <= 1
    BY <2>1 DEF Overflows
  <2>2. CASE /\ Len(line) = 2 /\ line[1][1] = "text"
             /\ line[2][1] = "number" => line[2][2] \in 0..255
    <3>1. line[2][1] = "number" => NumeralLength(line[2][2]) <= 3
                                   /\ NumeralLength(line[2][2]) \in Nat
      BY <2>2, ShortNumerals
    <3> QED
      BY <2>2, <3>1 DEF Overflows, SubAccountRoom
  <2> QED
    BY <1>1, <2>1, <2>2 DEF Plain
<1>2. CASE line = SummaryLine
  <2> DEFINE n == batch_dispatch_number_of_items
  <2>1. n \in 0..255
    BY DEF TypeOK, UINT8
  <2>2. NumeralLength(n) \in Nat /\ NumeralLength(n) <= 3
    BY <2>1, ShortNumerals
  <2>3. Len(line) = 2 /\ line[1] = <<"number", n>> /\ line[2] = <<"text", "items">>
    BY <1>2 DEF SummaryLine, Number, Text
  <2> QED
    BY <2>2, <2>3 DEF Overflows, SummaryRoom, Text
<1>3. CASE ListedLine(line, i)
  <2>1. PICK index \in Indices : line = ItemTypeLine(index)
    BY <1>3 DEF ListedLine
  <2> DEFINE name == item_type_to_string(item_types[index])
  <2>2. index + 1 \in 0..99
    BY MaxItemsAssumption DEF Indices, UINT8
  <2>3. NumeralLength(index + 1) \in Nat /\ NumeralLength(index + 1) <= 2
    BY <2>2, ShortNumerals
  <2>4. name # Text("items") /\ name[1] = "text" /\ NameLength[name[2]] \in 0..15
    BY NamesAreShort DEF TypesShown
  <2>5. Len(line) = 2 /\ line[1] = <<"number", index + 1>> /\ line[2] = name
    BY <2>1 DEF ItemTypeLine, Number
  <2> HIDE DEF name
  <2>6. NumeralLength(index + 1) + 2 + NameLength[name[2]] < 20
    BY <2>3, <2>4
  <2>7. line[1][1] = "number" /\ line[1][2] = index + 1
    BY <2>5
  <2> QED
    BY <2>3, <2>4, <2>5, <2>6, <2>7 DEF Overflows, ItemTypesRoom
<1>4. CASE line = MoreLine
  <2> DEFINE n == batch_dispatch_number_of_items - MAX_ITEMS_IN_BATCH
  <2>1. n \in -99..255
    BY MaxItemsAssumption DEF TypeOK, UINT8
  <2>2. NumeralLength(n) \in Nat /\ NumeralLength(n) <= 3
    BY <2>1, ShortNumerals
  <2>3. Len(line) = 3 /\ line[2] = <<"number", n>>
    BY <1>4 DEF MoreLine, Number
  <2> QED
    BY <2>2, <2>3 DEF Overflows, MoreRoom, ItemTypesRoom
<1> QED
  BY <1>1, <1>2, <1>3, <1>4 DEF LineOf

-----------------------------------------------------------------------------
(***************************************************************************)
(* The session.                                                            *)
(***************************************************************************)

\* No line on display outgrows its buffer, from init on.
LinesFit == phase # "idle" => ~Overflows(title) /\ ~Overflows(msg)

\* A numbered line is about an item of the batch.
NumbersItemOf(line, t) ==
  Len(line) = 2 /\ line[1][1] = "number" => line[1][2] <= Len(Items(t))

\* A batch of an odd number of items, more than one, that leaves room in the table:
\* the last screen of its list has a line for an item that is not there.
ListEndsHalfway(t) ==
  /\ Len(Items(t)) # 1
  /\ Len(Items(t)) % 2 = 1
  /\ Len(Items(t)) < MAX_ITEMS_IN_BATCH

LinesAreItems ==
  \A t \in Decodable :
    phase # "idle" /\ tx = t /\ ~ListEndsHalfway(t)
      => NumbersItemOf(title, t) /\ NumbersItemOf(msg, t)

\* The table of types only ever receives the types of items.
LEMMA TypesShownStep ==
  ASSUME SessionInv, TypesShown, [SessionNext]_sessionVars
  PROVE  TypesShown'
<1>1. TypeOK
  BY DEF SessionInv, IInv
<1>2. ASSUME UNCHANGED item_types
      PROVE  TypesShown'
  BY <1>2 DEF TypesShown
<1>3. ASSUME NEW param, TypeItem(param)
      PROVE  TypesShown'
  <2>1. ItemTypeOf(ItemSelector(param)) \in ShownTypes
    BY ItemTypeOfType DEF ShownTypes
  <2>2. item_types' = [item_types EXCEPT ![CurrentIndex] = ItemTypeOf(ItemSelector(param))]
    BY <1>3 DEF TypeItem
  <2>3. item_types \in [Indices -> selector_t]
    BY <1>1 DEF TypeOK
  <2> QED
    BY <2>1, <2>2, <2>3 DEF TypesShown
<1>4. ASSUME NEW t \in DOMAIN Transactions, Begin(t)
      PROVE  TypesShown'
  <2> item_types' = [i \in Indices |-> "ACTIVATE_MARKET"]
    BY <1>4 DEF Begin, InitContract, ClearedContext
  <2> QED
    BY DEF TypesShown, ShownTypes
<1>5. CASE Feed
  <2> DEFINE param == Words[tx][fieldIndex + 1]
  <2>1. ProvideWord(param)
    BY <1>5 DEF Feed
  <2>2. CASE ReadItem(param) \/ FinishItem(param)
    BY <1>3, <2>2 DEF ReadItem, FinishItem
  <2>3. CASE ~(ReadItem(param) \/ FinishItem(param))
    <3> UNCHANGED item_types
      BY <2>1, <2>3
         DEF ProvideWord, PassWord, SkipWord, MissGoal, IgnoreWord, ReadWord, ActivateMarket,
             ReadItemsOffset, ReadNumberOfItems, ReadOnlyItemOffset, ReadItemOffset,
             ReadLastItemOffset, ReadItemProxy, ReadItemLength, batchVars
    <3> QED
      BY <1>2
  <2> QED
    BY <2>2, <2>3
<1>6. CASE EndOfData \/ Inform \/ Identify \/ End \/ UNCHANGED sessionVars
  <2> UNCHANGED contextVars
    BY <1>6
       DEF EndOfData, Finalize, Inform, ProvideToken, Identify, QueryContractID, End,
           sessionVars, parserVars
  <2> UNCHANGED item_types
    BY DEF contextVars, batchVars
  <2> QED
    BY <1>2
<1>7. ASSUME NEW i \in 0..numScreens - 1, LeafTo(i)
      PROVE  TypesShown'
  <2> UNCHANGED item_types
    BY <1>7 DEF LeafTo, QueryContractUI, contextVars, batchVars
  <2> QED
    BY <1>2
<1> QED
  BY <1>4, <1>5, <1>6, <1>7 DEF SessionNext

\* Only a screen the user leafs to changes what is displayed.
LEMMA DisplayKept ==
  ASSUME [SessionNext]_sessionVars, phase' # "idle"
  PROVE  \/ phase # "idle" /\ UNCHANGED <<tx, title, msg>>
         \/ title' = <<>> /\ msg' = <<>>
         \/ \E i \in 0..numScreens - 1 : LeafTo(i)
<1>1. ASSUME NEW t \in DOMAIN Transactions, Begin(t)
      PROVE  title' = <<>> /\ msg' = <<>>
  BY <1>1 DEF Begin
<1>2. CASE Feed \/ EndOfData \/ Inform \/ Identify
  BY <1>2
     DEF Feed, EndOfData, Finalize, Inform, ProvideToken, Identify, QueryContractID,
         displayVars, screenVars, hostVars
<1>3. CASE UNCHANGED sessionVars
  BY <1>3 DEF sessionVars, displayVars, screenVars, hostVars
<1> QED
  BY <1>1, <1>2, <1>3 DEF SessionNext, End

\* A line put together for a screen fits, and the other calls put none together.
LEMMA LinesFitStep ==
  ASSUME MAX_ITEMS_IN_BATCH <= 99, SessionInv, TypesShown, LinesFit, [SessionNext]_sessionVars
  PROVE  LinesFit'
<1> SUFFICES ASSUME phase' # "idle"
             PROVE  ~Overflows(title') /\ ~Overflows(msg')
  BY DEF LinesFit, Overflows
<1>1. ~Overflows(<<>>)
  BY DEF Overflows
<1>2. ASSUME NEW i \in 0..numScreens - 1, LeafTo(i)
      PROVE  ~Overflows(title') /\ ~Overflows(msg')
  <2>1. TypeOK /\ numScreens \in Nat
    BY DEF SessionInv, IInv, SessionTypeOK, UINT8
  <2>2. i \in Nat
    BY <2>1
  <2>3. title' \in {ScreenAt(i).title, ScreenAt(i).msg} /\ msg' \in {ScreenAt(i).title, ScreenAt(i).msg}
    BY <1>2 DEF LeafTo, QueryContractUI
  <2>4. LineOf(title', i) /\ LineOf(msg', i)
    BY <2>1, <2>2, <2>3, ScreenLines
  <2> QED
    BY <2>1, <2>2, <2>4, LineFits
<1> QED
  BY <1>1, <1>2, DisplayKept DEF LinesFit

\* What is known of a batch when its call data has been handed over.
LEMMA BatchRead ==
  ASSUME SessionInv, BatchInv, NEW t \in Decodable, t = tx, DataIsIn
  PROVE  /\ selectorIndex = "BATCH_DISPATCH"
         /\ batch_dispatch_number_of_items = Len(Items(t))
         /\ is_max_exceeded <=> Len(Items(t)) > MAX_ITEMS_IN_BATCH
<1>1. IInv /\ Follows(t) /\ fieldIndex = Len(Words[t])
  BY DEF SessionInv, BatchInv, DataIsIn
<1>2. fieldIndex >= DeferredStart(t)
  BY <1>1, WordsOfBatch, Numbers
<1>3. next_param = "UNEXPECTED_PARAMETER" \/ AtItem
  BY <1>1, <1>2, DoneAfterItems
<1>4. HeaderKnown(t)
  BY <1>1, <1>3 DEF Follows, InItem, AfterItems
<1> QED
  BY <1>1, <1>4 DEF Follows, HeaderKnown

\* A line put together for a screen numbers an item of the batch.
LEMMA LinesAreItemsStep ==
  ASSUME SessionInv, BatchInv, LinesAreItems, [SessionNext]_sessionVars
  PROVE  LinesAreItems'
<1> SUFFICES ASSUME NEW t \in Decodable, phase' # "idle", tx' = t, ~ListEndsHalfway(t)
             PROVE  NumbersItemOf(title', t) /\ NumbersItemOf(msg', t)
  BY DEF LinesAreItems, NumbersItemOf
<1>1. NumbersItemOf(<<>>, t)
  BY DEF NumbersItemOf
<1>2. ASSUME NEW i \in 0..numScreens - 1, LeafTo(i),
             NEW line \in {ScreenAt(i).title, ScreenAt(i).msg}
      PROVE  NumbersItemOf(line, t)
  <2> DEFINE n == Len(Items(t))
  <2>1. phase = "review" /\ tx = t
    BY <1>2 DEF LeafTo
  <2>2. /\ batch_dispatch_number_of_items = n /\ selectorIndex = "BATCH_DISPATCH"
        /\ is_max_exceeded <=> n > MAX_ITEMS_IN_BATCH
    BY <2>1, BatchRead DEF DataIsIn
  <2>3. n \in 1..255
    BY HeadPlaces
  <2>4. TypeOK /\ numScreens \in Nat
    BY DEF SessionInv, IInv, SessionTypeOK, UINT8
  <2>5. i \in Nat
    BY <2>4
  <2>6. LineOf(line, i)
    BY <1>2, <2>4, <2>5, ScreenLines
  <2>7. n % 2 = 1 => n = 1 \/ n >= MAX_ITEMS_IN_BATCH
    <3> MAX_ITEMS_IN_BATCH \in Nat
      BY MaxItemsAssumption DEF UINT8
    <3> HIDE DEF n
    <3> QED
      BY <2>3 DEF ListEndsHalfway, n
  <2> HIDE DEF n
  <2>8. CASE Plain(line)
    BY <2>8 DEF Plain, NumbersItemOf
  <2>9. CASE line = SummaryLine
    <3> line[1] = <<"number", n>>
      BY <2>2, <2>9 DEF SummaryLine, Number
    <3> QED
      BY <2>3 DEF NumbersItemOf, n
  <2>10. CASE ShowsList /\ i # 0 /\ ListedLine(line, i)
    <3>1. PICK index \in Indices :
            index \in {FirstIndex(i), FirstIndex(i) + 1} /\ line = ItemTypeLine(index)
      BY <2>10 DEF ListedLine
    <3>2. n # 1 /\ numScreens = ScreensOfBatch
      BY <2>1, <2>2, <2>10 DEF ShowsList, SessionInv, Announced, DataIsIn
    <3>3. index + 1 <= n
      <4>1. MAX_ITEMS_IN_BATCH \in Nat /\ index \in Nat /\ index < MAX_ITEMS_IN_BATCH
        BY MaxItemsAssumption DEF Indices, UINT8
      <4>2. CASE n > MAX_ITEMS_IN_BATCH
        BY <2>3, <4>1, <4>2
      <4>3. CASE ~(n > MAX_ITEMS_IN_BATCH)
        <5>1. numScreens = 1 + (n \div 2) + (n % 2)
          BY <2>2, <3>2, <4>3 DEF ScreensOfBatch
        <5>2. i \in 1..(n \div 2) + (n % 2)
          BY <2>3, <2>5, <2>10, <5>1
        <5>3. index <= (i - 1) * 2 + 1
          BY <2>5, <3>1 DEF FirstIndex
        <5>4. index + 1 <= n + (n % 2)
          BY <2>3, <4>1, <5>2, <5>3
        <5>5. n % 2 = 0 \/ n % 2 = 1
          BY <2>3
        <5> QED
          BY <2>3, <2>7, <3>2, <4>1, <5>4, <5>5
      <4> QED
        BY <4>2, <4>3
    <3>4. line[1] = <<"number", index + 1>>
      BY <3>1 DEF ItemTypeLine, Number
    <3> QED
      BY <3>3, <3>4 DEF NumbersItemOf, n
  <2>11. CASE line = MoreLine
    BY <2>11 DEF MoreLine, NumbersItemOf
  <2> QED
    BY <2>6, <2>8, <2>9, <2>10, <2>11 DEF LineOf
<1>3. ASSUME NEW i \in 0..numScreens - 1, LeafTo(i)
      PROVE  NumbersItemOf(title', t) /\ NumbersItemOf(msg', t)
  BY <1>2, <1>3 DEF LeafTo, QueryContractUI
<1> QED
  BY <1>1, <1>3, DisplayKept DEF LinesAreItems

\* Between transactions nothing is displayed.
LEMMA DisplayInit == SessionInit => TypesShown /\ LinesFit /\ LinesAreItems
<1> SUFFICES ASSUME SessionInit
             PROVE  TypesShown /\ LinesFit /\ LinesAreItems
  OBVIOUS
<1>1. phase = "idle" /\ item_types = [i \in Indices |-> "ACTIVATE_MARKET"]
  BY DEF SessionInit, Init
<1> QED
  BY <1>1 DEF TypesShown, ShownTypes, LinesFit, LinesAreItems

-----------------------------------------------------------------------------

\* Through any transactions, whatever their call data, well formed or not: no line is
\* longer than the buffer on the stack it is put together in, for every table of types
\* of at most 99 entries (strcat at handle_query_contract_ui.c:84-140, itoa into lines
\* 105, 124, 199 and 209).
THEOREM LinesStayInBuffers ==
  ASSUME MAX_ITEMS_IN_BATCH <= 99
  PROVE  SessionSpec => []TextFits
<1>1. SessionInit => SessionInv /\ TypesShown /\ LinesFit
  BY SessionInvInit, DisplayInit
<1>2. SessionInv /\ TypesShown /\ LinesFit /\ [SessionNext]_sessionVars
        => (SessionInv /\ TypesShown /\ LinesFit)'
  BY SessionStep, TypesShownStep, LinesFitStep
<1>3. LinesFit => TextFits
  BY DEF LinesFit, TextFits
<1> QED
  BY <1>1, <1>2, <1>3, PTL DEF SessionSpec

\* Through any transactions: the list of a batch numbers no item beyond the last,
\* for every batch whose numbers the parser's integers hold, except for those of an
\* odd number of items, more than one, that do not fill the table
\* (set_item_types_ui, handle_query_contract_ui.c:94-140).
THEOREM ListedItemsExist ==
  SessionSpec => [](tx \in Decodable /\ ~ListEndsHalfway(tx) => NoPhantomItem)
<1>1. SessionInit => SessionInv /\ BatchInv /\ LinesAreItems
  BY SessionInvInit, BatchInvInit, DisplayInit
<1>2. SessionInv /\ BatchInv /\ LinesAreItems /\ [SessionNext]_sessionVars
        => (SessionInv /\ BatchInv /\ LinesAreItems)'
  BY SessionStep, BatchStep, LinesAreItemsStep
<1>3. LinesAreItems => (tx \in Decodable /\ ~ListEndsHalfway(tx) => NoPhantomItem)
  <2> SUFFICES ASSUME LinesAreItems, tx \in Decodable, ~ListEndsHalfway(tx),
                      phase = "review", NEW line \in {title, msg}
               PROVE  Len(line) = 2 /\ line[1][1] = "number" => line[1][2] <= Len(Tx.items)
    BY DEF NoPhantomItem
  <2>1. NumbersItemOf(title, tx) /\ NumbersItemOf(msg, tx)
    BY DEF LinesAreItems
  <2> QED
    BY <2>1 DEF NumbersItemOf, Tx, Items
<1> QED
  BY <1>1, <1>2, <1>3, PTL DEF SessionSpec
=============================================================================
