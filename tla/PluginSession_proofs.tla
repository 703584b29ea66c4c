-------------------------- MODULE PluginSession_proofs --------------------------
(***************************************************************************)
(* The plugin through any sequence of transactions, abandoned ones too:    *)
(* the parser's invariant survives the handlers around it, every variable  *)
(* keeps its type, and the screens announced are accepted but for one kind *)
(* of batch, which is named.                                               *)
(***************************************************************************)
EXTENDS PluginSession, ProvideParameter_proofs

\* What finalize has announced is still what the context says.
Announced ==
  DataIsIn =>
    /\ selectorIndex \in {"ACTIVATE_MARKET", "BATCH_DISPATCH"}
    /\ selectorIndex = "BATCH_DISPATCH" /\ batch_dispatch_number_of_items # 1
         => numScreens = ScreensOfBatch

\* The inductive invariant.  The words the parser is fed are those of a transaction
\* that init accepted; the parser's own invariant gives the rest its types.
SessionInv ==
  /\ IInv
  /\ SessionTypeOK
  /\ phase = "parsing" => tx \in Readable
  /\ Announced
  /\ phase = "review" => result = "OK" \/ LastScreenHalfEmpty

-----------------------------------------------------------------------------
(***************************************************************************)
(* The parser inside the session.                                          *)
(***************************************************************************)

\* The handlers that only read the context leave the parser as it is, whatever they
\* answer.
LEMMA AnswerKeepsParser ==
  ASSUME IInv, UNCHANGED <<fieldIndex, contextVars>>, result' \in Results
  PROVE  IInv'
<1>1. TypeOK'
  BY DEF IInv, TypeOK, contextVars, offsetVars, batchVars, itemVars
<1>2. ParserInv'
  BY DEF IInv, ParserInv, ParserPhase, CounterInRange, IndexInBounds, HandlerMatchesItem,
         AtItem, CurrentIndex, contextVars, offsetVars, batchVars, itemVars
<1> QED
  BY <1>1, <1>2 DEF IInv

\* init accepts only the transactions whose call data the plugin can read.
LEMMA AcceptsReadable ==
  ASSUME NEW t \in DOMAIN Transactions, InitContract(CallSelector(Transactions[t])),
         result' = "OK"
  PROVE  t \in Readable
<1> DEFINE sel == CallSelector(Transactions[t])
<1>1. FoundSelector(sel) \in {"ACTIVATE_MARKET", "BATCH_DISPATCH"}
  BY DEF InitContract
<1>2. \E s \in Selectors : SelectorOf[s] = sel
  BY <1>1 DEF FoundSelector
<1>3. FoundSelector(sel) \in Selectors /\ SelectorOf[FoundSelector(sel)] = sel
  BY <1>2 DEF FoundSelector
<1>4. Transactions[t].function \in Selectors
  BY <1>2, UnknownSelectorAssumption DEF CallSelector
<1>5. SelectorOf[Transactions[t].function] = sel
  BY <1>4 DEF CallSelector
<1>6. Transactions[t].function = FoundSelector(sel)
  BY <1>3, <1>4, <1>5, SelectorAssumption
<1> QED
  BY <1>1, <1>6 DEF Readable

\* No screen about a single item is refused.
LEMMA ItemScreenAccepted ==
  \A type, index : ItemScreen(type, index).result = "OK"
BY DEF ItemScreen, MarketScreen, AmountScreen, TransferScreen, SwapScreen,
       SwapAndRepayScreen, TokenScreen, Screen

\* Every screen is accepted or refused.
LEMMA ScreenResult ==
  \A i : ScreenAt(i).result \in {"OK", "ERROR"}
<1> TAKE i
<1>1. ItemScreen(item_types[0], i).result = "OK"
  BY ItemScreenAccepted
<1>2. ItemTypesScreen(i).result \in {"OK", "ERROR"}
  BY DEF ItemTypesScreen, Screen, BadScreen
<1> QED
  BY <1>1, <1>2 DEF ScreenAt, TokenScreen, SummaryScreen, Screen, BadScreen

\* Every step of the session is a call of the parser or leaves it alone.
LEMMA ParserInSession ==
  ASSUME SessionInv, [SessionNext]_sessionVars
  PROVE  IInv'
<1> USE DEF SessionInv
<1>1. ASSUME NEW t \in DOMAIN Transactions, Begin(t)
      PROVE  IInv'
  <2>1. CallSelector(Transactions[t]) \in Limb
    BY TransactionsAssumption
  <2>2. AnyCall
    BY <1>1, <2>1 DEF Begin, AnyCall
  <2> QED
    BY <2>2, ParserStep
<1>2. CASE Feed
  <2>1. fieldIndex \in Nat /\ fieldIndex < Len(Words[tx]) /\ Words[tx] \in Seq(Word)
    BY <1>2, TransactionsAssumption DEF Feed, IInv, TypeOK
  <2>2. Words[tx][fieldIndex + 1] \in Word
    BY <2>1
  <2>3. AnyCall
    BY <1>2, <2>2 DEF Feed, ProvideWord, AnyCall
  <2> QED
    BY <2>3, ParserStep
<1>3. CASE EndOfData
  BY <1>3, AnswerKeepsParser DEF EndOfData, Finalize, Results
<1>4. CASE Inform
  BY <1>4, AnswerKeepsParser DEF Inform, ProvideToken, Results
<1>5. CASE Identify
  BY <1>5, AnswerKeepsParser DEF Identify, QueryContractID, Results
<1>6. ASSUME NEW i \in 0..numScreens - 1, LeafTo(i)
      PROVE  IInv'
  BY <1>6, AnswerKeepsParser, ScreenResult DEF LeafTo, QueryContractUI, Results
<1>7. CASE End \/ UNCHANGED sessionVars
  <2> UNCHANGED parserVars
    BY <1>7 DEF End, sessionVars
  <2> QED
    BY ParserStep
<1> QED
  BY <1>1, <1>2, <1>3, <1>4, <1>5, <1>6, <1>7 DEF SessionNext

-----------------------------------------------------------------------------
(***************************************************************************)
(* The types of what is displayed.                                         *)
(***************************************************************************)

\* A known token's ticker, cut to the array, and its decimals.
LEMMA TokenType ==
  ASSUME NEW lookup, KnownToken(lookup) # NoToken
  PROVE  /\ KnownToken(lookup)[2] \in 0..UINT8 - 1
         /\ Len(strlcpy(KnownToken(lookup)[1], MAX_TICKER_LEN_OVERRIDE))
              < MAX_TICKER_LEN_OVERRIDE
<1> DEFINE ticker == Tokens[lookup][1]
<1>1. lookup \in DOMAIN Tokens /\ KnownToken(lookup) = Tokens[lookup]
  BY DEF KnownToken
<1>2. ticker \in Seq(STRING) /\ Tokens[lookup][2] \in 0..UINT8 - 1
  BY <1>1, TokensAssumption
<1> HIDE DEF ticker
<1>3. Len(strlcpy(ticker, MAX_TICKER_LEN_OVERRIDE)) < MAX_TICKER_LEN_OVERRIDE
  BY <1>2 DEF strlcpy, MAX_TICKER_LEN_OVERRIDE
<1> QED
  BY <1>1, <1>2, <1>3 DEF ticker

\* The number of screens fits a byte, whatever the batch.
LEMMA NumScreensType ==
  ASSUME TypeOK
  PROVE  /\ \A type : ScreensOf(type) \in 0..UINT8 - 1
         /\ ScreensOfBatch \in 0..UINT8 - 1
<1>1. \A type : ScreensOf(type) \in 0..UINT8 - 1
  BY DEF ScreensOf, UINT8
<1>2. /\ batch_dispatch_number_of_items \in 0..255
      /\ MAX_ITEMS_IN_BATCH \in 1..255
  BY MaxItemsAssumption DEF TypeOK, UINT8
<1>3. \A n \in 0..255 : 1 + (n \div 2) + (n % 2) \in 0..255 /\ 1 + n \div 2 + 1 \in 0..255
  OBVIOUS
<1> QED
  BY <1>1, <1>2, <1>3 DEF ScreensOfBatch, UINT8

\* Every handler, and every step of the app, keeps them.
LEMMA SessionTypeStep ==
  ASSUME SessionInv, [SessionNext]_sessionVars
  PROVE  SessionTypeOK'
<1> USE DEF SessionInv
<1>1. TypeOK /\ TypeOK'
  BY ParserInSession DEF IInv
<1>2. ASSUME NEW t \in DOMAIN Transactions, Begin(t)
      PROVE  SessionTypeOK'
  <2>1. result' = "OK" => t \in Readable
    BY <1>2, AcceptsReadable DEF Begin
  <2>2. phase' \in Phases /\ tx' \in Readable \union {NoTx}
    BY <1>2, <2>1 DEF Begin, Phases
  <2>3. Len(ticker_1') < MAX_TICKER_LEN_OVERRIDE /\ Len(ticker_2') < MAX_TICKER_LEN_OVERRIDE
    BY <1>2 DEF Begin, ClearedTokens, MAX_TICKER_LEN_OVERRIDE
  <2>4. token_found_1' = FALSE /\ token_found_2' = FALSE
    BY <1>2, Zenon DEF Begin, ClearedTokens
  <2>6. /\ decimals_1' \in 0..UINT8 - 1 /\ decimals_2' \in 0..UINT8 - 1
        /\ numScreens' \in 0..UINT8 - 1
    <3> decimals_1' = 0 /\ decimals_2' = 0 /\ numScreens' = 0
      BY <1>2 DEF Begin, ClearedTokens
    <3> QED
      BY DEF UINT8
  <2>5. /\ tokenLookup1' = NoAddress /\ tokenLookup2' = NoAddress
        /\ version' = NULL /\ screenIndex' = NoIndex
    BY <1>2 DEF Begin
  <2> QED
    BY <1>1, <2>2, <2>3, <2>4, <2>5, <2>6 DEF SessionTypeOK
<1>3. CASE Feed
  BY <1>3, <1>1
     DEF Feed, SessionTypeOK, displayVars, tokenVars, lookupVars, screenVars, hostVars
<1>4. CASE EndOfData
  <2>1. fields.address_2 \in Address /\ fields.address_3 \in Address
    BY <1>1 DEF TypeOK, Fields
  <2>2. numScreens' \in 0..UINT8 - 1
    <3>1. numScreens' \in {1, ScreensOf(item_types[0]), ScreensOfBatch}
      BY <1>4 DEF EndOfData, Finalize
    <3> QED
      BY <1>1, <3>1, NumScreensType DEF UINT8
  <2>3. tokenLookup1' = fields.address_2 /\ tokenLookup2' \in {NoAddress, fields.address_3}
    BY <1>4 DEF EndOfData, Finalize
  <2> QED
    BY <1>4, <1>1, <2>1, <2>2, <2>3
       DEF EndOfData, Finalize, SessionTypeOK, Phases, tokenVars, screenVars
<1>5. CASE Inform
  <2>1. /\ token_found_1' \in BOOLEAN /\ decimals_1' \in 0..UINT8 - 1
        /\ Len(ticker_1') < MAX_TICKER_LEN_OVERRIDE
    BY <1>5, TokenType DEF Inform, ProvideToken, SessionTypeOK
  <2>2. /\ token_found_2' \in BOOLEAN /\ decimals_2' \in 0..UINT8 - 1
        /\ Len(ticker_2') < MAX_TICKER_LEN_OVERRIDE
    BY <1>5, TokenType DEF Inform, ProvideToken, SessionTypeOK
  <2> QED
    BY <1>5, <1>1, <2>1, <2>2
       DEF Inform, ProvideToken, SessionTypeOK, Phases, lookupVars, screenVars
<1>6. CASE Identify
  BY <1>6, <1>1
     DEF Identify, QueryContractID, SessionTypeOK, Phases, tokenVars, lookupVars
<1>7. ASSUME NEW i \in 0..numScreens - 1, LeafTo(i)
      PROVE  SessionTypeOK'
  <2>1. i \in 0..UINT8 - 2
    BY DEF SessionTypeOK, UINT8
  <2> QED
    BY <1>7, <1>1, <2>1
       DEF LeafTo, QueryContractUI, SessionTypeOK, tokenVars, lookupVars
<1>8. CASE End
  BY <1>8, <1>1
     DEF End, SessionTypeOK, Phases, displayVars, tokenVars, lookupVars, screenVars
<1>9. CASE UNCHANGED sessionVars
  BY <1>9, <1>1
     DEF sessionVars, SessionTypeOK, displayVars, tokenVars, lookupVars, screenVars, hostVars
<1> QED
  BY <1>2, <1>3, <1>4, <1>5, <1>6, <1>7, <1>8, <1>9 DEF SessionNext

-----------------------------------------------------------------------------
(***************************************************************************)
(* The screens that are announced.                                         *)
(***************************************************************************)

\* A screen of the list is refused only at the end of a table that is not marked as
\* too small.
LEMMA ListedScreenAccepted ==
  ASSUME TypeOK, NEW i \in 1..ScreensOfBatch - 1,
         \/ is_max_exceeded
         \/ batch_dispatch_number_of_items + (batch_dispatch_number_of_items % 2)
              <= MAX_ITEMS_IN_BATCH
  PROVE  ItemTypesScreen(i).result = "OK"
<1> DEFINE n == batch_dispatch_number_of_items
           index == (i - 1) * 2
<1>1. n \in 0..255 /\ MAX_ITEMS_IN_BATCH \in 1..255
  BY MaxItemsAssumption DEF TypeOK, UINT8
<1>2. CASE is_max_exceeded
  BY <1>2 DEF ItemTypesScreen, Screen
<1>3. CASE ~is_max_exceeded
  <2>1. ScreensOfBatch = 1 + (n \div 2) + (n % 2)
    BY <1>3 DEF ScreensOfBatch
  <2>2. i \in 1..(n \div 2) + (n % 2) /\ n + (n % 2) <= MAX_ITEMS_IN_BATCH
    BY <1>1, <1>3, <2>1
  <2>3. \A a \in 0..255 : \A k \in 1..(a \div 2) + (a % 2) :
           (k - 1) * 2 + 1 < a + (a % 2)
    OBVIOUS
  <2>4. index + 1 < MAX_ITEMS_IN_BATCH
    BY <1>1, <2>2, <2>3
  <2> QED
    BY <2>4 DEF ItemTypesScreen, Screen
<1> QED
  BY <1>2, <1>3

\* Each screen that finalize counted has an answer other than an error.
LEMMA ScreenAccepted ==
  ASSUME SessionInv, phase = "review", NEW i \in 0..numScreens - 1, ~LastScreenHalfEmpty
  PROVE  ScreenAt(i).result = "OK"
<1> TypeOK /\ selectorIndex \in {"ACTIVATE_MARKET", "BATCH_DISPATCH"}
  BY DEF SessionInv, IInv, Announced, DataIsIn
<1>1. CASE selectorIndex = "ACTIVATE_MARKET"
  BY <1>1 DEF ScreenAt, TokenScreen, Screen
<1>2. CASE selectorIndex = "BATCH_DISPATCH" /\ batch_dispatch_number_of_items = 1
  BY <1>2, ItemScreenAccepted DEF ScreenAt
<1>3. CASE selectorIndex = "BATCH_DISPATCH" /\ batch_dispatch_number_of_items # 1
  <2>1. CASE i = 0
    BY <1>3, <2>1 DEF ScreenAt, SummaryScreen, Screen
  <2>2. CASE i # 0
    <3>1. numScreens = ScreensOfBatch /\ ScreensOfBatch \in Int
      BY <1>3, NumScreensType DEF SessionInv, Announced, DataIsIn, UINT8
    <3>2. i \in 1..ScreensOfBatch - 1
      BY <3>1, <2>2
    <3>3. \/ is_max_exceeded
          \/ batch_dispatch_number_of_items + (batch_dispatch_number_of_items % 2)
               <= MAX_ITEMS_IN_BATCH
      BY <1>3, MaxItemsAssumption DEF LastScreenHalfEmpty, TypeOK, UINT8
    <3> QED
      BY <1>3, <2>2, <3>2, <3>3, ListedScreenAccepted DEF ScreenAt
  <2> QED
    BY <2>1, <2>2
<1> QED
  BY <1>1, <1>2, <1>3

-----------------------------------------------------------------------------
(***************************************************************************)
(* The invariant of the session.                                           *)
(***************************************************************************)

\* Idle, in a zeroed context.
LEMMA SessionInvInit == SessionInit => SessionInv
<1> SUFFICES ASSUME SessionInit
             PROVE  SessionInv
  OBVIOUS
<1>1. IInv
  BY ParserInit DEF SessionInit
<1>2. /\ phase = "idle" /\ tx = NoTx /\ screenIndex = NoIndex /\ version = NULL
      /\ numScreens = 0 /\ tokenLookup1 = NoAddress /\ tokenLookup2 = NoAddress
      /\ decimals_1 = 0 /\ decimals_2 = 0 /\ ticker_1 = <<>> /\ ticker_2 = <<>>
  BY DEF SessionInit
<1>3. token_found_1 = FALSE /\ token_found_2 = FALSE
  BY Zenon DEF SessionInit
<1>4. Len(ticker_1) < MAX_TICKER_LEN_OVERRIDE /\ Len(ticker_2) < MAX_TICKER_LEN_OVERRIDE
  BY <1>2 DEF MAX_TICKER_LEN_OVERRIDE
<1>5. 0 \in 0..UINT8 - 1
  BY DEF UINT8
<1>6. SessionTypeOK
  BY <1>1, <1>2, <1>3, <1>4, <1>5 DEF IInv, SessionTypeOK, Phases
<1> QED
  BY <1>1, <1>2, <1>6 DEF SessionInv, Announced, DataIsIn

\* What is announced stays true while the context and the number of screens stay.
LEMMA AnnouncedKept ==
  ASSUME Announced, UNCHANGED <<contextVars, numScreens>>, DataIsIn' => DataIsIn
  PROVE  Announced'
BY DEF Announced, ScreensOfBatch, contextVars, batchVars

\* Every call of the app keeps what is known of the parser and of the screens.
LEMMA SessionStep == SessionInv /\ [SessionNext]_sessionVars => SessionInv'
<1> SUFFICES ASSUME SessionInv, [SessionNext]_sessionVars
             PROVE  SessionInv'
  OBVIOUS
<1> DEFINE Accepted == phase = "review" => result = "OK" \/ LastScreenHalfEmpty
           Reads    == phase = "parsing" => tx \in Readable
<1>1. IInv' /\ SessionTypeOK' /\ Announced /\ Accepted /\ Reads
  BY ParserInSession, SessionTypeStep DEF SessionInv
<1>2. ASSUME NEW t \in DOMAIN Transactions, Begin(t)
      PROVE  Announced' /\ Accepted' /\ Reads'
  <2>1. result' = "OK" => t \in Readable
    BY <1>2, AcceptsReadable DEF Begin
  <2> QED
    BY <1>2, <2>1 DEF Begin, Announced, DataIsIn
<1>3. ASSUME Feed
      PROVE  Announced' /\ Accepted' /\ Reads'
  <2> phase = "parsing" /\ phase' = "parsing" /\ tx' = tx
    BY <1>3 DEF Feed, hostVars
  <2> QED
    BY <1>1 DEF Announced, DataIsIn
<1>4. ASSUME EndOfData
      PROVE  Announced' /\ Accepted' /\ Reads'
  <2>1. UNCHANGED contextVars /\ phase' \in {"finalized", "idle"}
    BY <1>4 DEF EndOfData, Finalize
  <2>2. DataIsIn' => result' = "OK"
    BY <1>4 DEF EndOfData, DataIsIn
  <2>3. result' = "OK" => selectorIndex \in {"ACTIVATE_MARKET", "BATCH_DISPATCH"}
    BY <1>4 DEF EndOfData, Finalize
  <2>4. selectorIndex = "BATCH_DISPATCH" /\ batch_dispatch_number_of_items # 1
          => numScreens' = ScreensOfBatch
    BY <1>4 DEF EndOfData, Finalize
  <2>5. /\ selectorIndex' = selectorIndex
        /\ batch_dispatch_number_of_items' = batch_dispatch_number_of_items
        /\ ScreensOfBatch' = ScreensOfBatch
    BY <2>1 DEF contextVars, batchVars, ScreensOfBatch
  <2> QED
    BY <2>1, <2>2, <2>3, <2>4, <2>5 DEF Announced
<1>5. ASSUME Inform
      PROVE  Announced' /\ Accepted' /\ Reads'
  <2>1. /\ UNCHANGED <<contextVars, numScreens>>
        /\ phase = "finalized" /\ phase' = "informed"
    BY <1>5 DEF Inform, ProvideToken, lookupVars
  <2> QED
    BY <1>1, <2>1, AnnouncedKept DEF DataIsIn
<1>6. ASSUME Identify
      PROVE  Announced' /\ Accepted' /\ Reads'
  <2>1. /\ UNCHANGED <<contextVars, numScreens>>
        /\ phase = "informed" /\ phase' = "review"
    BY <1>6 DEF Identify, QueryContractID, lookupVars
  <2>2. result' = "OK"
    BY <1>1, <1>6, <2>1 DEF Identify, QueryContractID, Announced, DataIsIn
  <2> QED
    BY <1>1, <2>1, <2>2, AnnouncedKept DEF DataIsIn
<1>7. ASSUME NEW i \in 0..numScreens - 1, LeafTo(i)
      PROVE  Announced' /\ Accepted' /\ Reads'
  <2>1. /\ UNCHANGED <<contextVars, numScreens>>
        /\ phase = "review" /\ phase' = "review"
    BY <1>7 DEF LeafTo, QueryContractUI, lookupVars
  <2>2. LastScreenHalfEmpty' = LastScreenHalfEmpty
    BY <2>1 DEF LastScreenHalfEmpty, contextVars, batchVars
  <2>3. ~LastScreenHalfEmpty => result' = "OK"
    BY <1>7, <2>1, ScreenAccepted DEF LeafTo, QueryContractUI
  <2> QED
    BY <1>1, <2>1, <2>2, <2>3, AnnouncedKept DEF DataIsIn
<1>8. ASSUME End
      PROVE  Announced' /\ Accepted' /\ Reads'
  BY <1>8 DEF End, Announced, DataIsIn
<1>9. ASSUME UNCHANGED sessionVars
      PROVE  Announced' /\ Accepted' /\ Reads'
  <2>1. UNCHANGED <<contextVars, numScreens, phase, tx, result>>
    BY <1>9 DEF sessionVars, parserVars, displayVars, lookupVars, hostVars
  <2>2. LastScreenHalfEmpty' = LastScreenHalfEmpty
    BY <2>1 DEF LastScreenHalfEmpty, contextVars, batchVars
  <2> QED
    BY <1>1, <2>1, <2>2, AnnouncedKept DEF DataIsIn
<1> QED
  BY <1>1, <1>2, <1>3, <1>4, <1>5, <1>6, <1>7, <1>8, <1>9 DEF SessionNext, SessionInv

\* It holds through any transactions.
LEMMA SessionInvariant == SessionSpec => []SessionInv
BY SessionInvInit, SessionStep, PTL DEF SessionSpec

\* Through any transactions, abandoned at any point, every variable of the parser, of
\* the display and of the app keeps its type, and a ticker fits its array.
THEOREM SessionTypeCorrect == SessionSpec => []SessionTypeOK
<1> SessionInv => SessionTypeOK
  BY DEF SessionInv
<1> QED
  BY SessionInvariant, PTL

\* The handlers around the parser, and the transactions before, never make it write
\* outside its table, wrap its counter or call another item's handler.
THEOREM ParserSafeInSessions ==
  SessionSpec => [](IndexInBounds /\ CounterInRange /\ HandlerMatchesItem)
<1> SessionInv => IndexInBounds /\ CounterInRange /\ HandlerMatchesItem
  BY DEF SessionInv, IInv, ParserInv
<1> QED
  BY SessionInvariant, PTL

\* Whatever the call data, and whatever the capacity of the table, the plugin accepts
\* every screen that its finalize announced, except for the batches named by
\* LastScreenHalfEmpty: of the batches the parser marks as exceeding, and of those
\* that leave room, none is refused (handle_finalize.c:48-55,
\* handle_query_contract_ui.c:113-139).
THEOREM AnnouncedScreensAccepted ==
  SessionSpec => [](~LastScreenHalfEmpty => ScreensAccepted)
<1> SessionInv => (~LastScreenHalfEmpty => ScreensAccepted)
  BY DEF SessionInv, ScreensAccepted
<1> QED
  BY SessionInvariant, PTL
=============================================================================
