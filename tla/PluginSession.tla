----------------------------- MODULE PluginSession -----------------------------
(***************************************************************************)
(* The plugin and the Ethereum app that drives it, transaction after       *)
(* transaction, in the one context that only handle_init_contract clears.  *)
(* dispatch_plugin_calls (src/src/main.c:46-70) hands each message of the  *)
(* app to its handler; the app itself is external and sends them in the    *)
(* order of the plugin interface: init, one parameter per word, finalize,  *)
(* the tokens asked for, the contract id, then screens in whatever order   *)
(* the user leafs through them.  A transaction may be given up at any      *)
(* moment: the next one then begins in what it left behind.                *)
(***************************************************************************)
EXTENDS Display, Calldata

CONSTANTS
  Transactions,   \* the transactions the user may submit, a sequence
  Tokens          \* [address -> <<ticker, decimals>>]: what the app knows

VARIABLES
  phase,        \* how far the app is with the transaction
  tx,           \* the transaction, by its number
  screenIndex   \* the screen the user looks at

hostVars    == <<phase, tx, screenIndex>>
sessionVars == <<parserVars, displayVars, hostVars>>

Phases == {"idle", "parsing", "finalized", "informed", "review"}

NoTx == 0
NoIndex == -1

\* The transaction the app is busy with.
Tx == Transactions[tx]

\* The transactions whose call data the plugin agrees to read.
Readable ==
  {t \in DOMAIN Transactions :
     Transactions[t].function \in {"ACTIVATE_MARKET", "BATCH_DISPATCH"}}

\* The words of each transaction.
Words ==
  <<>> \o [t \in DOMAIN Transactions |->
             IF t \in Readable THEN CallData(Transactions[t]) ELSE <<>>]

ASSUME TransactionsAssumption ==
  /\ Len(Transactions) \in Nat /\ DOMAIN Transactions = 1..Len(Transactions)
  /\ \A t \in DOMAIN Transactions : CallSelector(Transactions[t]) \in Limb
  /\ \A t \in Readable : Words[t] \in Seq(Word) /\ Len(Words[t]) <= MaxWords
  /\ \A t \in Readable :
       Transactions[t].function = "BATCH_DISPATCH" =>
         /\ Transactions[t].items \in Seq(BatchItem)
         /\ Transactions[t].deferLiquidityChecks \in Seq(Word)

ASSUME TokensAssumption ==
  \A a \in DOMAIN Tokens : Tokens[a] \in Seq(STRING) \X (0..UINT8 - 1)

\* getKnownToken: the token at an address, if the app has it in its list.
KnownToken(lookup) ==
  IF lookup \in DOMAIN Tokens THEN Tokens[lookup] ELSE NoToken

-----------------------------------------------------------------------------

SessionInit ==
  /\ Init
  /\ token_found_1 = FALSE /\ ticker_1 = <<>> /\ decimals_1 = 0
  /\ token_found_2 = FALSE /\ ticker_2 = <<>> /\ decimals_2 = 0
  /\ numScreens = 0 /\ tokenLookup1 = NoAddress /\ tokenLookup2 = NoAddress
  /\ version = NULL /\ title = <<>> /\ msg = <<>>
  /\ phase = "idle" /\ tx = NoTx /\ screenIndex = NoIndex

\* ETH_PLUGIN_INIT_CONTRACT, with cleared messages for the answers to come.  The
\* app goes on only if the plugin answers OK.
Begin(t) ==
  /\ phase = "idle"
  /\ InitContract(CallSelector(Transactions[t]))
  /\ ClearedTokens
  /\ phase' = IF result' = "OK" THEN "parsing" ELSE "idle"
  /\ tx' = IF result' = "OK" THEN t ELSE NoTx
  /\ screenIndex' = NoIndex
  /\ numScreens' = 0 /\ tokenLookup1' = NoAddress /\ tokenLookup2' = NoAddress
  /\ version' = NULL /\ title' = <<>> /\ msg' = <<>>

\* ETH_PLUGIN_PROVIDE_PARAMETER, once for every word of the call data.
Feed ==
  /\ phase = "parsing"
  /\ fieldIndex < Len(Words[tx])
  /\ ProvideWord(Words[tx][fieldIndex + 1])
  /\ UNCHANGED <<displayVars, hostVars>>

\* ETH_PLUGIN_FINALIZE, after the last word.
EndOfData ==
  /\ phase = "parsing"
  /\ fieldIndex = Len(Words[tx])
  /\ Finalize
  /\ phase' = IF result' = "OK" THEN "finalized" ELSE "idle"
  /\ UNCHANGED <<tx, screenIndex>>

\* ETH_PLUGIN_PROVIDE_INFO, with the tokens asked for.
Inform ==
  /\ phase = "finalized"
  /\ ProvideToken(KnownToken(tokenLookup1), KnownToken(tokenLookup2))
  /\ phase' = "informed"
  /\ UNCHANGED <<tx, screenIndex>>

\* ETH_PLUGIN_QUERY_CONTRACT_ID
Identify ==
  /\ phase = "informed"
  /\ QueryContractID
  /\ phase' = "review"
  /\ UNCHANGED <<tx, screenIndex>>

\* ETH_PLUGIN_QUERY_CONTRACT_UI, for a screen that was announced.
LeafTo(i) ==
  /\ phase = "review"
  /\ i \in 0..numScreens - 1
  /\ QueryContractUI(i)
  /\ screenIndex' = i
  /\ UNCHANGED <<phase, tx>>

\* The transaction is signed, rejected, or given up before its review.  The
\* context stays as it is.
End ==
  /\ phase # "idle"
  /\ phase' = "idle"
  /\ tx' = NoTx
  /\ screenIndex' = NoIndex
  /\ UNCHANGED <<parserVars, displayVars>>

SessionNext ==
  \/ \E t \in DOMAIN Transactions : Begin(t)
  \/ Feed
  \/ EndOfData
  \/ Inform
  \/ Identify
  \/ \E i \in 0..numScreens - 1 : LeafTo(i)
  \/ End

SessionSpec == SessionInit /\ [][SessionNext]_sessionVars

\* The app hands over the words and asks its questions without waiting for anyone;
\* when to begin, what to look at and when to stop is the user's choice.
FairSession ==
  /\ SessionSpec
  /\ WF_sessionVars(Feed) /\ WF_sessionVars(EndOfData)
  /\ WF_sessionVars(Inform) /\ WF_sessionVars(Identify)

-----------------------------------------------------------------------------
(***************************************************************************)
(* Properties                                                              *)
(***************************************************************************)

\* The variables of the display and of the app have their types; a ticker fits its
\* array with the terminating zero (strlcpy, handle_provide_token.c:10 and 18).
SessionTypeOK ==
  /\ TypeOK
  /\ token_found_1 \in BOOLEAN /\ token_found_2 \in BOOLEAN
  /\ decimals_1 \in 0..UINT8 - 1 /\ decimals_2 \in 0..UINT8 - 1
  /\ Len(ticker_1) < MAX_TICKER_LEN_OVERRIDE /\ Len(ticker_2) < MAX_TICKER_LEN_OVERRIDE
  /\ numScreens \in 0..UINT8 - 1
  /\ tokenLookup1 \in Address \union {NoAddress}
  /\ tokenLookup2 \in Address \union {NoAddress}
  /\ version \in {"ACTIVATE_MARKET", "BATCH_DISPATCH", NULL}
  /\ phase \in Phases
  /\ tx \in Readable \union {NoTx}
  /\ screenIndex \in {NoIndex} \union 0..UINT8 - 2

\* All the call data has been handed over.
DataIsIn == phase \in {"finalized", "informed", "review"}

\* What the plugin keeps of a batch is the batch: the number of items, whether
\* there are more than it remembers, and the types of those it does, wherever their
\* data lie in the call data (handle_provide_parameter.c:279-342).
ItemsDecoded ==
  DataIsIn /\ Tx.function = "BATCH_DISPATCH" =>
    LET n == Len(Tx.items)
    IN  /\ batch_dispatch_number_of_items = n
        /\ is_max_exceeded <=> n > MAX_ITEMS_IN_BATCH
        /\ \A i \in Indices : i < n => item_types[i] = Tx.items[i + 1].type

\* How many words come before deferLiquidityChecks, which follow the items.
DeferredStart(t) == Len(Words[t]) - Len(Transactions[t].deferLiquidityChecks) - 1

\* The parser is done with a batch before the words that come after its items: the
\* lengths it computes, the hardcoded ones of the swaps too, never make it wait for
\* data that will not come or take the deferred liquidity checks for arguments
\* (handle_provide_parameter.c:426-439).
SettledBeforeDeferral ==
  phase \in Phases \ {"idle"} /\ Tx.function = "BATCH_DISPATCH"
    /\ fieldIndex >= DeferredStart(tx)
    => next_param = "UNEXPECTED_PARAMETER" /\ ~go_to_offset

\* The plugin never refuses a screen that its finalize announced
\* (handle_finalize.c:48-55 against handle_query_contract_ui.c:113-139).
ScreensAccepted == phase = "review" => result = "OK"

\* The only batches of which the plugin refuses a screen it announced: several items,
\* not marked as exceeding the table, and so many that the last screen, where two are
\* announced at a time, reaches its end (handle_query_contract_ui.c:129-137).
LastScreenHalfEmpty ==
  /\ selectorIndex = "BATCH_DISPATCH"
  /\ batch_dispatch_number_of_items # 1
  /\ ~is_max_exceeded
  /\ batch_dispatch_number_of_items + (batch_dispatch_number_of_items % 2)
       > MAX_ITEMS_IN_BATCH

\* The number of screens, and what each displays, are those of the transaction under
\* review: the arguments survive the word-by-word copying, the tokens looked up are
\* the transaction's, and nothing of an earlier or abandoned transaction is left.
R == INSTANCE Review WITH
       reviewed <- IF phase = "review" THEN tx ELSE NoTx,
       pages    <- IF phase = "review" THEN numScreens ELSE 0,
       shown    <- IF phase = "review" /\ screenIndex # NoIndex
                   THEN [title |-> title, msg |-> msg]
                   ELSE [title |-> <<>>, msg |-> <<>>]

ReviewIsTrue == R!Spec

\* A numbered line of a screen is about an item that the batch has
\* (set_item_types_ui, handle_query_contract_ui.c:94-140).
NoPhantomItem ==
  phase = "review" /\ Tx.function = "BATCH_DISPATCH" =>
    \A line \in {title, msg} :
      Len(line) = 2 /\ line[1][1] = "number" => line[1][2] <= Len(Tx.items)

\* The token screen of a permit shows the token the permit is for
\* (handle_use_permit, handle_provide_parameter.c:47-67).
PermitShowsToken ==
  phase = "review" /\ Tx.function = "BATCH_DISPATCH" /\ screenIndex = 1
    /\ Tx.items[1].type \in PermitTypes
    => LET token == AddressIn(Tx.items[1].arguments[1])
       IN  token \notin DOMAIN Tokens => msg = AddressLine(token)

\* Only a batch of more than MAX_ITEMS_IN_BATCH items is marked as exceeding them
\* (handle_provide_parameter.c:298-304).
ExceededMeansMore ==
  is_max_exceeded => batch_dispatch_number_of_items > MAX_ITEMS_IN_BATCH

\* A batch of more than MAX_ITEMS_IN_BATCH items is marked as exceeding them,
\* however many there are (handle_provide_parameter.c:279-304).
MoreMeansExceeded ==
  DataIsIn /\ Tx.function = "BATCH_DISPATCH" /\ Len(Tx.items) > MAX_ITEMS_IN_BATCH
    => is_max_exceeded

\* The tokens of a swap are read whatever the length of the payload that follows
\* them (handle_provide_parameter.c:432-438).
SwapShowsTokens ==
  DataIsIn /\ Tx.function = "BATCH_DISPATCH" /\ Len(Tx.items) = 1
    /\ Tx.items[1].type = "SWAP"
    => /\ fields.address_2 = AddressIn(Tx.items[1].arguments[5])
       /\ fields.address_3 = AddressIn(Tx.items[1].arguments[6])

\* No line outgrows the buffer on the stack that it is put together in
\* (strcat at handle_query_contract_ui.c:84-140, itoa into lines 105, 124, 199, 209).
TextFits == phase = "review" => ~Overflows(title) /\ ~Overflows(msg)

\* A transaction that the plugin has agreed to read is reviewed, unless the user
\* gives it up: no handler on the way refuses it, and none leaves the app without a
\* next message (handle_finalize.c:57-60, handle_query_contract_id.c:11-24).
ReviewComes ==
  phase = "parsing" ~> phase \in {"review", "idle"} /\ result = "OK"
=============================================================================
