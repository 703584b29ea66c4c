-------------------------------- MODULE Display --------------------------------
(***************************************************************************)
(* The plugin after the last word: handle_finalize announces the screens   *)
(* and the tokens to look up, handle_provide_token keeps what the Ethereum *)
(* app knows of them, handle_query_contract_id and                         *)
(* handle_query_contract_ui fill the screens.                              *)
(***************************************************************************)
EXTENDS ProvideParameter, ScreenText

VARIABLES
  \* context_t: what is known of the tokens address_2 and address_3.
  token_found_1, ticker_1, decimals_1,
  token_found_2, ticker_2, decimals_2,
  \* The messages' answers.
  numScreens, tokenLookup1, tokenLookup2, version, title, msg

\* Null pointers.
NoAddress == <<>>
NoToken   == <<>>

tokenVars   == <<token_found_1, ticker_1, decimals_1,
                 token_found_2, ticker_2, decimals_2>>
lookupVars  == <<numScreens, tokenLookup1, tokenLookup2>>
screenVars  == <<version, title, msg>>
displayVars == <<tokenVars, lookupVars, screenVars>>

\* memset(context, 0, sizeof(*context)), the part that only concerns display.
ClearedTokens ==
  /\ token_found_1' = FALSE /\ ticker_1' = <<>> /\ decimals_1' = 0
  /\ token_found_2' = FALSE /\ ticker_2' = <<>> /\ decimals_2' = 0

-----------------------------------------------------------------------------
(***************************************************************************)
(* handle_finalize                                                         *)
(***************************************************************************)
ScreensOf(type) ==
  CASE type \in MarketTypes \union PermitTypes              -> 2
    [] type \in AmountTypes                                 -> 3
    [] type = "TRANSFER"                                    -> 4
    [] type \in {"TRANSFER_FROM", "SWAP", "SWAP_AND_REPAY"} -> 5
    [] OTHER                                                -> 1

\* Mutant of ScreensOfBatch: an odd number of items is assumed.
ScreensOfOddBatch ==
  IF is_max_exceeded
  THEN 1 + MAX_ITEMS_IN_BATCH \div 2 + 1
  ELSE 1 + batch_dispatch_number_of_items \div 2 + 1

ScreensOfBatch ==
  IF is_max_exceeded
  THEN 1 + MAX_ITEMS_IN_BATCH \div 2 + 1
  ELSE 1 + (batch_dispatch_number_of_items \div 2)
         + (batch_dispatch_number_of_items % 2)

\* The lookups are pointers into the context; a null second one asks for nothing.
Finalize ==
  /\ tokenLookup1' = fields.address_2
  /\ IF selectorIndex = "ACTIVATE_MARKET"
     THEN numScreens' = 1 /\ tokenLookup2' = NoAddress
     ELSE IF batch_dispatch_number_of_items = 1
     THEN /\ numScreens' = ScreensOf(item_types[0])
          /\ tokenLookup2' = IF item_types[0] \in {"SWAP", "SWAP_AND_REPAY"}
                             THEN fields.address_3 ELSE NoAddress
     ELSE numScreens' = ScreensOfBatch /\ tokenLookup2' = NoAddress
  /\ result' = IF selectorIndex \in {"ACTIVATE_MARKET", "BATCH_DISPATCH"}
               THEN "OK" ELSE "ERROR"
  /\ UNCHANGED <<fieldIndex, contextVars, tokenVars, screenVars>>

(***************************************************************************)
(* handle_provide_token                                                    *)
(***************************************************************************)

\* item1 and item2 are the ticker and decimals of a token, or NoToken.
ProvideToken(item1, item2) ==
  /\ IF item1 # NoToken
     THEN /\ token_found_1' = TRUE
          /\ decimals_1' = item1[2]
          /\ ticker_1' = strlcpy(item1[1], MAX_TICKER_LEN_OVERRIDE)
     ELSE token_found_1' = FALSE /\ UNCHANGED <<decimals_1, ticker_1>>
  /\ IF item2 # NoToken
     THEN /\ token_found_2' = TRUE
          /\ decimals_2' = item2[2]
          /\ ticker_2' = strlcpy(item2[1], MAX_TICKER_LEN_OVERRIDE)
     ELSE token_found_2' = FALSE /\ UNCHANGED <<decimals_2, ticker_2>>
  /\ result' = "OK"
  /\ UNCHANGED <<fieldIndex, contextVars, lookupVars, screenVars>>

(***************************************************************************)
(* handle_query_contract_id                                                *)
(***************************************************************************)
\* Mutant of QueryContractID: a batch is not among the cases.
QueryContractIDOfMarket ==
  /\ IF selectorIndex = "ACTIVATE_MARKET"
     THEN version' = selectorIndex /\ result' = "OK"
     ELSE UNCHANGED version /\ result' = "ERROR"
  /\ UNCHANGED <<fieldIndex, contextVars, tokenVars, lookupVars, title, msg>>

QueryContractID ==
  /\ IF selectorIndex \in {"ACTIVATE_MARKET", "BATCH_DISPATCH"}
     THEN version' = selectorIndex /\ result' = "OK"
     ELSE UNCHANGED version /\ result' = "ERROR"
  /\ UNCHANGED <<fieldIndex, contextVars, tokenVars, lookupVars, title, msg>>

-----------------------------------------------------------------------------
(***************************************************************************)
(* handle_query_contract_ui: the pieces of a screen.                       *)
(***************************************************************************)
\* set_token_1_ui and set_token_2_ui
Token1Line == TokenLine(token_found_1, ticker_1, fields.address_2)
Token2Line == TokenLine(token_found_2, ticker_2, fields.address_3)

\* set_token_1_amount_ui and set_token_2_amount_ui
Amount1Line ==
  AmountLine(fields.amount, IF token_found_1 THEN decimals_1 ELSE DEFAULT_DECIMALS)
Amount2Line ==
  AmountLine(fields.amount, IF token_found_2 THEN decimals_2 ELSE DEFAULT_DECIMALS)

\* A screen, and a screen the plugin refuses after writing part of it.
Screen(t, m)     == [title |-> t, msg |-> m, result |-> "OK"]
BadScreen(t, m)  == [title |-> t, msg |-> m, result |-> "ERROR"]

(***************************************************************************)
(* handle_query_contract_ui: a batch of one item (set_item_ui).            *)
(***************************************************************************)
TokenScreen(label) == Screen(<<Text(label)>>, Token1Line)

MarketScreen(type, index) ==
  IF index = 0 THEN Screen(<<item_type_to_string(type)>>, <<>>) ELSE TokenScreen("Token: ")

AmountScreen(type, index) ==
  CASE index = 0 -> Screen(<<item_type_to_string(type)>>,
                           SubAccountLine("Sub-account: ", fields.sub_account_1))
    [] index = 1 -> TokenScreen("Token: ")
    [] OTHER     -> Screen(<<Text("Amount: ")>>, Amount1Line)

\* TRANSFER ends with the recipient, TRANSFER_FROM with the sender.
TransferScreen(type, index) ==
  CASE index = 0 -> Screen(<<item_type_to_string(type)>>, <<>>)
    [] index = 1 -> TokenScreen("Token: ")
    [] index = 2 -> Screen(<<Text("Amount: ")>>, Amount1Line)
    [] index = 3 \/ (index > 3 /\ type = "TRANSFER") ->
         Screen(<<Text("To: ")>>, AddressLine(fields.address_3))
    [] OTHER     -> Screen(<<Text("From: ")>>, AddressLine(fields.address_1))

SwapScreen(index) ==
  CASE index = 0 -> Screen(<<item_type_to_string("SWAP")>>,
                           <<Text(IF fields.swap_mode = 0 THEN "Exact In"
                                                          ELSE "Exact Out")>>)
    [] index = 1 -> Screen(SubAccountLine("To sub-account: ", fields.sub_account_2),
                           SubAccountLine("From sub-account: ", fields.sub_account_1))
    [] index = 2 -> Screen(<<Text("Token out: ")>>, Token2Line)
    [] index = 3 -> TokenScreen("Token in: ")
    [] OTHER     -> IF fields.swap_mode = 0
                    THEN Screen(<<Text("Min. received: ")>>, Amount2Line)
                    ELSE Screen(<<Text("Max swapped: ")>>, Amount1Line)

SwapAndRepayScreen(index) ==
  CASE index = 0 -> Screen(<<item_type_to_string("SWAP_AND_REPAY")>>, <<>>)
    [] index = 1 -> Screen(SubAccountLine("Repay sub-account: ", fields.sub_account_2),
                           SubAccountLine("From sub-account: ", fields.sub_account_1))
    [] index = 2 -> Screen(<<Text("Repay asset: ")>>, Token2Line)
    [] index = 3 -> TokenScreen("Token in: ")
    [] OTHER     -> Screen(<<Text("Max swapped: ")>>, Amount1Line)

ItemScreen(type, index) ==
  CASE type \in MarketTypes \union PermitTypes -> MarketScreen(type, index)
    [] type \in AmountTypes                    -> AmountScreen(type, index)
    [] type \in {"TRANSFER", "TRANSFER_FROM"}  -> TransferScreen(type, index)
    [] type = "SWAP"                           -> SwapScreen(index)
    [] type = "SWAP_AND_REPAY"                 -> SwapAndRepayScreen(index)
    [] OTHER -> Screen(<<item_type_to_string(type)>>, <<>>)

(***************************************************************************)
(* handle_query_contract_ui: a batch of several items (set_batch_ui).      *)
(***************************************************************************)
SummaryScreen ==
  Screen(<<Number(batch_dispatch_number_of_items), Text("items")>>, <<Text("in a batch")>>)

ItemTypeLine(index) == <<Number(index + 1), item_type_to_string(item_types[index])>>

\* Mutant of MoreLine: the items already listed are counted again.
MoreLineCountsAll == <<Text("and"), Number(batch_dispatch_number_of_items), Text("more")>>

MoreLine == <<Text("and"), Number(batch_dispatch_number_of_items - MAX_ITEMS_IN_BATCH),
              Text("more")>>

\* set_item_types_ui: items 2s - 1 and 2s on screen s.
ItemTypesScreen(screenIndex) ==
  LET index == (screenIndex - 1) * 2
  IN  CASE index + 1 < MAX_ITEMS_IN_BATCH ->
             Screen(ItemTypeLine(index), ItemTypeLine(index + 1))
        [] index + 1 = MAX_ITEMS_IN_BATCH ->
             IF is_max_exceeded THEN Screen(ItemTypeLine(index), MoreLine)
                                ELSE BadScreen(ItemTypeLine(index), <<>>)
        [] OTHER ->
             IF is_max_exceeded THEN Screen(MoreLine, <<>>) ELSE BadScreen(<<>>, <<>>)

-----------------------------------------------------------------------------

ScreenAt(screenIndex) ==
  CASE selectorIndex = "ACTIVATE_MARKET" -> TokenScreen("Token: ")
    [] selectorIndex = "BATCH_DISPATCH" ->
         IF batch_dispatch_number_of_items = 1 THEN ItemScreen(item_types[0], screenIndex)
         ELSE IF screenIndex = 0 THEN SummaryScreen
         ELSE ItemTypesScreen(screenIndex)
    [] OTHER -> BadScreen(<<>>, <<>>)

QueryContractUI(screenIndex) ==
  LET screen == ScreenAt(screenIndex)
  IN  /\ title' = screen.title
      /\ msg' = screen.msg
      /\ result' = screen.result
      /\ UNCHANGED <<fieldIndex, contextVars, tokenVars, lookupVars, version>>
=============================================================================
