-------------------------------- MODULE Review --------------------------------
(***************************************************************************)
(* What the plugin promises: a transaction is reviewed on a fixed list of  *)
(* screens, each saying something true of that transaction and nothing of  *)
(* another (src/README.md:3, "user friendly transaction summary").  The    *)
(* list is a function of the transaction and of the tokens the Ethereum    *)
(* app knows; no parser, no context, no order of calls.  PluginSession     *)
(* implements this specification.                                          *)
(***************************************************************************)
EXTENDS Calldata, ScreenText

CONSTANTS
  Transactions,   \* the transactions the user may submit, a sequence
  Tokens          \* [address -> <<ticker, decimals>>]: what the app knows

VARIABLES
  reviewed,   \* the number of the transaction under review, or none
  pages,      \* how many screens its review has
  shown       \* the screen displayed, or none

reviewVars == <<reviewed, pages, shown>>

NoTransaction == 0
NoScreen      == [title |-> <<>>, msg |-> <<>>]

-----------------------------------------------------------------------------

Fact(title, msg) == [title |-> title, msg |-> msg]

Name(item) == <<item_type_to_string(item.type)>>

TokenFact(label, address) ==
  Fact(<<Text(label)>>,
       IF address \in DOMAIN Tokens
       THEN TokenLine(TRUE, strlcpy(Tokens[address][1], MAX_TICKER_LEN_OVERRIDE), address)
       ELSE TokenLine(FALSE, <<>>, address))

AmountFact(label, amount, address) ==
  Fact(<<Text(label)>>,
       AmountLine(amount, IF address \in DOMAIN Tokens THEN Tokens[address][2]
                                                       ELSE DEFAULT_DECIMALS))

\* A sub-account id is the low byte of its argument.
SubAccount(word) == word[8] % UINT8

\* The facts of the only item of a batch, in terms of its arguments.
ItemFacts(item) ==
  LET arg   == item.arguments
      proxy == AddressIn(item.proxy)
      t     == item.type
  IN  CASE t \in MarketTypes ->
             <<Fact(Name(item), <<>>), TokenFact("Token: ", AddressIn(arg[2]))>>
        [] t \in PermitTypes ->
             <<Fact(Name(item), <<>>), TokenFact("Token: ", AddressIn(arg[1]))>>
        [] t \in AmountTypes ->
             <<Fact(Name(item), SubAccountLine("Sub-account: ", SubAccount(arg[1]))),
               TokenFact("Token: ", proxy), AmountFact("Amount: ", arg[2], proxy)>>
        [] t = "TRANSFER" ->
             <<Fact(Name(item), <<>>),
               TokenFact("Token: ", proxy), AmountFact("Amount: ", arg[2], proxy),
               Fact(<<Text("To: ")>>, AddressLine(AddressIn(arg[1])))>>
        [] t = "TRANSFER_FROM" ->
             <<Fact(Name(item), <<>>),
               TokenFact("Token: ", proxy), AmountFact("Amount: ", arg[3], proxy),
               Fact(<<Text("To: ")>>, AddressLine(AddressIn(arg[2]))),
               Fact(<<Text("From: ")>>, AddressLine(AddressIn(arg[1])))>>
        [] t = "SWAP" ->
             LET in == AddressIn(arg[5])  out == AddressIn(arg[6])
                 exactIn == SubAccount(arg[7]) = 0
             IN  <<Fact(Name(item), <<Text(IF exactIn THEN "Exact In" ELSE "Exact Out")>>),
                   Fact(SubAccountLine("To sub-account: ", SubAccount(arg[2])),
                        SubAccountLine("From sub-account: ", SubAccount(arg[1]))),
                   TokenFact("Token out: ", out), TokenFact("Token in: ", in),
                   IF exactIn THEN AmountFact("Min. received: ", arg[9], out)
                              ELSE AmountFact("Max swapped: ", arg[8], in)>>
        [] t = "SWAP_AND_REPAY" ->
             LET in == AddressIn(arg[6])
             IN  <<Fact(Name(item), <<>>),
                   Fact(SubAccountLine("Repay sub-account: ", SubAccount(arg[2])),
                        SubAccountLine("From sub-account: ", SubAccount(arg[1]))),
                   TokenFact("Repay asset: ", AddressIn(arg[7])),
                   TokenFact("Token in: ", in), AmountFact("Max swapped: ", arg[9], in)>>
        [] OTHER -> <<Fact(Name(item), <<>>)>>

\* A batch of several items: how many, then a line per item, two to a screen; one
\* line for all the items beyond MAX_ITEMS_IN_BATCH.
BatchLines(items) ==
  LET n == Len(items)
      Line(i) == <<Number(i)>> \o Name(items[i])
  IN  IF n <= MAX_ITEMS_IN_BATCH
      THEN [i \in 1..n |-> Line(i)]
      ELSE [i \in 1..MAX_ITEMS_IN_BATCH + 1 |->
              IF i <= MAX_ITEMS_IN_BATCH
              THEN Line(i)
              ELSE <<Text("and"), Number(n - MAX_ITEMS_IN_BATCH), Text("more")>>]

BatchFacts(items) ==
  LET lines == BatchLines(items)
      Line(i) == IF i <= Len(lines) THEN lines[i] ELSE <<>>
  IN  <<Fact(<<Number(Len(items)), Text("items")>>, <<Text("in a batch")>>)>>
        \o [s \in 1..(Len(lines) + 1) \div 2 |-> Fact(Line(2 * s - 1), Line(2 * s))]

\* The screens that review a transaction.
Facts(tx) ==
  IF tx.function = "ACTIVATE_MARKET"
  THEN <<TokenFact("Token: ", AddressIn(tx.underlying))>>
  ELSE IF Len(tx.items) = 1 THEN ItemFacts(tx.items[1]) ELSE BatchFacts(tx.items)

-----------------------------------------------------------------------------

Init == reviewed = NoTransaction /\ pages = 0 /\ shown = NoScreen

\* A review begins with the transaction read from the device's input.
Submit(t) ==
  /\ Transactions[t].function \in {"ACTIVATE_MARKET", "BATCH_DISPATCH"}
  /\ reviewed = NoTransaction
  /\ reviewed' = t
  /\ pages' = Len(Facts(Transactions[t]))
  /\ shown' = NoScreen

\* The user leafs through the screens, in any order and as often as they like.
Show(i) ==
  /\ reviewed # NoTransaction
  /\ i \in 1..pages
  /\ shown' = Facts(Transactions[reviewed])[i]
  /\ UNCHANGED <<reviewed, pages>>

\* The transaction is signed or rejected.
Close ==
  /\ reviewed # NoTransaction
  /\ reviewed' = NoTransaction
  /\ pages' = 0
  /\ shown' = NoScreen

Next ==
  \/ \E t \in DOMAIN Transactions : Submit(t)
  \/ \E i \in 1..pages : Show(i)
  \/ Close

Spec == Init /\ [][Next]_reviewVars
=============================================================================
