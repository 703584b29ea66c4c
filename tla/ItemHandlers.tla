----------------------------- MODULE ItemHandlers -----------------------------
(***************************************************************************)
(* The handlers of the single item of a batch                              *)
(* (src/src/handle_provide_parameter.c, lines 5-257).                      *)
(*                                                                         *)
(* A handler sees the item's data one word at a time.  It knows where it   *)
(* is only from the number of words left, item_length / PARAMETER_LENGTH,  *)
(* and copies the two halves of each argument it wants into the fields of  *)
(* the context that the screens are built from.  A handler is a function   *)
(* from the fields, the words left and the word to the new fields.         *)
(***************************************************************************)
EXTENDS EulerPlugin

\* The part of context_t that the handlers write and the screens read.
Fields ==
  [address_1 : Address, address_2 : Address, address_3 : Address,
   amount : Word,
   sub_account_1 : 0..UINT8 - 1, sub_account_2 : 0..UINT8 - 1,
   swap_mode : 0..UINT8 - 1]

ZeroFields ==
  [address_1 |-> ZeroAddress, address_2 |-> ZeroAddress,
   address_3 |-> ZeroAddress, amount |-> ZeroWord,
   sub_account_1 |-> 0, sub_account_2 |-> 0, swap_mode |-> 0]

-----------------------------------------------------------------------------

\* enterMarket(subAccount, market), and exitMarket.
handle_enter_market(f, word, param) ==
  CASE word = 2 -> [f EXCEPT !.sub_account_1 = LowByteIn(param),
                             !.address_2 = AddressHead(@, param)]
    [] word = 1 -> [f EXCEPT !.address_2 = AddressTail(@, param)]
    [] OTHER    -> f

\* The permits do not count words: what is left to copy is told from the first
\* and last four bytes of address_2 still being zero.
PermitHeadMissing(f) == f.address_2[1] = 0
PermitTailMissing(f) == f.address_2[5] = 0

\* usePermit(token, ...) and its two variants.
handle_use_permit(f, param) ==
  IF PermitHeadMissing(f)
  THEN [f EXCEPT !.address_2 = AddressHead(@, param)]
  ELSE [f EXCEPT !.address_2 = AddressTail(@, param)]

\* deposit(subAccount, amount), and the five functions like it; the token is the
\* contract the item calls.
handle_deposit(f, word, param) ==
  CASE word = 2 -> [f EXCEPT !.address_2 = f.address_1,
                             !.sub_account_1 = LowByteIn(param),
                             !.amount = AmountHead(@, param)]
    [] word = 1 -> [f EXCEPT !.amount = AmountTail(@, param)]
    [] OTHER    -> f

\* transfer(to, amount)
handle_transfer(f, word, param) ==
  CASE word = 3 -> [f EXCEPT !.address_2 = f.address_1,
                             !.address_3 = AddressHead(@, param)]
    [] word = 2 -> [f EXCEPT !.address_3 = AddressTail(@, param),
                             !.amount = AmountHead(@, param)]
    [] word = 1 -> [f EXCEPT !.amount = AmountTail(@, param)]
    [] OTHER    -> f

\* transferFrom(from, to, amount): the token moves to address_2 before "from"
\* takes its place in address_1.
handle_transfer_from(f, word, param) ==
  CASE word = 4 -> [f EXCEPT !.address_2 = f.address_1,
                             !.address_1 = AddressHead(@, param)]
    [] word = 3 -> [f EXCEPT !.address_1 = AddressTail(@, param),
                             !.address_3 = AddressHead(@, param)]
    [] word = 2 -> [f EXCEPT !.address_3 = AddressTail(@, param),
                             !.amount = AmountHead(@, param)]
    [] word = 1 -> [f EXCEPT !.amount = AmountTail(@, param)]
    [] OTHER    -> f

\* swap: mode 0 keeps amountOut (words 5 and 4), any other amountIn (6 and 5).
handle_swap(f, word, param) ==
  CASE word = 12 -> [f EXCEPT !.sub_account_1 = LowByteIn(param)]
    [] word = 11 -> [f EXCEPT !.sub_account_2 = LowByteIn(param)]
    [] word = 9  -> [f EXCEPT !.address_2 = AddressHead(@, param)]
    [] word = 8  -> [f EXCEPT !.address_2 = AddressTail(@, param),
                              !.address_3 = AddressHead(@, param)]
    [] word = 7  -> [f EXCEPT !.address_3 = AddressTail(@, param)]
    [] word = 6  -> [f EXCEPT !.swap_mode = LowByteIn(param),
                              !.amount = IF LowByteIn(param) # 0
                                         THEN AmountHead(@, param) ELSE @]
    [] word = 5  -> [f EXCEPT !.amount = IF f.swap_mode # 0
                                         THEN AmountTail(@, param)
                                         ELSE AmountHead(@, param)]
    [] word = 4  -> [f EXCEPT !.amount = IF f.swap_mode = 0
                                         THEN AmountTail(@, param) ELSE @]
    [] OTHER     -> f

\* swapAndRepay: the amount is always amountIn (words 6 and 5).
handle_swap_and_repay(f, word, param) ==
  CASE word = 13 -> [f EXCEPT !.sub_account_1 = LowByteIn(param)]
    [] word = 12 -> [f EXCEPT !.sub_account_2 = LowByteIn(param)]
    [] word = 9  -> [f EXCEPT !.address_2 = AddressHead(@, param)]
    [] word = 8  -> [f EXCEPT !.address_2 = AddressTail(@, param),
                              !.address_3 = AddressHead(@, param)]
    [] word = 7  -> [f EXCEPT !.address_3 = AddressTail(@, param)]
    [] word = 6  -> [f EXCEPT !.amount = AmountHead(@, param)]
    [] word = 5  -> [f EXCEPT !.amount = AmountTail(@, param)]
    [] OTHER     -> f

-----------------------------------------------------------------------------

\* The fields after one word of an item of type h.
HandlerFields(h, f, word, param) ==
  CASE h \in MarketTypes       -> handle_enter_market(f, word, param)
    [] h \in PermitTypes       -> handle_use_permit(f, param)
    [] h \in AmountTypes       -> handle_deposit(f, word, param)
    [] h = "TRANSFER"          -> handle_transfer(f, word, param)
    [] h = "TRANSFER_FROM"     -> handle_transfer_from(f, word, param)
    [] h = "SWAP"              -> handle_swap(f, word, param)
    [] h = "SWAP_AND_REPAY"    -> handle_swap_and_repay(f, word, param)

\* The length is a whole, non-zero number of words.
pre_handle(length) ==
  length >= PARAMETER_LENGTH /\ length % PARAMETER_LENGTH = 0

\* A handler gives up, and so ends the item, without touching the fields or the
\* length.
HandlerGivesUp(h, f, length) ==
  \/ ~pre_handle(length)
  \/ h \in PermitTypes /\ ~PermitHeadMissing(f) /\ ~PermitTailMissing(f)

\* post_handle: the length left, and whether that ends the item.
post_handle(length) ==
  LET left == length - PARAMETER_LENGTH
  IN  [length |-> left, done |-> left < PARAMETER_LENGTH]

\* One call of a handler: the new fields, the length left, and the value returned.
CallHandler(h, f, length, param) ==
  IF HandlerGivesUp(h, f, length)
  THEN [fields |-> f, length |-> length, done |-> TRUE]
  ELSE LET word == (length \div PARAMETER_LENGTH) % UINT8
           post == post_handle(length)
       IN  [fields |-> HandlerFields(h, f, word, param),
            length |-> post.length, done |-> post.done]
=============================================================================
