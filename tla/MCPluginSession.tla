---------------------------- MODULE MCPluginSession ----------------------------
(***************************************************************************)
(* Small instances of PluginSession.  Every limb of every argument has a   *)
(* value of its own, so that no two halves can be confused, except where a *)
(* transaction is about a special value.                                   *)
(***************************************************************************)
EXTENDS PluginSession, FiniteSetsExt

\* Selectors stand for the 32-bit constants of euler_plugin.h.
MCSelectorOf ==
  [ACTIVATE_MARKET |-> 101, BATCH_DISPATCH |-> 102, ENTER_MARKET |-> 103,
   EXIT_MARKET |-> 104, USE_PERMIT |-> 105, USE_PERMIT_ALLOWED |-> 106,
   USE_PERMIT_PACKED |-> 107, DEPOSIT |-> 108, WITHDRAW |-> 109, BORROW |-> 110,
   REPAY |-> 111, MINT |-> 112, BURN |-> 113, TRANSFER |-> 114,
   TRANSFER_FROM |-> 115, SWAP |-> 116, SWAP_AND_REPAY |-> 117]

\* 17 bits, one more than the parser reads.
MCLimb == 0..131071

MCMaxLimb == 131071

\* The address number n, and the k-th argument of an item.
Addr(n) == [i \in 1..5 |-> 10000 + 10 * n + i]
Arg(k)  == [i \in 1..8 |-> 1000 + 10 * k + i]
AllOnes == [i \in 1..8 |-> MCMaxLimb]

Address1 == AddressWord(Addr(1))
Address2 == AddressWord(Addr(2))
Address3 == AddressWord(Addr(3))
Address4 == AddressWord(Addr(4))

\* The app knows two tokens; the ticker of the second is too long for the plugin.
MCTokens ==
  [a \in {Addr(1), Addr(3)} |->
     IF a = Addr(1) THEN <<<<"D", "A", "I">>, 6>>
     ELSE <<<<"w", "s", "t", "E", "T", "H", "v", "2">>, 8>>]

Item(type, proxy, arguments) ==
  [type |-> type, proxy |-> proxy, arguments |-> arguments, payload |-> 0]

\* A set of transactions as a sequence, in any order.
Listed(set) == FoldSet(LAMBDA t, list : Append(list, t), <<>>, set)

Activate(a) == [function |-> "ACTIVATE_MARKET", underlying |-> a]

\* A batch that defers the liquidity checks of so many accounts.
Batch(items, deferred) ==
  [function |-> "BATCH_DISPATCH", items |-> items,
   deferLiquidityChecks |-> [i \in 1..deferred |-> Address4]]

\* A function the plugin only knows as an item, and one it does not know.
DirectCall == [function |-> "DEPOSIT"]
OtherCall  == [function |-> "OTHER"]

\* The arguments of a swap, with or without a target debt, up to the payload.
SwapParams(mode) ==
  <<Address1, Address3, NumberWord(mode), Arg(8), Arg(9), Arg(10),
    NumberWord(224), NumberWord(0)>>
SwapArgs(mode) == <<Arg(1), Arg(2), Address2, NumberWord(128)>> \o SwapParams(mode)
RepayArgs(mode) ==
  <<Arg(1), Arg(2), Address2, NumberWord(160), Arg(5)>> \o SwapParams(mode)

\* One item of every type, about tokens the app knows and does not, with "all" as an
\* amount, and a swap with a payload of two words.
Singles ==
  {Item(t, Address2, <<Arg(1), a>>) : t \in MarketTypes, a \in {Address1, Address2}}
    \union {Item(t, Address2, <<Address1, Arg(2), Arg(3), Arg(4), Arg(5), Arg(6)>>) :
              t \in PermitTypes}
    \union {Item("USE_PERMIT", Address2, <<Address2, Arg(2), Arg(3), Arg(4), Arg(5), Arg(6)>>)}
    \union {Item(t, Address1, <<Arg(1), Arg(2)>>) : t \in AmountTypes}
    \union {Item("BORROW", Address2, <<Arg(1), AllOnes>>)}
    \union {Item("TRANSFER", p, <<Address3, Arg(2)>>) : p \in {Address1, Address2}}
    \union {Item("TRANSFER_FROM", p, <<Address3, Address4, Arg(3)>>) :
              p \in {Address1, Address2}}
    \union {Item("SWAP", Address2, SwapArgs(mode)) : mode \in {0, 1}}
    \union {Item("SWAP", Address2, SwapArgs(1) \o <<Arg(13), Arg(14)>>)}
    \union {Item("SWAP_AND_REPAY", Address2, RepayArgs(0))}
    \union {Item("UNEXPECTED_ITEM", Address2, args) : args \in {<<>>, <<Arg(1), Arg(2)>>}}

SingleItems == Listed(
  {Activate(Address1), Activate(Address2), DirectCall, OtherCall}
    \union {Batch(<<item>>, deferred) : item \in Singles, deferred \in {0, 2}})
MCSingles == SingleItems

-----------------------------------------------------------------------------

\* Batches of several items: of different lengths, so that their offsets differ,
\* one the plugin does not know, one without data, and a swap with its payload.
Deposit  == Item("DEPOSIT", Address1, <<Arg(1), Arg(2)>>)
Enter    == Item("ENTER_MARKET", Address2, <<Arg(1), Address1>>)
Permit   == Item("USE_PERMIT", Address2,
                 <<Address1, Arg(2), Arg(3), Arg(4), Arg(5), Arg(6)>>)
Swap     == Item("SWAP", Address2, SwapArgs(1) \o <<Arg(13)>>)
Repay    == Item("SWAP_AND_REPAY", Address2, RepayArgs(0))
Unknown  == Item("UNEXPECTED_ITEM", Address2, <<Arg(1)>>)
Bare     == Item("UNEXPECTED_ITEM", Address2, <<>>)
Move     == Item("TRANSFER_FROM", Address1, <<Address3, Address4, Arg(3)>>)

Several == <<Deposit, Swap, Permit, Bare, Unknown, Move, Repay, Enter>>

\* All batches of two of these, and batches of four to nine, starting at any of these.
SeveralItems ==
  [k \in 1..64 |-> Batch(<<Several[((k - 1) \div 8) + 1], Several[(k % 8) + 1]>>, 1)]
    \o [k \in 1..40 |->
          LET n == <<4, 6, 7, 8, 9>>[((k - 1) \div 8) + 1]
          IN  Batch([i \in 1..n |-> Several[((k + i) % 8) + 1]], k % 2)]
    \o <<Batch(<<Deposit>>, 1), Activate(Address1)>>
MCBatches == SeveralItems

\* The batches of which the plugin forgets where they end.
MCThreeItems == <<Batch(<<Deposit, Swap, Permit>>, 1), Batch(<<Deposit, Enter>>, 0)>>
MCFiveItems  == <<Batch(<<Deposit, Swap, Permit, Unknown, Move>>, 1),
                  Batch(<<Deposit, Enter>>, 0)>>
MCEmptyBatch == <<Batch(<<>>, 6), Batch(<<Deposit, Enter>>, 0)>>

\* A permit for a token whose address begins with four zero bytes.
LeadingZeros == AddressWord([Addr(5) EXCEPT ![1] = 0])
MCPermits == Listed(
  {Batch(<<Item(t, Address2, <<a, Arg(2), Arg(3), Arg(4), Arg(5), Arg(6)>>)>>, 1) :
     t \in PermitTypes, a \in {Address2, LeadingZeros}})

-----------------------------------------------------------------------------

\* At the limits of the widths: the last counts that fit a byte, and call data that
\* ends just where a 16-bit offset, and the 16-bit length of an item, still reach.
LongSwap(n) == [Item("SWAP", Address2, SwapArgs(1)) EXCEPT !.payload = n - 12]
Many(n) == Batch([i \in 1..n |-> IF i % 2 = 1 THEN Bare ELSE Unknown], 1)
MCWide  == <<Many(254), Many(255), Batch(<<LongSwap(2034), Deposit>>, 1),
             Batch(<<LongSwap(2047)>>, 1)>>

\* Beyond them: 257 items, and a swap whose length is four modulo 2^16.
MCManyItems == <<Batch([i \in 1..257 |-> Bare], 0)>>
MCLongSwap  == <<Batch(<<LongSwap(2048)>>, 0)>>
=============================================================================
