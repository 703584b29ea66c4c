-------------------------- MODULE MCProvideParameter --------------------------
(***************************************************************************)
(* A small instance of ProvideParameter: words whose first and last limbs   *)
(* range over the values the parser tells apart, every other limb zero.     *)
(***************************************************************************)
EXTENDS ProvideParameter

\* Selectors stand for the 32-bit constants of euler_plugin.h.
MCSelectorOf ==
  [ACTIVATE_MARKET |-> 101, BATCH_DISPATCH |-> 102, ENTER_MARKET |-> 103,
   EXIT_MARKET |-> 104, USE_PERMIT |-> 105, USE_PERMIT_ALLOWED |-> 106,
   USE_PERMIT_PACKED |-> 107, DEPOSIT |-> 108, WITHDRAW |-> 109, BORROW |-> 110,
   REPAY |-> 111, MINT |-> 112, BURN |-> 113, TRANSFER |-> 114,
   TRANSFER_FROM |-> 115, SWAP |-> 116, SWAP_AND_REPAY |-> 117]

\* Words read as a number: counts (an empty batch, one item, two, which is the
\* maximum here, and one more), offsets of words of the call data, the length of
\* a call with one argument, and one whose aligned length overflows 16 bits.
MCNumbers == {0, 1, 2, 3, 32, 36, 192, 65508}

\* Words that begin with a selector: one whose handler counts words, and one whose
\* handler tells from the fields what is missing.
MCSelectors == {MCSelectorOf["DEPOSIT"], MCSelectorOf["USE_PERMIT"]}

\* One function of each outcome: the two supported ones, one only supported inside
\* a batch, and one the plugin does not know.
MCCallSelectors ==
  {MCSelectorOf["ACTIVATE_MARKET"], MCSelectorOf["BATCH_DISPATCH"],
   MCSelectorOf["DEPOSIT"], 200}

MCLimb == MCNumbers \union {200} \union {MCSelectorOf[s] : s \in Selectors}

MCCallWords ==
  {[ZeroWord EXCEPT ![8] = n] : n \in MCNumbers}
    \union {[ZeroWord EXCEPT ![1] = s, ![5] = 1, ![8] = 2] : s \in MCSelectors}
=============================================================================
