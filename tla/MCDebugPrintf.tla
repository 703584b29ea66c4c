----------------------------- MODULE MCDebugPrintf -----------------------------
(***************************************************************************)
(* The formats of the plugin's PRINTF calls.  An unsigned long has 12 bits *)
(* here, so that all numbers can be tried; as with 32 bits, the largest    *)
(* ones meet a power of ten that wraps to less than they are.              *)
(***************************************************************************)
EXTENDS DebugPrintf

\* "Received an invalid screenIndex 1\n", "Selector Index not supported: %d\n",
\* "Go to offset error: %d | %d\n", "plugin provide parameter: offset %d\nBytes: %.*H\n"
Refusal   == <<"Received an invalid screenIndex 1">>
OneNumber == <<"Selector Index not supported: ", "%", "d", "newline">>
TwoNumbers ==
  <<"Go to offset error: ", "%", "d", " | ", "%", "d", "newline">>
Parameter ==
  <<"plugin provide parameter: offset ", "%", "d", "Bytes: ",
    "%", ".", "*", "H", "newline">>

MCCalls ==
  {[format |-> Refusal, args |-> <<>>]}
    \union {[format |-> OneNumber, args |-> <<n>>] : n \in -2047..2047}
    \union {[format |-> TwoNumbers, args |-> <<m, n>>] :
              m \in {0, 9, 2047}, n \in {10, 999, 1808}}
    \union {[format |-> Parameter, args |-> <<n, 4, bytes>>] :
              n \in {4, 36, 996}, bytes \in {<<0, 9, 160, 255>>, <<16, 1, 171, 205>>}}
=============================================================================
