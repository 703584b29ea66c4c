# The Euler plugin in TLA+

A verification project for the Euler plugin of the Ledger Ethereum app: models of
its code in TLA+, model-checked with TLC on small instances, and theorems about
them checked with TLAPS. Paths are relative to the repository; `src/x.c` is a file
of the plugin's `src` directory.

- [1. The system](#1-the-system)
- [2. What makes it right, and what makes it hard](#2-what-makes-it-right-and-what-makes-it-hard)
- [3. The modules](#3-the-modules)
- [4. The runs](#4-the-runs)
- [5. What the runs found](#5-what-the-runs-found)
- [6. The proofs](#6-the-proofs)
- [7. What is not modelled](#7-what-is-not-modelled)
- [8. Plan](#8-plan)
- [9. How to run it](#9-how-to-run-it)

## 1. The system

The plugin is a small C library that runs on the device beside the Ethereum app.
When a transaction goes to the Euler contracts, the app calls the plugin with one
message after another through `dispatch_plugin_calls`; the plugin reads the call
data as it passes by and fills the screens on which the user reviews the
transaction. Two functions are understood: `activateMarket(address)` and
`batchDispatch(items, deferLiquidityChecks)`. A batch with one item is reviewed
with the arguments of that item, a batch with several with the list of their types.

The plugin never holds the call data. It sees one 32-byte word per call, and what
it must remember lives in one C struct, `context_t`, in memory the Ethereum app
lends it. All the difficulty is there.

| component | code | state | operations | talks to |
|---|---|---|---|---|
| vocabulary | `euler_plugin.h`, `EULER_SELECTORS` in `main.c` | none (selector table, item types, layout constants) | | all |
| set-up | `handle_init_contract.c` | clears `context_t`; sets `selectorIndex`, `next_param` | check version and size, find the selector | parser |
| call data parser | `handle_provide_parameter.c:259-477` | `next_param`, `go_to_offset`, `offset`, `base_items_offset`, `items_offsets[5]`, `batch_dispatch_number_of_items`, `cnt`, `is_max_exceeded`, `item_types[5]`, `item_length`, `item_selector`, `item_handler` | one word per call: seek, read the head, the item offsets, and each item's proxy, length, and data | item handlers (through the stored pointer `item_handler`) |
| item handlers | `handle_provide_parameter.c:5-257` | `address_1..3`, `amount`, `sub_account_1..2`, `swap_mode`; `item_length` as their word counter | one function per kind of item, called for every word of it | parser |
| screen count, tokens | `handle_finalize.c`, `handle_provide_token.c`, `handle_query_contract_id.c` | `token_found_*`, `ticker_*`, `decimals_*`; the answers `numScreens`, `tokenLookup1/2` | announce screens and tokens, keep what the app knows of them | app, screens |
| screens | `handle_query_contract_ui.c` | the answers `title`, `msg`; buffers on the stack | fill screen *i*; write a number (`itoa`) | app |
| dispatch | `main.c` | the context itself | hand a message to its handler | all |
| Ethereum app, Solidity ABI | not in the repository | phase of the review | the order of messages, the encoding of call data | dispatch |
| debug printing | `dbg/printf.c` | none between calls | `semihosted_printf`, in debug builds | all |
| boot, tests, build files | `main.c`, `tests/`, `networks/` | | | |

**Interaction.** Everything is a call from the app, and there is one thread. The app
sends *init*; if the answer is OK, one *provide parameter* per word, *finalize*,
*provide token*, *query contract id*, and then *query contract ui* for the announced
screens, in the order the user leafs through them. The user may abandon a transaction
at any moment; the next *init* then meets the context as it was left. The coupling
between the handlers is the context and nothing else: what *finalize* announces is
computed by other code than what *query contract ui* fills, and both trust what the
parser left.

## 2. What makes it right, and what makes it hard

What one would ask of this code, component by component:

- **Parser.** It never leaves its two five-entry tables, on any input
  (`IndexInBounds`), although `index = number - cnt` is unchecked where `item_types`
  is written; its 8-bit counter is where the state machine believes it is
  (`CounterInRange`); a stored handler is never called on another item's words
  (`HandlerMatchesItem`); items are settled one by one, in order, never revisited
  (`ItemsSettleInOrder`); once it has ended, by success or by a missed goal, later
  words change nothing (`RestIsIgnored`). On well-formed call data it decodes the
  batch (`ItemsDecoded`) and never waits for words beyond the items
  (`SettledBeforeDeferral`).
- **Item handlers.** Arguments inside an item lie four bytes out of step with the
  words, since the item's data begin with a selector. Every argument is put
  together from the end of one word and the beginning of the next, on two calls,
  counted by the remaining `item_length`, or by "is this field still zero".
  An argument shown is an argument of the transaction (`ReviewIsTrue`,
  `PermitShowsToken`).
- **Screens.** Every announced screen can be filled (`ScreensAccepted`); a numbered
  line is about an item of the batch (`NoPhantomItem`); no line outgrows the buffer it
  is put together in (`TextFits`). A number is written as its decimal numeral, without
  leaving the caller's buffer (`NumeralWritten`, `StaysInBuffer` of `Itoa`).
- **Widths.** What does not fit a byte or 16 bits is cut, so the counts and offsets at
  the very end of the widths must still be right (run `wide`), and what lies beyond
  must not be mistaken for something small (`MoreMeansExceeded`, `SwapShowsTokens`:
  it is).
- **Life between transactions.** What is displayed is of this transaction, never of
  an earlier or abandoned one (`ReviewIsTrue`). A transaction that *init* accepted comes
  to its review unless the user gives it up: no handler on the way refuses it
  (`ReviewComes`).
- **Debug printing.** What is written is what the format says, for every number of the
  machine (`MeaningWritten`), and every loop ends (`Returns`).

The hard parts are therefore sequences of calls, counters that wrap, memory that is
reused, arithmetic at the end of a width, and two pieces of code that must agree on a
number. There is no concurrency, no message loss, no persistent storage, and nothing is retried: the
hazards of those kinds do not exist here. The complete list is under
`hazards` in `PROJECT.json`, each at the line where it bites, with the properties
that watch it.

## 3. The modules

```
EulerPlugin            types, constants, addresses and numbers in a word
  +-- ItemHandlers       one word into an item handler, as operators
  |     +-- ProvideParameter    the parser: a state machine fed with any words
  |           |-- MCProvideParameter        instance for TLC
  |           |-- ProvideParameter_proofs   theorems, those of the handlers first
  |           +-- Display               finalize, tokens, contract id, screens
  |                 +-- PluginSession    the app drives it, transaction after transaction
  |                       |-- MCPluginSession        instances for TLC
  |                       |-- PluginSession_proofs   theorems (with ProvideParameter_proofs)
  |                       |     +-- BatchParsing_proofs    batches are decoded (with Calldata_proofs)
  |                       |           +-- Screens_proofs         the lines of the screens
  |                       |                 +-- Review_proofs          the session implements Review
  |                       +-- R == INSTANCE Review   (PluginSession implements Review)
  +-- ScreenText         what a line of a screen is made of, used by Display and Review
  +-- Calldata           the ABI encoding of a transaction (external)
        |-- Calldata_proofs    where the items of a batch are
        +-- Review       abstract: the true screens of a transaction
Numeral                the decimal numeral of a number, used by ScreenText
  +-- Itoa               how itoa and strreverse write it (MCItoa, Itoa_proofs)
  +-- DebugPrintf        how semihosted_printf writes it (MCDebugPrintf, DebugPrintf_proofs)
```

**How the data are abstracted.** A word is eight *limbs* of four bytes. Four bytes is
the granularity of everything the plugin copies: an address is the last five limbs of
a word, a selector is the first, and an argument inside an item is cut after its first
seven limbs. `Limb` is a constant, with only the assumption that it is a set of
naturals with 0 in it and with selectors that are not 0. A number is read from the
last limb modulo 2^16 (`U2BE`, and the 8-bit truncations after it, keep their widths).
A line of a screen is a sequence of pieces such as `<<"text", "0x">>`,
`<<"address", a>>`: what is displayed is kept, how it is typeset is not.

**`EulerPlugin`** (`euler_plugin.h`): `Selectors`, the partition of item types by the
handler that serves them, the layout constants, `copy_address` and the like.

**`ItemHandlers`** (`handle_provide_parameter.c:5-257`): each handler is an operator
from the argument fields, the remaining length and a word to the new fields, the new
length and "done". `CallHandler` is the call through `item_handler`.

**`ProvideParameter`** (`handle_init_contract.c`, `handle_provide_parameter.c:259-477`).
One action for every way a call can go. `InitContract` and `RefuseInit` are
`handle_init_contract`; `SkipWord` and `MissGoal` are the two early returns of
`handle_batch_dispatch` while it seeks; the `Read...` and `FinishItem` actions are the
cases of its `switch`, each with all it does: the parser's bookkeeping, the call of
`handle_item`, and through it of the item's handler. `cnt`, `item_length` and the
offsets wrap as the C types do.

**`Display`** (`handle_finalize.c`, `handle_provide_token.c`,
`handle_query_contract_id.c`, `handle_query_contract_ui.c`). One action per handler.
A screen that the plugin refuses is one whose `result` is `"ERROR"`. `ScreenText` has
the pieces of a line, and the room (`Overflows`) of the buffers on the stack in which
`strcat` puts the lines with a number together.

**`Calldata`** (external): the canonical ABI encoding, into words, of a transaction
given as a record of function, items, and arguments. Nothing in it is recursive: where an
item begins is how many words lie before it (`ItemStart`, the cardinality of a set of
pairs), and a word of the call data is that of the item it lies in. This is what makes it
possible to prove where the items are, for any number of them.

**`PluginSession`** (`main.c`, and the app from outside): the app's phases and the
transaction, a number in the sequence `Transactions`; `Begin`, `Feed`, `EndOfData`, `Inform`, `Identify`, `LeafTo` compose a
step of the app with the handler it calls, `End` is the user's decision or the
abandoning of the transaction, in any phase. No variable of the plugin is touched by
`End`, so that what one transaction leaves is what the next one finds.

**`Review`** is the abstract specification, and knows no parser and no context: a
transaction is reviewed on its `Facts`, a list of screens that is a function of the
transaction and of the tokens the app knows. Its `Submit`, `Show` and `Close` are a
review. `PluginSession` implements it under the mapping: a transaction is reviewed
when the session is in phase `review`, its pages are the screens announced, and the
screen shown is the plugin's last answer. `Review!Spec` as a property of
`PluginSession` (`ReviewIsTrue`) is the strongest thing checked here: after every
history of earlier and abandoned transactions, the number of screens is right and
each of them, in any order, says what is in the transaction.

**`Itoa`** (`handle_query_contract_ui.c:7-45`) is one action per turn of each loop:
`Convert` a digit, `Terminate` with the sign and the zero, `Swap` two characters of
`strreverse`, `Return`; `Call` is the caller with a zeroed buffer. The base is always 10
and the buffer at least `tmp[5]`. `Numeral` is the independent definition of what it
must write. The screens then take a number as a piece `<<"number", n>>` of the length
`NumeralLength(n)`.

**`DebugPrintf`** (`dbg/printf.c`) is `semihosted_printf` with the two directives that
the plugin's `PRINTF` calls use, `%d` and `%.*H`: the copying of text, the search for the
highest power of ten, the padding count that wraps below zero, the digits, the bytes in
hexadecimal. `ULONG`, the width of `unsigned long`, is a constant, so that the search can
be tried on every number beyond the last power of ten. A format is a sequence of tokens,
the output a sequence of pieces, one for each text and each directive. What the output must be is
defined without the function: where texts and directives start (`Starts`), how many arguments are
taken before each (`ArgsBefore`), and what each of them says (`Piece`, by `Numeral` and
`Hexadecimal`). `Suits` is what the C standard asks of a caller: the arguments are the ones that
the directives take. `CallsAssumption` asks it of every call, and the calls of the run are
those of the plugin.

## 4. The runs

| run | instance | checks |
|---|---|---|
| `any_words` | parser alone, two-entry tables, words in any order | `TypeOK`, `IndexInBounds`, `CounterInRange`, `HandlerMatchesItem`, `ItemsSettleInOrder`, `RestIsIgnored` |
| `single_items` | sessions of one-item batches of every type, and `activateMarket` | `SessionTypeOK`, `SettledBeforeDeferral`, `ReviewIsTrue` |
| `batches` | sessions of all pairs of eight items, of batches of 4, 6, 7, 8, 9 items, with the app's fairness | `ItemsDecoded`, `SettledBeforeDeferral`, `ScreensAccepted`, `NoPhantomItem`, `ReviewIsTrue`, `ReviewComes` |
| `wide` | sessions at the end of the widths: 254 and 255 items, call data of almost 64 KiB | `ItemsDecoded`, `TextFits`, `ReviewIsTrue` |
| `itoa` | every number from -5 to 255, in a buffer of 5 | `TypeOK`, `StaysInBuffer`, `NumeralWritten`, `Returns` |
| `debug_printf` | the plugin's formats, every number of 12 bits | `TypeOK`, `MeaningWritten`, `Returns` |
| `three_items`, `five_items`, `empty_batch`, `leading_zeros`, `many_items`, `long_swap` | sessions of the batches named | one property each, violated: section 5 |

**`any_words`** asks what the parser does whatever it is fed. Its bounds: tables of
2 entries (`MAX_ITEMS_IN_BATCH`; the proofs have it arbitrary), which lets batches of
0, 1, 2 and 3 items be below, at and above the limit; at most 14 words
(`MaxWords`), enough for a batch with all its offsets, two complete items and a few
words after them; numbers 0, 1, 2, 3 (counts), 32, 36 and 192 (offsets and lengths
that point to words of the call data, between them and behind them) and 65508 (a
length whose alignment overflows 16 bits). Two selectors of items are among the words,
one of a handler that counts words and one of a handler that looks at its fields, and
words of zeros act as unknown items. A new *init*, accepted or refused, may arrive at
any point. `ReadWord` and `PassWord` are apart only to let TLC evaluate the second once
per state and not once per word.

**`single_items`** has one item of each type in well-formed call data with 0 or 2
deferred accounts after it: known and unknown tokens, tickers that fit and that do not,
"all" as an amount, both swap modes, a swap with a payload, unknown items with and
without arguments, functions the plugin refuses. Each limb of each argument has a value
of its own, so that a half taken from the wrong word or copied to the wrong place is
another value on the screen. Every pair of transactions occurs in sequence, with the
first abandoned at every point of its call data or its review.

**`batches`** has `MAX_ITEMS_IN_BATCH = 5`, as in the code, and eight items of
different lengths, one of them empty, one a swap with a payload. Every ordered pair of
them is a batch; 4 is below the limit, 6 to 9 are above it, odd and even, and these
longer batches are rotated through all starting positions so that every item occurs at
every index and the offsets differ. 3, 5 and 0 are those of section 5.

**`wide`** has what is last to fit: 254 and 255 items (the count is a byte, and "255
items" fills its buffer to the last character), a swap and a deposit whose offsets need
all 16 bits, and a swap whose length is just below 2^16. `many_items` and `long_swap`
are the same one step further on.

The sessions run on *transactions*, not on arbitrary words, because their questions
are about well-formed call data; arbitrary words are the question of `any_words`.
`MaxWords` (100, 200 in `batches`, 2100 in the runs about widths) is above the longest call
data there and `TransactionsAssumption` says so, so the bound never cuts a session.
`Limb` has 17 bits, one more than the parser reads, so that what is cut off is there.

**`itoa`** has all numbers the screens can print: a byte, the index of an item, and a
byte less `MAX_ITEMS_IN_BATCH`, down to -5 for the empty batch of section 5.
**`debug_printf`** has all numbers from -2047 to 2047 with `ULONG = 2^12`. The last power of
ten below 2^12 is 1000, and for the numbers from 1808 on ten times 1000, which wraps to
1808, is not above them: there only the division `/ ulBase == ulIdx` ends the search, as
for the largest numbers of 32 bits. -2048 is not among them: negating the smallest long
is undefined in C, and no caller prints it.

**Deadlock.** Sessions and `itoa` are checked for deadlock: the app can always go on. Two
runs are not: the parser alone ends at `MaxWords` words, when the model has no more to
give it, and `semihosted_printf` ends when it returns.

**Fairness.** `FairSession` has weak fairness of `Feed`, `EndOfData`, `Inform` and
`Identify`: the app, while it processes a transaction, sends the next word or asks the
next question without waiting for anyone, and each handler is a function that returns.
When to begin a transaction (`Begin`), which screen to look at (`LeafTo`) and when to stop
(`End`) is the user's choice and has no fairness. `ReviewComes` is then a statement about
the handlers: had one of them refused, or left the app in a phase without a next
message, a fair session would not come to the review with `result = "OK"`. In `Itoa` and
`DebugPrintf` the turns of the loops are weakly fair, because a function that was called
runs; `Call` is not.

## 5. What the runs found

Each of these is a run that ends in a violation, on well-formed call data.

- **`five_items` violates `ScreensAccepted`.** For exactly five items `handle_finalize`
  announces 1 + 5/2 + 5%2 = 4 screens; for the last one `set_item_types_ui` writes item
  5, finds that there is no sixth and `is_max_exceeded` is false, and answers
  `ETH_PLUGIN_RESULT_ERROR` (`handle_query_contract_ui.c:129-137`).
- **`three_items` violates `NoPhantomItem`.** The second line of a screen is printed
  for every index below `MAX_ITEMS_IN_BATCH`, whatever the number of items; entry 3 of
  the zeroed table is `ACTIVATE_MARKET`, and the screen lists a fourth item, "4.
  Activate Market".
- **`empty_batch` violates `ExceededMeansMore`.** With 0 items `cnt--` wraps to 255, the
  words after the items, the number of deferred accounts and the accounts, are stored as
  offsets, and the sixth of these words sets `is_max_exceeded`.
- **`leading_zeros` violates `PermitShowsToken`.** `handle_use_permit` takes four zero
  bytes at the head of `address_2` for "not read yet". For a token whose address begins
  with them the heads of the following arguments are copied over it.
- **`many_items` violates `MoreMeansExceeded`.** The number of items is cut to a byte
  (`handle_provide_parameter.c:281`): 257 items count as one, and the review is that of the
  first.
- **`long_swap` violates `SwapShowsTokens`.** The length of an item is cut to 16 bits
  (`handle_provide_parameter.c:323`) before the comment's "as the swap payload will not be
  parsed" replaces it: 65540 bytes count as four, the item ends with its selector, and
  the screens of the swap show zeros.

These inputs are left out of the passing runs, which is why `ReviewIsTrue` holds there:
it holds for batches of 1, 2, 4, 6 to 9, 254 and 255 items, and for permits of tokens
whose addresses begin and end with bytes other than zero. That `five_items` is the only
batch refused with a table of five is proved (section 6, `AnnouncedScreensAccepted`).

## 6. The proofs

`ProvideParameter_proofs` proves, for every
`MAX_ITEMS_IN_BATCH` in 1..255, every set of limbs, every selector table without
0, every set of call data and every number of words; `PluginSession_proofs`,
`BatchParsing_proofs`, `Screens_proofs` and `Review_proofs`, for every sequence of transactions and every
token list besides; `Itoa_proofs`, for every number of at most three digits and every
buffer from five characters on; `DebugPrintf_proofs`, for every set of calls whose arguments
suit their formats and every `unsigned long` of at most 32 bits:

| module | theorem | states |
|---|---|---|
| `ProvideParameter_proofs` | `TypeCorrect` | `Spec => []TypeOK` |
| | `IndexStaysInBounds` | `Spec => []IndexInBounds` |
| | `CounterStaysInRange` | `Spec => []CounterInRange` |
| | `HandlerStaysMatched` | `Spec => []HandlerMatchesItem` |
| | `RestStaysIgnored` | `Spec => RestIsIgnored` |
| | `ItemsStayInOrder` | `Spec => ItemsSettleInOrder` |
| `PluginSession_proofs` | `SessionTypeCorrect` | `SessionSpec => []SessionTypeOK` |
| | `ParserSafeInSessions` | `SessionSpec => [](IndexInBounds /\ CounterInRange /\ HandlerMatchesItem)` |
| | `AnnouncedScreensAccepted` | `SessionSpec => [](~LastScreenHalfEmpty => ScreensAccepted)` |
| `Calldata_proofs` | `BatchLayout` | the words of a batch are at its offsets |
| `BatchParsing_proofs` | `BatchesDecoded` | `SessionSpec => [](tx \in Decodable => ItemsDecoded)` |
| | `BatchesSettleBeforeDeferral` | `SessionSpec => [](tx \in Decodable /\ SwapIsComplete(tx) => SettledBeforeDeferral)` |
| `Screens_proofs` | `LinesStayInBuffers` | `SessionSpec => []TextFits`, if `MAX_ITEMS_IN_BATCH <= 99` |
| | `ListedItemsExist` | `SessionSpec => [](tx \in Decodable /\ ~ListEndsHalfway(tx) => NoPhantomItem)` |
| `Review_proofs` | `ReviewsAreTrue` | `SessionSpec => ReviewIsTrue`, if `Readable \subseteq Reviewable` |
| | `ReviewableIsReviewed` | `SessionSpec => [](tx \in Reviewable => SaysTheFacts)` |
| `Itoa_proofs` | `ItoaTypeCorrect` | `Spec => []TypeOK` (of `Itoa`) |
| | `ItoaStaysInBuffer` | `Spec => []StaysInBuffer` |
| | `ItoaWritesNumeral` | `Spec => []NumeralWritten` |
| `DebugPrintf_proofs` | `PrintfTypeCorrect` | `Spec => []TypeOK` (of `DebugPrintf`) |
| | `PrintfWritesMeaning` | `Spec => []MeaningWritten` |

**Assumptions.** Only the named `ASSUME`s on constants, which TLC evaluates in every
run: the table has 1 to 255 entries, 0 is a limb and limbs are naturals, selectors are
distinct limbs other than 0, the words given are words; in sessions, the call data that
the plugin agrees to read is a sequence of words not longer than `MaxWords`, and a
token has a string of characters and a byte of decimals; in `DebugPrintf`, a byte fits an
`unsigned long`, which has at most 32 bits (the device's have 32; `pcBuf[16]` has no room for the
20 digits of 64), and the arguments of a call suit its format.

**Hypotheses in the theorems.** Where the code is wrong for some call data (section 5) a
theorem names them, and no others:

- `Decodable`: a batch of 1 to 255 items, those that the plugin remembers at places that
  16 bits reach. The batches left out are those of `empty_batch` and `many_items`, and call
  data of 64 KiB and more.
- `SwapIsComplete`: an only item that is a swap has the words that its hardcoded length
  counts; without them it runs on into the words behind, and no call of the Euler
  contracts encodes such a swap.
- `ListEndsHalfway`: the batches of an odd number of items, not one, that leave room in the
  table: those of `three_items`.
- `LastScreenHalfEmpty`: the batch of `five_items`.
- `MAX_ITEMS_IN_BATCH <= 99`: from 100 on, "100. " and the longest name are one character
  longer than `char item_type_1[29]`. The code has 5.

- `Reviewable`: `activateMarket`; a `Decodable` batch of one item that `IsWhole`; a `Decodable`
  batch of several that is not `ListEndsHalfway`. An item is whole when it has the arguments
  of its function: exactly those for the handlers that count words from the end, at least
  those for a swap (any payload may follow), and for a permit a token whose address begins and
  ends with four bytes that are not all zero (`handle_use_permit` asks its fields, not the counter,
  which word it is at; `leading_zeros`); its length fits 16 bits (`long_swap`). Nothing is asked of items
  the plugin does not know. The batch of `five_items` is `Reviewable`: what its last screen says
  is true, only the answer is an error.

Every batch of a passing run is `Decodable` and has `SwapIsComplete`, and every transaction that
the plugin reads there is `Reviewable`; of the six runs of section 5, only the instance of
`five_items` is.

**The types.** `TypeOK` is inductive as it stands, but only because the reductions
modulo 2^8 and 2^16 are in the model. It rests on a lemma for each item handler
(`EnterMarketType` ... `SwapAndRepayType`): from fields, a 16-bit length and a word it
makes fields, a 16-bit length and a Boolean.

**The invariant.** None of the three safety properties is inductive alone. That the
index of an item stays in the table depends, when the only item is reached, on the
counter still being 1; that the counter stays below the number of items depends, when
one item is finished, on its not being 0; that a stored handler is the right one
depends on the counter (the only item has index 0) and on the parser not giving up in
the middle of an item. `IInv` is `TypeOK` and `ParserInv`, which is the three together
with `ParserPhase`: the parser seeks only before three of its states (so it can miss a
goal only there, where no handler is stored), and `activateMarket` never enters the
parser. Two cases carry the argument:

- the last offset (`ReadLastItemOffset`) resets the counter to the number of items, so
  the index is 0 again, whatever the counter went through, a wrap to 255 for an empty
  batch included;
- a finished item (`FinishItem`) lowers the counter modulo 2^8 and goes on only when the
  next index is below `MAX_ITEMS_IN_BATCH`: the test for the *next* item is what makes the
  unchecked write of that item safe.

`ParserStep` proves it action by action, with `CounterArithmetic` for the wrapped
subtractions and `ItemGoesOn` for what must be true when a handler asks for another
word. `ItemsSettleInOrder` and `RestIsIgnored` are action properties and follow from the
invariant step by step; `InitEndsTransaction` says that an *init*, accepted or refused,
is not a step of the transaction before it.

The strengthening was itself checked with TLC on the instance of `any_words` before it
was proved.

**The session.** The parser's lemmas `TypeStep` and `ParserStep` are about `AnyCall`, any
selector and any word, so that they serve `Next` (`NextIsAnyCall`) and the session alike.
`ParserInSession` shows that every step of the session is such a call or leaves the context
alone: `Begin` through `CallSelector`, `Feed` because a transaction is only fed if *init*
accepted it, which makes it one whose call data are words (`AcceptsReadable`, from the
selectors being distinct), the display because it only reads the context
(`AnswerKeepsParser`). `SessionInv` adds to the parser's `IInv` and the types that what
*finalize* announced is still what the context says (`Announced`) and that a screen in review
was accepted unless `LastScreenHalfEmpty`. The arithmetic of the announced screens is in
`ListedScreenAccepted`: screen *i* of *n* items begins with item 2*i* - 1, and *i* is at most
*n*/2 + *n*%2, so 2*i* - 1 is below *n* + *n*%2; when that is at most the table, both lines of
the screen have a place in it. With a table of five, not marked as exceeded, exactly five
items are left out (and more only if the parser gave up before it had counted the offsets).

**The call data.** `BatchLayout` is proved without induction over the items. The words
before item *i* are counted by the pairs of an item before *i* and one of its words; two
facts about the cardinality of finite sets then say that the next item begins where this
one ends (`ItemStart` of *i* + 1 is that of *i* and the length of *i*), and that every
position in the call data lies in exactly one item.

**Batches.** `BatchInv` says, for each state of the parser, how far it is in the call data of
the transaction in progress, if that is `Decodable`: `InHeader` before the items (`cnt` counts
the offsets to come, those that came are in `items_offsets`), `InItem` while it seeks or reads
the item whose index is number - `cnt` (the offset it seeks is that item's, the words passed are
not beyond it, the types of the items before are in `item_types`, a handler that is still reading
has as many words to come as its item has), `AfterItems` when it has ended. `BatchStep` proves it, one
lemma for each action of the parser, from `WordsOfBatch`, which reads `BatchLayout` as what the
parser meets at each place. The hard case is again `FinishItem`: an item may end before its words
do (a permit, a swap whose words "will not be parsed"), and the parser then must still be before the place it
seeks next. `BatchInv` was checked with TLC on the sessions before it was proved.

**The lines.** `LineOf` says what a line can be: text with at most one number behind it, the
number of items, or an item of the list with its number. `TextFits` is the arithmetic of those
forms with the lengths of the names; `NoPhantomItem` follows from `ListedLine` (a numbered line is
about the item of the first or second index of its screen), from the announced number of screens, and
from `BatchesDecoded`.

**The review.** `ReviewIsTrue` needs every argument followed from the call data to the screen. An
argument lies across two words; `HeadCopied` and `TailCopied` say that the copies made on the two
calls join to the argument (`AddressHead`, `AddressTail`, and the same for an amount). For each
handler a predicate says what the fields hold after *k* words of the item (`MarketRead`,
`PermitRead`, `AmountRead`, `TransferRead`, `TransferFromRead`, `SwapRead`, `SwapAndRepayRead`: an
argument, its head alone, or zeros where the handler tests for them), and a lemma (`MarketReads` ...)
that the next word takes it from *k* to *k* + 1. `OnlyItemRead` ties *k* to `fieldIndex`, and the handler's counter
`item_length` to the words to come; `ReadInv` keeps it through the session, where
`OnlyItemStep` has a case for each action of the parser. `AnswersInv` goes on from the fields to the answers:
*finalize* has asked for the tokens in `address_2` and `address_3`, and what
`handle_provide_token` kept is what the app knows of these, a token that it does not know included
(`KnownAs`). `ItemSeen` and `BatchSeen` then compare what each screen is put together from with the
facts of the abstract review, type by type and line by line, and `FactsTold` has the result for every
`Reviewable` transaction: as many screens announced as facts, and screen *i* says fact *i* + 1.

The refinement follows action by action: *query contract id* is `Submit`, `LeafTo(i)` is
`Show(i + 1)`, `End` during a review is `Close`, and every other step, an `End` before the review
included, leaves the review as it is. `ReviewsAreTrue` has to ask of *every* transaction that the plugin reads that
it be `Reviewable`, since one false screen breaks the refinement. `ReviewableIsReviewed` asks it only of
the transaction displayed: its screens are true after any others, those of section 5 included.

**`itoa`.** The buffer is safe because of a bound on the digits still to come
(`DigitsLeft`): each turn of the first loop leaves a tenth of the value, so before the
digit at position *k* at most 3 - *k* are left. That the text is the numeral is
`BufferHolds`: in the first loop the buffer has the last digits of the number, the last one first
(`LastDigits`), and the value is what is left of it (`Rest`); in the second the characters outside
the two pointers have been exchanged and those between have not (`HalfReversed`). The lemmas
`CountOfDigits` and `DigitsFromTheEnd` are about `Numeral` and powers of ten. With three digits or
fewer, powers of ten are 1, 10, 100 and 1000, and no induction is needed.

**Debug printing.** `IInv` says for each place of the function where the format, what is left of
the arguments, and the output stand: all three at the same text or directive (`InFormat`,
`InDirective`, `InNumber`, `InBytes`). Counting is done by
the cardinality of sets again: a text or directive has one more piece before it than the one in
front (`PiecesNext`), and as many more arguments as that one takes (`ArgsNext`), so that `%.*H`
finds its bytes behind its length. The difficult part is a number:

- `Searching`: after *k* turns of the search for the highest power the power is 10^*k* and the
  padding has been lowered *k* times from 0. `NextPowerExact` is why the test may be made in
  arithmetic that wraps: ten times the power, wrapped, divides back to the power only if it did not
  wrap. With at most 32 bits *k* is at most 9.
- `NeverPads`: the padding that is left is 0 or has wrapped to within ten of `ULONG`; `> 1 && < 16`
  holds of neither (that is what `ULONG > 256` is for), so no fill is written, though nobody set
  the count for it.
- `DigitsOut`: the power goes down to 0 while the digits come out, and the *m*-th is the one `Numeral`
  has there (`NumeralForm`, `DigitCountIs`).

`IInv` was checked with TLC on the instance of `debug_printf` before it was proved. For the
proof the module's output became a sequence of pieces, and its reference definition, which had been
recursive over the format, one that counts.

**Only model-checked**:

- The liveness properties (`ReviewComes`, and `Returns` of `Itoa` and of `DebugPrintf`): the prover has no
  liveness under fairness.
- What the six runs of section 5 refute cannot be proved.

Every other property that a passing run checks is stated by a theorem.

## 7. What is not modelled

- **The contents of names and literal texts**: a line is a sequence of pieces; the names'
  lengths (`NameLength`) are modelled, because the buffers depend on them. Text that goes
  straight to the app's `title` and `msg` is cut by `strlcpy` to lengths the app chooses;
  no property is about it.
- **`adjustDecimals`/`amountToString`, `getEthDisplayableAddress`**: functions of the SDK,
  not of this repository; an amount is displayed as the amount and the decimals.
- **`RefuseInit` in sessions**: version and size are properties of the app that calls and
  do not change between its transactions. The parser's own run and proofs have it.
- **The other directives of `semihosted_printf`** (`%c`, `%s`, `%u`, `%x`, `%X`, `%p`, `%h`,
  `%%`, widths, a fill of zeros, `printf.c:155-206, 276-296, 327-351, 386-450, 527-562`): no
  call of the plugin uses them, and nothing reads what a debug build writes. `debug_write`
  (`printf.c:10-43`) is a supervisor call of the emulator.
- **Boot** (`main`, `call_app_ethereum`): starts the library or the Ethereum app, with the
  exception frames and system calls of the SDK; no state of the plugin exists before or
  survives it, and what it could get wrong is the SDK's to say.
- Tests, network descriptions and build files contain no logic of the plugin. The tests
  were read to see which transactions it meets.

## 8. Plan

Done: the vocabulary, the parser with its handlers, the screens with their buffers, the
session with its liveness, the abstract review, the text routines (`itoa` and debug
printing), the boundaries of the widths; the proofs of the parser on arbitrary words, of
the session's types and announced screens, of `itoa`'s buffer.

Done since: the layout of the call data, the decoding of batches, the lines of the screens
and their buffers, the text `itoa` writes, the arguments the handlers read and the refinement of
`Review`; the types and the output of `semihosted_printf`.

What is left is out of the prover's reach (liveness) or not part of the plugin's own logic
(section 7).

## 9. How to run it

```
cd tla
tlc -workers 2 -config AnyWords.cfg MCProvideParameter.tla     # about half a minute
tlc -workers 2 -config Batches.cfg  MCPluginSession.tla
tlc -workers 2 -config Itoa.cfg     MCItoa.tla
tlc -workers 2 -config DebugPrintf.cfg MCDebugPrintf.tla
tlapm ProvideParameter_proofs.tla
tlapm PluginSession_proofs.tla
tlapm Calldata_proofs.tla
tlapm BatchParsing_proofs.tla
tlapm Screens_proofs.tla
tlapm Review_proofs.tla                                        # about three minutes
tlapm Itoa_proofs.tla
tlapm DebugPrintf_proofs.tla
```

`PROJECT.json` lists every run, the mutated definition that shows each property can
fail, the lines of code each definition models, and the theorems. The mutants stand
right before the definition they mutate, named after it, and nothing else uses them.
