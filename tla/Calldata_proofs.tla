---------------------------- MODULE Calldata_proofs ----------------------------
(***************************************************************************)
(* Where the words of a batch lie in its call data: the items follow each  *)
(* other without gap or overlap, each where its offset says.               *)
(***************************************************************************)
EXTENDS Calldata, FiniteSetTheorems, FunctionTheorems, TLAPS

\* An item takes five words, and the arguments it has.
LEMMA ItemSizeType ==
  ASSUME NEW item \in BatchItem
  PROVE  ArgumentCount(item) \in Nat /\ ItemSize(item) \in Nat /\ ItemSize(item) >= 5
BY DEF BatchItem, ArgumentCount, ItemSize

\* Finitely many words come before an item.
LEMMA WordsBeforeFinite ==
  ASSUME NEW items \in Seq(BatchItem), NEW i \in 1..Len(items) + 1
  PROVE  IsFiniteSet(WordsBefore(items, i))
<1> DEFINE Place(j) == {j} \X (1..ItemSize(items[j]))
           f == [j \in 1..i - 1 |-> Place(j)]
           S == {Place(j) : j \in 1..i - 1}
<1>1. ASSUME NEW j \in 1..i - 1
      PROVE  IsFiniteSet(Place(j))
  <2>1. ItemSize(items[j]) \in Nat
    BY ItemSizeType
  <2>2. IsFiniteSet(1..ItemSize(items[j]))
    BY <2>1, FS_Interval
  <2>3. IsFiniteSet({j})
    BY FS_Singleton
  <2> QED
    BY <2>2, <2>3, FS_Product
<1>2. IsFiniteSet(S)
  <2> HIDE DEF Place
  <2>1. f \in Surjection(1..i - 1, S)
    BY DEF Surjection
  <2>2. IsFiniteSet(1..i - 1)
    BY FS_Interval
  <2> QED
    BY <2>1, <2>2, FS_Surjection
<1>3. \A T \in S : IsFiniteSet(T)
  BY <1>1
<1>4. IsFiniteSet(UNION S)
  BY <1>2, <1>3, FS_UNION
<1> QED
  BY <1>4 DEF WordsBefore

\* The place of an item is a number.
LEMMA BodyStartType ==
  ASSUME NEW items \in Seq(BatchItem), NEW i \in 1..Len(items) + 1
  PROVE  BodyStart(items, i) \in Nat
BY WordsBeforeFinite, FS_CardinalityType DEF BodyStart

\* The first item follows the offsets.
LEMMA BodyStartFirst ==
  ASSUME NEW items \in Seq(BatchItem)
  PROVE  BodyStart(items, 1) = 0
<1>1. WordsBefore(items, 1) = {}
  BY DEF WordsBefore
<1> QED
  BY <1>1, FS_EmptySet DEF BodyStart

\* An item follows the one before it.
LEMMA BodyStartNext ==
  ASSUME NEW items \in Seq(BatchItem), NEW i \in 1..Len(items)
  PROVE  BodyStart(items, i + 1) = BodyStart(items, i) + ItemSize(items[i])
<1> DEFINE Here == {i} \X (1..ItemSize(items[i]))
<1>1. ItemSize(items[i]) \in Nat
  BY ItemSizeType
<1>2. IsFiniteSet(Here) /\ Cardinality(Here) = ItemSize(items[i])
  <2>1. IsFiniteSet({i}) /\ Cardinality({i}) = 1
    BY FS_Singleton
  <2>2. /\ IsFiniteSet(1..ItemSize(items[i]))
        /\ Cardinality(1..ItemSize(items[i])) = ItemSize(items[i])
    BY <1>1, FS_Interval
  <2>3. IsFiniteSet(Here) /\ Cardinality(Here) = 1 * ItemSize(items[i])
    BY <2>1, <2>2, FS_Product
  <2> QED
    BY <2>3, <1>1
<1>3. WordsBefore(items, i + 1) = WordsBefore(items, i) \union Here
  <2>1. 1..(i + 1) - 1 = (1..i - 1) \union {i}
    OBVIOUS
  <2> QED
    BY <2>1 DEF WordsBefore
<1>4. WordsBefore(items, i) \intersect Here = {}
  BY DEF WordsBefore
<1>5. IsFiniteSet(WordsBefore(items, i)) /\ BodyStart(items, i) \in Nat
  BY WordsBeforeFinite, BodyStartType
<1>6. Cardinality(WordsBefore(items, i) \union Here)
        = Cardinality(WordsBefore(items, i)) + Cardinality(Here) - Cardinality({})
  BY <1>2, <1>4, <1>5, FS_Union
<1>7. Cardinality({}) = 0
  BY FS_EmptySet
<1>8. BodyStart(items, i + 1) = Cardinality(WordsBefore(items, i) \union Here)
  BY <1>3 DEF BodyStart
<1>9. BodyStart(items, i) = Cardinality(WordsBefore(items, i))
  BY DEF BodyStart
<1> QED
  BY <1>1, <1>2, <1>5, <1>6, <1>7, <1>8, <1>9

\* A later item lies further on.
LEMMA BodyStartMonotone ==
  ASSUME NEW items \in Seq(BatchItem), NEW i \in 1..Len(items) + 1, NEW j \in i..Len(items) + 1
  PROVE  BodyStart(items, i) <= BodyStart(items, j)
<1>1. WordsBefore(items, i) \in SUBSET WordsBefore(items, j)
  BY DEF WordsBefore
<1>2. IsFiniteSet(WordsBefore(items, j))
  BY WordsBeforeFinite
<1> QED
  BY <1>1, <1>2, FS_Subset DEF BodyStart

\* The words of the items are those of each item, at its place.
LEMMA BodiesLength ==
  ASSUME NEW items \in Seq(BatchItem)
  PROVE  /\ Len(Bodies(items)) = BodyStart(items, Len(items) + 1)
         /\ DOMAIN Bodies(items) = 1..Len(Bodies(items))
         /\ Bodies(items) \in Seq(Range(Bodies(items)))
<1> DEFINE n     == Len(items)
           start == [i \in 1..n + 1 |-> BodyStart(items, i)]
           body(w) == LET i == CHOOSE i \in 1..n : start[i] < w /\ w <= start[i + 1]
                      IN  ItemWord(items[i], w - start[i])
<1>1. n \in Nat /\ BodyStart(items, n + 1) \in Nat
  BY BodyStartType
<1>2. start \in Seq(Nat) /\ <<>> \o start = start
  BY <1>1, BodyStartType
<1>3. Bodies(items) = [w \in 1..BodyStart(items, n + 1) |-> body(w)]
  BY <1>1, <1>2 DEF Bodies
<1> HIDE DEF body, n
<1> QED
  BY <1>1, <1>3 DEF Range, n

\* Each word of an item is found where the item starts.
LEMMA BodyWord ==
  ASSUME NEW items \in Seq(BatchItem), NEW i \in 1..Len(items), NEW k \in 1..ItemSize(items[i])
  PROVE  Bodies(items)[BodyStart(items, i) + k] = ItemWord(items[i], k)
<1> DEFINE n     == Len(items)
           start == [j \in 1..n + 1 |-> BodyStart(items, j)]
           w     == BodyStart(items, i) + k
<1>1. n \in Nat /\ i \in Nat
  OBVIOUS
<1>2. start \in [1..n + 1 -> Nat] /\ start \in Seq(Nat) /\ <<>> \o start = start
  BY <1>1, BodyStartType
<1>3. ItemSize(items[i]) \in Nat
  BY ItemSizeType
<1>4. start[i] < w /\ w <= start[i + 1]
  BY <1>1, <1>2, <1>3, BodyStartNext
<1>5. ASSUME NEW j \in 1..n, start[j] < w, w <= start[j + 1]
      PROVE  j = i
  <2>1. ~(j < i)
    <3> SUFFICES ASSUME j < i  PROVE FALSE
      OBVIOUS
    <3>1. j + 1 \in 1..n + 1 /\ i \in j + 1..n + 1
      BY <1>1
    <3>2. start[j + 1] <= start[i]
      BY <3>1, BodyStartMonotone
    <3> QED
      BY <1>2, <1>3, <1>5, <3>1, <3>2
  <2>2. ~(i < j)
    <3> SUFFICES ASSUME i < j  PROVE FALSE
      OBVIOUS
    <3>1. i + 1 \in 1..n + 1 /\ j \in i + 1..n + 1
      BY <1>1
    <3>2. start[i + 1] <= start[j]
      BY <3>1, BodyStartMonotone
    <3> QED
      BY <1>2, <1>3, <1>4, <1>5, <3>1, <3>2
  <2> QED
    BY <1>1, <2>1, <2>2
<1>6. w \in 1..start[n + 1]
  <2>1. start[i + 1] <= start[n + 1]
    BY <1>1, BodyStartMonotone
  <2> QED
    BY <1>1, <1>2, <1>3, <1>4, <2>1
<1>7. i = CHOOSE j \in 1..n : start[j] < w /\ w <= start[j + 1]
  BY <1>4, <1>5
<1>8. Bodies(items)[w] = ItemWord(items[i], w - start[i])
  <2>1. Bodies(items) =
          [v \in 1..start[n + 1] |->
             LET j == CHOOSE j \in 1..n : start[j] < v /\ v <= start[j + 1]
             IN  ItemWord(items[j], v - start[j])]
    BY <1>2 DEF Bodies
  <2> HIDE DEF start, w
  <2> QED
    BY <1>6, <1>7, <2>1
<1>9. w - start[i] = k
  BY <1>1, <1>2
<1> QED
  BY <1>8, <1>9

-----------------------------------------------------------------------------
(***************************************************************************)
(* The call data of a batch.                                               *)
(***************************************************************************)

\* The parts of a concatenation of three parts, two of them of known lengths.
LEMMA ConcatWords ==
  ASSUME NEW S, NEW T, NEW U, NEW s \in Seq(S), NEW t \in Seq(T), NEW u \in Seq(U)
  PROVE  /\ Len(s \o t \o u) = Len(s) + Len(t) + Len(u)
         /\ \A k \in 1..Len(s) : (s \o t \o u)[k] = s[k]
         /\ \A k \in 1..Len(t) : (s \o t \o u)[Len(s) + k] = t[k]
         /\ \A k \in 1..Len(u) : (s \o t \o u)[Len(s) + Len(t) + k] = u[k]
OBVIOUS

\* The number of items, their offsets, and where each word of an item is.
LEMMA BatchLayout ==
  ASSUME NEW items \in Seq(BatchItem), NEW deferred \in Seq(Word)
  PROVE  LET words == BatchWords(items, deferred)
             n     == Len(items)
         IN  /\ Len(words) = 4 + n + BodyStart(items, n + 1) + Len(deferred)
             /\ words[1] = NumberWord(2 * PARAMETER_LENGTH)
             /\ words[3] = NumberWord(n)
             /\ \A i \in 1..n :
                  words[3 + i] = NumberWord(PARAMETER_LENGTH * ItemStart(items, i))
             /\ \A i \in 1..n : \A k \in 1..ItemSize(items[i]) :
                  words[3 + ItemStart(items, i) + k] = ItemWord(items[i], k)
<1> DEFINE n       == Len(items)
           bodies  == Bodies(items)
           header  == <<NumberWord(2 * PARAMETER_LENGTH),
                        NumberWord(PARAMETER_LENGTH * (3 + n + Len(bodies))),
                        NumberWord(n)>>
           offsets == [i \in 1..n |-> NumberWord(PARAMETER_LENGTH * ItemStart(items, i))]
           count   == <<NumberWord(Len(deferred))>>
           words   == BatchWords(items, deferred)
<1>1. words = header \o offsets \o bodies \o count \o deferred
  BY DEF BatchWords
<1>2. /\ header \in Seq(Range(header)) /\ Len(header) = 3
      /\ header[1] = NumberWord(2 * PARAMETER_LENGTH) /\ header[3] = NumberWord(n)
  <2> HIDE DEF n, bodies
  <2>1. header \in [1..3 -> Range(header)]
    BY DEF Range
  <2> QED
    BY <2>1
<1>3. /\ offsets \in Seq(Range(offsets)) /\ Len(offsets) = n /\ n \in Nat
      /\ \A i \in 1..n : offsets[i] = NumberWord(PARAMETER_LENGTH * ItemStart(items, i))
  <2>1. offsets \in [1..n -> Range(offsets)]
    BY DEF Range
  <2> QED
    BY <2>1
<1>4. /\ bodies \in Seq(Range(bodies)) /\ Len(bodies) = BodyStart(items, n + 1)
      /\ Len(bodies) \in Nat
  BY BodiesLength
<1>5. count \in Seq(Range(count)) /\ Len(count) = 1
  <2>1. count \in [1..1 -> Range(count)]
    BY DEF Range
  <2> QED
    BY <2>1
<1> HIDE DEF header, offsets, bodies, count, words, n
<1> DEFINE known == header \o offsets \o bodies
           A     == Range(header) \union Range(offsets) \union Range(bodies)
<1>6. /\ known \in Seq(A)
      /\ Len(known) = 3 + n + BodyStart(items, n + 1)
      /\ known[1] = header[1] /\ known[3] = header[3]
      /\ \A i \in 1..n : known[3 + i] = offsets[i]
      /\ \A k \in 1..Len(bodies) : known[3 + n + k] = bodies[k]
  <2>1. /\ header \in Seq(A) /\ offsets \in Seq(A) /\ bodies \in Seq(A)
    BY <1>2, <1>3, <1>4
  <2>2. /\ Len(known) = Len(header) + Len(offsets) + Len(bodies)
        /\ \A k \in 1..Len(header) : known[k] = header[k]
        /\ \A k \in 1..Len(offsets) : known[Len(header) + k] = offsets[k]
        /\ \A k \in 1..Len(bodies) : known[Len(header) + Len(offsets) + k] = bodies[k]
    BY <2>1, ConcatWords
  <2>3. known \in Seq(A)
    BY <2>1
  <2>4. 1 \in 1..3 /\ 3 \in 1..3
    OBVIOUS
  <2> HIDE DEF known, A
  <2> QED
    BY <2>2, <2>3, <2>4, <1>2, <1>3, <1>4
<1>7. /\ Len(words) = 4 + n + BodyStart(items, n + 1) + Len(deferred)
      /\ \A k \in 1..Len(known) : words[k] = known[k]
  <2>1. words = known \o count \o deferred
    BY <1>1
  <2> HIDE DEF known, A
  <2>2. /\ Len(words) = Len(known) + Len(count) + Len(deferred)
        /\ \A k \in 1..Len(known) : words[k] = known[k]
    <3>1. known \in Seq(A) /\ count \in Seq(Range(count)) /\ deferred \in Seq(Word)
      BY <1>5, <1>6
    <3> QED
      BY <2>1, <3>1, ConcatWords
  <2>3. Len(deferred) \in Nat /\ n \in Nat /\ BodyStart(items, n + 1) \in Nat
    BY <1>3, <1>4
  <2> QED
    BY <2>2, <2>3, <1>5, <1>6
<1> HIDE DEF known
<1>8. \A k \in 1..3 + n + Len(bodies) : words[k] = known[k]
  BY <1>4, <1>6, <1>7
<1>9. words[1] = NumberWord(2 * PARAMETER_LENGTH) /\ words[3] = NumberWord(n)
  BY <1>2, <1>3, <1>4, <1>6, <1>8
<1>10. \A i \in 1..n : words[3 + i] = NumberWord(PARAMETER_LENGTH * ItemStart(items, i))
  BY <1>3, <1>4, <1>6, <1>8
<1>11. ASSUME NEW i \in 1..n, NEW k \in 1..ItemSize(items[i])
       PROVE  words[3 + ItemStart(items, i) + k] = ItemWord(items[i], k)
  <2>1. i \in 1..Len(items) /\ ItemSize(items[i]) \in Nat
    BY ItemSizeType DEF n
  <2>2. /\ BodyStart(items, i) \in Nat
        /\ BodyStart(items, i + 1) = BodyStart(items, i) + ItemSize(items[i])
        /\ BodyStart(items, i + 1) <= BodyStart(items, n + 1)
    BY <2>1, BodyStartType, BodyStartNext, BodyStartMonotone DEF n
  <2>3. BodyStart(items, i) + k \in 1..Len(bodies)
    BY <1>4, <2>1, <2>2
  <2>4. bodies[BodyStart(items, i) + k] = ItemWord(items[i], k)
    BY <2>1, BodyWord DEF bodies
  <2>5. 3 + ItemStart(items, i) + k = 3 + n + (BodyStart(items, i) + k)
    <3>1. k \in Nat /\ n \in Nat /\ BodyStart(items, i) \in Nat
      BY <1>3, <2>1, <2>2
    <3>2. ItemStart(items, i) = n + BodyStart(items, i)
      BY DEF ItemStart, n
    <3> QED
      BY <3>1, <3>2
  <2>6. 3 + n + (BodyStart(items, i) + k) \in 1..3 + n + Len(bodies)
    BY <1>3, <1>4, <2>3
  <2> QED
    BY <1>6, <1>8, <2>3, <2>4, <2>5, <2>6
<1> QED
  BY <1>7, <1>9, <1>10, <1>11 DEF n, words
=============================================================================
