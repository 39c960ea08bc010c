--------------------------- MODULE NodeStorageProofs ---------------------------
(***************************************************************************)
(* Proofs about BoltStore and NodeStorage, for any digits of the keys, any *)
(* entries and candidates, and any bounds.                                 *)
(***************************************************************************)
EXTENDS NodeStorage, TLAPS, WellFoundedInduction

-------------------------------------------------------------------------------
(* Keys.                                                                   *)

\* A number is what its digits say.
LEMMA Digits ==
    ASSUME NEW v \in UInt64
    PROVE  /\ v \div Base \in Digit /\ v % Base \in Digit
           /\ v = (v \div Base) * Base + (v % Base)
<1> DEFINE q == v \div Base
           r == v % Base
<1>1. Base \in Nat \ {0} /\ v \in Nat /\ v < Base * Base
  BY BaseAssumption DEF UInt64
<1>2. q \in Int /\ r \in 0..Base - 1 /\ v = Base * q + r
  BY <1>1
<1>3. q >= 0
  <2>1. CASE q < 0
    <3>1. Base * q <= Base * (-1)
      BY <1>1, <1>2, <2>1
    <3>. QED
      BY <1>1, <1>2, <3>1
  <2>. QED
    BY <1>2, <2>1
<1>4. q < Base
  <2>1. CASE q >= Base
    <3>1. Base * q >= Base * Base
      BY <1>1, <1>2, <2>1
    <3>. QED
      BY <1>1, <1>2, <3>1
  <2>. QED
    BY <1>1, <1>2, <2>1
<1> HIDE DEF q, r
<1>5. q \in Digit /\ r \in Digit /\ v = q * Base + r
  <2>1. Base * q = q * Base
    BY <1>1, <1>2
  <2>. QED
    BY <1>1, <1>2, <1>3, <1>4, <2>1 DEF Digit
<1>. QED
  BY <1>5, Zenon DEF q, r

\* Decoding undoes encoding, and the cursor's order is that of the numbers.
LEMMA KeyOrder ==
    ASSUME NEW v \in UInt64, NEW w \in UInt64
    PROVE  /\ bytesToUint64(uint64ToBytes(v)) = v
           /\ Precedes(uint64ToBytes(v), uint64ToBytes(w)) <=> v <= w
           /\ uint64ToBytes(v) = uint64ToBytes(w) => v = w
<1> DEFINE a == v \div Base
           b == v % Base
           c == w \div Base
           d == w % Base
<1>1. /\ a \in Digit /\ b \in Digit /\ v = a * Base + b
      /\ c \in Digit /\ d \in Digit /\ w = c * Base + d
  BY Digits, Zenon
<1>2. uint64ToBytes(v) = <<a, b>> /\ uint64ToBytes(w) = <<c, d>>
  BY DEF uint64ToBytes
<1>3. Base \in Nat /\ v \in Nat /\ w \in Nat
  BY <1>1, BaseAssumption DEF UInt64
<1> HIDE DEF a, b, c, d
<1>4. bytesToUint64(uint64ToBytes(v)) = v /\ bytesToUint64(uint64ToBytes(w)) = w
  BY <1>1, <1>2 DEF bytesToUint64
<1>5. ASSUME NEW p \in Digit, NEW q \in Digit, NEW r \in Digit, NEW s \in Digit, p < r
      PROVE  p * Base + q < r * Base + s
  <2>1. p \in Nat /\ r \in Nat /\ q \in Nat /\ s \in Nat /\ q < Base /\ p + 1 <= r
    BY <1>3, <1>5 DEF Digit
  <2>2. (p + 1) * Base <= r * Base
    BY <1>3, <2>1
  <2>3. (p + 1) * Base = p * Base + Base
    BY <1>3, <2>1
  <2>. QED
    BY <1>3, <2>1, <2>2, <2>3
<1>6. /\ a \in Nat /\ b \in Nat /\ c \in Nat /\ d \in Nat
      /\ Precedes(uint64ToBytes(v), uint64ToBytes(w)) <=> a < c \/ (a = c /\ b <= d)
  BY <1>1, <1>2, <1>3 DEF Precedes, Digit
<1>7. CASE a < c
  <2>1. v < w
    BY <1>1, <1>5, <1>7
  <2>. QED
    BY <1>3, <1>4, <1>6, <1>7, <2>1
<1>8. CASE c < a
  <2>1. w < v
    BY <1>1, <1>5, <1>8
  <2>. QED
    BY <1>3, <1>4, <1>6, <1>8, <2>1
<1>9. CASE a = c
  <2>1. v <= w <=> b <= d
    <3> DEFINE x == a * Base
    <3>1. v = x + b /\ w = x + d /\ x \in Nat
      BY <1>1, <1>3, <1>6, <1>9
    <3> HIDE DEF x
    <3>. QED
      BY <1>6, <3>1
  <2>. QED
    BY <1>4, <1>6, <1>9, <2>1
<1>. QED
  BY <1>6, <1>7, <1>8, <1>9

\* A set of numbers up to a bound has a first and a last.
LEMMA FirstAndLast ==
    ASSUME NEW max \in Nat, NEW S, S \subseteq 0..max, S # {}
    PROVE  /\ \E x \in S : \A y \in S : x <= y
           /\ \E x \in S : \A y \in S : y <= x
<1>1. ASSUME NEW T, T \subseteq Nat, T # {}
      PROVE  \E x \in T : \A y \in T : x <= y
  <2>1. PICK x \in T : \A y \in T : <<y, x>> \notin OpToRel(<, Nat)
    BY <1>1, WFMin, NatLessThanWellFounded
  <2>2. \A y \in T : ~(y < x)
    BY <1>1, <2>1 DEF OpToRel
  <2>3. \A y \in T : y \in Nat
    BY <1>1
  <2>. QED
    BY <2>2, <2>3
<1>2. \E x \in S : \A y \in S : x <= y
  <2>1. S \subseteq Nat
    OBVIOUS
  <2>. QED
    BY <1>1, <2>1
<1>3. \E x \in S : \A y \in S : y <= x
  <2> DEFINE T == {max - x : x \in S}
  <2>1. \A x \in S : x \in Nat /\ x <= max /\ max - x \in Nat
    <3>1. TAKE x \in S
    <3>2. x \in 0..max
      OBVIOUS
    <3>. QED
      BY <3>2
  <2>2. T \subseteq Nat
    BY <2>1, Zenon
  <2>3. PICK e \in S : TRUE
    OBVIOUS
  <2>4. max - e \in T
    BY <2>3
  <2>5. T # {}
    BY <2>4, Zenon
  <2>6. PICK z \in T : \A y \in T : z <= y
    BY <1>1, <2>2, <2>5
  <2>7. PICK x \in S : z = max - x
    BY <2>6, Zenon
  <2>8. ASSUME NEW y \in S PROVE y <= x
    <3>1. max - y \in T
      BY <2>8
    <3>2. max - x <= max - y
      BY <2>6, <2>7, <3>1
    <3> HIDE DEF T
    <3>3. x \in Nat /\ y \in Nat
      BY <2>1, <2>7, <2>8, Zenon
    <3>. QED
      BY <3>2, <3>3
  <2>. QED
    BY <2>7, <2>8, Zenon
<1>. QED
  BY <1>2, <1>3

-------------------------------------------------------------------------------
(* The log store, by the indexes of its entries.                           *)

\* A bucket whose keys are those of indexes.
IsLog(b) ==
    /\ b = [k \in DOMAIN b |-> b[k]]
    /\ \A k \in DOMAIN b : b[k] \in Entry /\ \E i \in Indexes : k = uint64ToBytes(i)

Stored(b) == {i \in Indexes : uint64ToBytes(i) \in DOMAIN b}

\* The bounds keep indexes and terms within what a key can say.
LEMMA Bounds ==
    /\ MaxIndex \in Nat /\ 0..MaxIndex \subseteq UInt64 /\ Indexes \subseteq UInt64
    /\ Indexes \subseteq 0..MaxIndex
    /\ MaxTerm \in Nat \ {0} /\ 0..MaxTerm \subseteq UInt64
<1>1. Base * Base \in Nat
  BY BaseAssumption
<1>. QED
  BY <1>1, StorageAssumption DEF UInt64, Indexes

\* FirstIndex and LastIndex are the least and the greatest index stored.
LEMMA FirstLastIndex ==
    ASSUME NEW b, IsLog(b)
    PROVE  /\ Stored(b) = {} => FirstIndex(b) = 0 /\ LastIndex(b) = 0 /\ DOMAIN b = {}
           /\ Stored(b) # {} =>
                /\ FirstIndex(b) \in Stored(b) /\ \A i \in Stored(b) : FirstIndex(b) <= i
                /\ LastIndex(b) \in Stored(b) /\ \A i \in Stored(b) : i <= LastIndex(b)
           /\ FirstIndex(b) \in 0..MaxIndex /\ LastIndex(b) \in 0..MaxIndex
<1>1. Stored(b) \subseteq 0..MaxIndex /\ MaxIndex \in Nat /\ Stored(b) \subseteq UInt64
  BY Bounds DEF Stored
<1>2. \A k \in DOMAIN b : \E i \in Stored(b) : k = uint64ToBytes(i)
  BY DEF IsLog, Stored
<1>3. \A i \in Stored(b) : uint64ToBytes(i) \in DOMAIN b
  BY DEF Stored
<1>4. CASE Stored(b) = {}
  <2>1. DOMAIN b = {}
    BY <1>2, <1>4
  <2>. QED
    BY <1>1, <1>4, <2>1 DEF FirstIndex, LastIndex
<1>5. CASE Stored(b) # {}
  <2>0. DOMAIN b # {}
    BY <1>3, <1>5
  <2>1. \A i, j \in Stored(b) : Precedes(uint64ToBytes(i), uint64ToBytes(j)) <=> i <= j
    BY <1>1, KeyOrder
  <2>2. \A i \in Stored(b) : bytesToUint64(uint64ToBytes(i)) = i
    BY <1>1, KeyOrder
  <2>3. FirstIndex(b) \in Stored(b) /\ \A i \in Stored(b) : FirstIndex(b) <= i
    <3> DEFINE First(k) == k \in DOMAIN b /\ \A l \in DOMAIN b : Precedes(k, l)
               key == CHOOSE k \in DOMAIN b : \A l \in DOMAIN b : Precedes(k, l)
    <3>1. PICK x \in Stored(b) : \A y \in Stored(b) : x <= y
      BY <1>1, <1>5, FirstAndLast
    <3>2. First(uint64ToBytes(x))
      BY <1>2, <1>3, <2>1, <3>1
    <3>3. First(key)
      BY <3>2, Zenon
    <3>4. PICK i \in Stored(b) : key = uint64ToBytes(i)
      BY <1>2, <3>3
    <3>5. FirstIndex(b) = i
      BY <2>0, <2>2, <3>4 DEF FirstIndex
    <3>6. \A j \in Stored(b) : i <= j
      BY <1>3, <2>1, <3>3, <3>4
    <3>. QED
      BY <3>5, <3>6
  <2>4. LastIndex(b) \in Stored(b) /\ \A i \in Stored(b) : i <= LastIndex(b)
    <3> DEFINE Last(k) == k \in DOMAIN b /\ \A l \in DOMAIN b : Precedes(l, k)
               key == CHOOSE k \in DOMAIN b : \A l \in DOMAIN b : Precedes(l, k)
    <3>1. PICK x \in Stored(b) : \A y \in Stored(b) : y <= x
      BY <1>1, <1>5, FirstAndLast
    <3>2. Last(uint64ToBytes(x))
      BY <1>2, <1>3, <2>1, <3>1
    <3>3. Last(key)
      BY <3>2, Zenon
    <3>4. PICK i \in Stored(b) : key = uint64ToBytes(i)
      BY <1>2, <3>3
    <3>5. LastIndex(b) = i
      BY <2>0, <2>2, <3>4 DEF LastIndex
    <3>6. \A j \in Stored(b) : j <= i
      BY <1>3, <2>1, <3>3, <3>4
    <3>. QED
      BY <3>5, <3>6
  <2>. QED
    BY <1>1, <1>5, <2>3, <2>4
<1>. QED
  BY <1>4, <1>5

\* DeleteRange deletes the entries from min to max and no others, although the
\* cursor stops at the first key above max.
LEMMA DeleteRangeExact ==
    ASSUME NEW b, IsLog(b), NEW min \in 0..MaxIndex, NEW max \in 0..MaxIndex
    PROVE  LET d == DeleteRange(b, min, max) IN
           /\ IsLog(d)
           /\ Stored(d) = {i \in Stored(b) : ~(min <= i /\ i <= max)}
           /\ \A i \in Stored(d) : GetLog(d, i) = GetLog(b, i)
<1> DEFINE d == DeleteRange(b, min, max)
           W == Walked(b, min, max)
<1>1. Stored(b) \subseteq UInt64 /\ Stored(b) \subseteq Nat /\ min \in UInt64 /\ max \in Nat
      /\ min \in Nat
  BY Bounds DEF Stored, Indexes
<1>2. d = [k \in DOMAIN b \ W |-> b[k]] /\ DOMAIN d = DOMAIN b \ W
  BY DEF DeleteRange
<1>3. \A i \in Stored(b) : uint64ToBytes(i) \in W <=> min <= i /\ i <= max
  <2>1. TAKE i \in Stored(b)
  <2>2. uint64ToBytes(i) \in DOMAIN b
    BY DEF Stored
  <2>3. \A j \in Stored(b) :
          /\ bytesToUint64(uint64ToBytes(j)) = j
          /\ Precedes(uint64ToBytes(min), uint64ToBytes(j)) <=> min <= j
          /\ Precedes(uint64ToBytes(j), uint64ToBytes(i)) <=> j <= i
    BY <1>1, KeyOrder
  <2>4. CASE min <= i /\ i <= max
    <3>1. ASSUME NEW l \in DOMAIN b, Precedes(l, uint64ToBytes(i))
          PROVE  bytesToUint64(l) <= max
      <4>1. PICK j \in Stored(b) : l = uint64ToBytes(j)
        BY DEF IsLog, Stored
      <4>2. j <= i
        BY <2>3, <3>1, <4>1
      <4>. QED
        BY <1>1, <2>3, <2>4, <4>1, <4>2
    <3>. QED
      BY <2>2, <2>3, <2>4, <3>1 DEF Walked
  <2>5. CASE ~(min <= i /\ i <= max)
    <3>1. CASE ~(min <= i)
      BY <2>3, <3>1 DEF Walked
    <3>2. CASE min <= i /\ ~(i <= max)
      <4>1. /\ Precedes(uint64ToBytes(min), uint64ToBytes(i))
            /\ Precedes(uint64ToBytes(i), uint64ToBytes(i))
            /\ ~(bytesToUint64(uint64ToBytes(i)) <= max)
        BY <1>1, <2>3, <3>2
      <4>. QED
        BY <2>2, <2>5, <4>1 DEF Walked
    <3>. QED
      BY <2>5, <3>1, <3>2
  <2>. QED
    BY <2>4, <2>5
<1> HIDE DEF d, W
<1>4. IsLog(d)
  BY <1>2 DEF IsLog
<1>5. Stored(d) = {i \in Stored(b) : ~(min <= i /\ i <= max)}
  BY <1>2, <1>3 DEF Stored
<1>6. \A i \in Stored(d) : GetLog(d, i) = GetLog(b, i)
  BY <1>2 DEF Stored, GetLog
<1>. QED
  BY <1>4, <1>5, <1>6 DEF d

\* StoreLogs stores the entries given and keeps the others.
LEMMA StoreLogsExact ==
    ASSUME NEW b, IsLog(b), NEW S, S \subseteq Indexes, NEW logs \in [S -> Entry]
    PROVE  LET d == StoreLogs(b, logs) IN
           /\ IsLog(d)
           /\ Stored(d) = Stored(b) \cup S
           /\ \A i \in S : GetLog(d, i) = logs[i]
           /\ \A i \in Stored(b) \ S : GetLog(d, i) = GetLog(b, i)
<1> DEFINE d == StoreLogs(b, logs)
           keys == {uint64ToBytes(i) : i \in S}
           Of(k) == CHOOSE i \in S : k = uint64ToBytes(i)
<1>1. d = [k \in DOMAIN b \cup keys |-> IF k \in keys THEN logs[Of(k)] ELSE b[k]]
  BY DEF StoreLogs
<1>2. \A i \in S : Of(uint64ToBytes(i)) = i
  <2>1. TAKE i \in S
  <2>2. Of(uint64ToBytes(i)) \in S /\ uint64ToBytes(i) = uint64ToBytes(Of(uint64ToBytes(i)))
    BY Zenon
  <2> HIDE DEF Of
  <2>. QED
    BY <2>2, KeyOrder, Bounds
<1>3. \A k \in keys : \E i \in S : k = uint64ToBytes(i)
  OBVIOUS
<1>4. \A i \in S : uint64ToBytes(i) \in keys
  OBVIOUS
<1>5. \A i \in Indexes : uint64ToBytes(i) \in keys => i \in S
  BY <1>3, KeyOrder, Bounds
<1> HIDE DEF d, keys, Of
<1>6. DOMAIN d = DOMAIN b \cup keys
  BY <1>1
<1>7. \A i \in S : d[uint64ToBytes(i)] = logs[i]
  BY <1>1, <1>2, <1>4
<1>8. \A k \in DOMAIN b \ keys : d[k] = b[k]
  BY <1>1
<1>9. IsLog(d)
  <2>1. d = [k \in DOMAIN d |-> d[k]]
    BY <1>1
  <2>2. \A k \in DOMAIN d : d[k] \in Entry /\ \E i \in Indexes : k = uint64ToBytes(i)
    BY <1>3, <1>6, <1>7, <1>8 DEF IsLog
  <2>. QED
    BY <2>1, <2>2 DEF IsLog
<1>10. Stored(d) = Stored(b) \cup S
  BY <1>4, <1>5, <1>6 DEF Stored
<1>11. \A i \in S : GetLog(d, i) = logs[i]
  BY <1>4, <1>6, <1>7 DEF GetLog
<1>12. \A i \in Stored(b) \ S : GetLog(d, i) = GetLog(b, i)
  BY <1>5, <1>6, <1>8 DEF GetLog, Stored
<1>. QED
  BY <1>9, <1>10, <1>11, <1>12 DEF d

-------------------------------------------------------------------------------
(* The log after a snapshot, through the transactions Raft makes.          *)

\* From the entry after the snapshot s to the last one, none is missing.
Whole(b, s) == \A i \in s + 1..LastIndex(b) : i \in Stored(b)

Tail(b, s) == [i \in s + 1..LastIndex(b) |-> GetLog(b, i)]
End(b, s) == Higher(s, LastIndex(b))

\* What is stored is an entry.
LEMMA StoredIsEntry ==
    ASSUME NEW b, IsLog(b), NEW i \in Stored(b)
    PROVE  GetLog(b, i) \in Entry
BY DEF IsLog, Stored, GetLog

\* Entries are stored after the end.
LEMMA StoreAtEnd ==
    ASSUME NEW b, IsLog(b), NEW s \in 0..MaxIndex, Whole(b, s),
           NEW from \in Indexes, NEW last \in Indexes, from <= last,
           NEW logs \in [from..last -> Entry],
           s < from, LastIndex(b) < from, from <= End(b, s) + 1
    PROVE  LET d == StoreLogs(b, logs) IN
           /\ IsLog(d) /\ Whole(d, s)
           /\ LastIndex(d) = last /\ End(d, s) = last /\ End(b, s) < last
           /\ Tail(d, s) \in [s + 1..last -> Entry]
           /\ \A i \in s + 1..End(b, s) : Tail(d, s)[i] = Tail(b, s)[i]
<1> DEFINE d == StoreLogs(b, logs)
<1>1. from \in Nat /\ last \in Nat /\ s \in Nat /\ LastIndex(b) \in Nat
      /\ last <= MaxIndex /\ MaxIndex \in Nat
  BY FirstLastIndex, Bounds DEF Indexes
<1>2. from..last \subseteq Indexes
  BY <1>1 DEF Indexes
<1>3. /\ IsLog(d) /\ Stored(d) = Stored(b) \cup from..last
      /\ \A i \in Stored(b) \ (from..last) : GetLog(d, i) = GetLog(b, i)
  BY <1>2, StoreLogsExact
<1> HIDE DEF d
<1>4. \A i \in Stored(b) : i \in Nat /\ i <= LastIndex(b)
  BY FirstLastIndex DEF Stored, Indexes
<1>5. LastIndex(d) = last
  <2>1. last \in Stored(d) /\ \A i \in Stored(d) : i \in Nat /\ i <= last
    BY <1>1, <1>3, <1>4
  <2>2. LastIndex(d) \in Stored(d) /\ last <= LastIndex(d)
    BY <1>3, <2>1, FirstLastIndex
  <2>3. LastIndex(d) \in Nat /\ LastIndex(d) <= last
    BY <2>1, <2>2, Zenon
  <2>. QED
    BY <1>1, <2>2, <2>3
<1>6. End(d, s) = last /\ End(b, s) < last /\ End(b, s) + 1 = from
  BY <1>1, <1>5 DEF End, Higher
<1>7. Whole(d, s)
  <2>1. SUFFICES ASSUME NEW i \in s + 1..last PROVE i \in Stored(d)
    BY <1>5 DEF Whole
  <2>2. CASE i \in from..last
    BY <1>3, <2>2
  <2>3. CASE i \notin from..last
    <3>1. i \in s + 1..LastIndex(b)
      BY <1>1, <1>6, <2>3 DEF End, Higher
    <3>. QED
      BY <1>3, <3>1 DEF Whole
  <2>. QED
    BY <2>2, <2>3
<1>8. Tail(d, s) \in [s + 1..last -> Entry]
  BY <1>3, <1>5, <1>7, StoredIsEntry DEF Tail, Whole
<1>9. ASSUME NEW i \in s + 1..End(b, s) PROVE Tail(d, s)[i] = Tail(b, s)[i]
  <2>1. i \in s + 1..LastIndex(b) /\ i \notin from..last /\ i \in s + 1..last
    BY <1>1, <1>6 DEF End, Higher
  <2>2. i \in Stored(b)
    BY <2>1 DEF Whole
  <2>. QED
    BY <1>3, <1>5, <2>1, <2>2 DEF Tail
<1>. QED
  BY <1>3, <1>5, <1>6, <1>7, <1>8, <1>9 DEF d

\* Conflicting entries are deleted from the end.
LEMMA DeleteAtEnd ==
    ASSUME NEW b, IsLog(b), NEW s \in 0..MaxIndex, Whole(b, s),
           NEW from \in Indexes, s < from, from <= LastIndex(b)
    PROVE  LET d == DeleteRange(b, from, LastIndex(b)) IN
           /\ IsLog(d) /\ Whole(d, s)
           /\ LastIndex(d) < from /\ End(d, s) = from - 1 /\ End(b, s) = LastIndex(b)
           /\ Tail(d, s) = [i \in s + 1..from - 1 |-> Tail(b, s)[i]]
<1> DEFINE n == LastIndex(b)
           d == DeleteRange(b, from, n)
<1>1. from \in Nat /\ s \in Nat /\ n \in 0..MaxIndex /\ n \in Nat /\ from \in 0..MaxIndex
  BY FirstLastIndex, Bounds DEF Indexes
<1>2. \A i \in Stored(b) : i \in Nat /\ i <= n
  BY FirstLastIndex DEF Stored, Indexes
<1>3. /\ IsLog(d)
      /\ Stored(d) = {i \in Stored(b) : ~(from <= i /\ i <= n)}
      /\ \A i \in Stored(d) : GetLog(d, i) = GetLog(b, i)
  BY <1>1, DeleteRangeExact
<1> HIDE DEF d
<1>4. \A i \in Stored(d) : i \in Stored(b) /\ i \in Nat /\ i < from
  BY <1>1, <1>2, <1>3
<1>5. \A i \in s + 1..from - 1 : i \in Stored(d)
  <2>1. TAKE i \in s + 1..from - 1
  <2>2. i \in s + 1..n /\ ~(from <= i)
    BY <1>1
  <2>. QED
    BY <1>3, <2>2 DEF Whole
<1>6. LastIndex(d) \in Nat /\ LastIndex(d) < from
  BY <1>1, <1>3, <1>4, FirstLastIndex DEF Indexes
<1>7. End(d, s) = from - 1 /\ (from - 1 > s => LastIndex(d) = from - 1)
  <2>1. CASE from - 1 > s
    <3>1. from - 1 \in Stored(d)
      BY <1>1, <1>5, <2>1
    <3>2. from - 1 <= LastIndex(d)
      BY <1>3, <3>1, FirstLastIndex
    <3>. QED
      BY <1>1, <1>6, <2>1, <3>2 DEF End, Higher
  <2>2. CASE ~(from - 1 > s)
    BY <1>1, <1>6, <2>2 DEF End, Higher
  <2>. QED
    BY <2>1, <2>2
<1>8. End(b, s) = n
  BY <1>1 DEF End, Higher
<1>9. Whole(d, s)
  BY <1>1, <1>5, <1>6 DEF Whole
<1>10. s + 1..LastIndex(d) = s + 1..from - 1
  BY <1>1, <1>6, <1>7
<1>11. Tail(d, s) = [i \in s + 1..from - 1 |-> Tail(b, s)[i]]
  <2>1. ASSUME NEW i \in s + 1..from - 1 PROVE GetLog(d, i) = Tail(b, s)[i]
    <3>1. i \in s + 1..n
      BY <1>1
    <3>. QED
      BY <1>3, <1>5, <3>1 DEF Tail
  <2>. QED
    BY <1>10, <2>1 DEF Tail
<1>. QED
  BY <1>3, <1>6, <1>7, <1>8, <1>9, <1>11 DEF d

\* Entries of the snapshot are deleted from the beginning.
LEMMA DeleteAtStart ==
    ASSUME NEW b, IsLog(b), NEW s \in 0..MaxIndex, Whole(b, s),
           NEW min \in 0..MaxIndex, NEW max \in 0..MaxIndex, max <= s
    PROVE  LET d == DeleteRange(b, min, max) IN
           /\ IsLog(d) /\ Whole(d, s)
           /\ max < LastIndex(b) => LastIndex(d) = LastIndex(b)
           /\ LastIndex(d) <= LastIndex(b)
           /\ End(d, s) = End(b, s) /\ Tail(d, s) = Tail(b, s)
<1> DEFINE n == LastIndex(b)
           d == DeleteRange(b, min, max)
<1>1. s \in Nat /\ n \in Nat /\ min \in Nat /\ max \in Nat
  BY FirstLastIndex, Bounds
<1>2. /\ IsLog(d)
      /\ Stored(d) = {i \in Stored(b) : ~(min <= i /\ i <= max)}
      /\ \A i \in Stored(d) : GetLog(d, i) = GetLog(b, i)
  BY DeleteRangeExact
<1> HIDE DEF d
<1>3. \A i \in Stored(b) : i \in Nat /\ i > 0 /\ i <= n
  BY FirstLastIndex DEF Stored, Indexes
<1>4. LastIndex(d) \in Nat /\ LastIndex(d) <= n /\ (max < n => LastIndex(d) = n)
  <2>1. LastIndex(d) \in Nat /\ LastIndex(d) <= n
    BY <1>1, <1>2, <1>3, FirstLastIndex
  <2>2. CASE max < n
    <3>1. n \in Stored(b)
      BY <1>1, <2>2, FirstLastIndex
    <3>2. n \in Stored(d)
      BY <1>1, <1>2, <2>2, <3>1
    <3>3. n <= LastIndex(d)
      BY <1>2, <3>2, FirstLastIndex
    <3>. QED
      BY <1>1, <2>1, <3>3
  <2>. QED
    BY <2>1, <2>2
<1>5. CASE n <= s
  <2>1. End(d, s) = End(b, s) /\ s + 1..LastIndex(d) = {} /\ s + 1..n = {}
    BY <1>1, <1>4, <1>5 DEF End, Higher
  <2>. QED
    BY <1>2, <1>4, <2>1 DEF Whole, Tail, d
<1>6. CASE n > s
  <2>1. LastIndex(d) = n
    BY <1>1, <1>4, <1>6
  <2>2. \A i \in s + 1..n : i \in Stored(d) /\ GetLog(d, i) = GetLog(b, i)
    BY <1>1, <1>2 DEF Whole
  <2>. QED
    BY <1>2, <1>4, <2>1, <2>2 DEF Whole, Tail, End, d
<1>. QED
  BY <1>1, <1>5, <1>6

-------------------------------------------------------------------------------
(* The inductive invariant of the log.                                     *)

IndexesOK ==
    /\ IsLog(raftLog)
    /\ snapshot \in 0..MaxIndex /\ lastLog \in 0..MaxIndex
    /\ Whole(raftLog, snapshot)

\* While conflicting entries are replaced, what is still to be stored goes on
\* where the log or the snapshot ends.
Replacing ==
    \E from, last \in Indexes :
        /\ raft.logs \in [from..last -> Entry]
        /\ raft = Appending(raft.logs)
        /\ from <= last /\ snapshot < from
        /\ LastIndex(raftLog) < from
        /\ from <= End(raftLog, snapshot) + 1

\* Otherwise Raft's copy of the last index is that of the log.
RaftOK ==
    \/ raft = Down
    \/ raft = Configuring /\ LastIndex(raftLog) = 0 /\ snapshot = 0
    \/ /\ raft = Bootstrapping \/ raft = Running \/ raft.at = "vote"
       /\ lastLog = LastIndex(raftLog)
    \/ Replacing

\* Only entries in the snapshot are about to be deleted, never the last one.
Doomed(c) ==
    \/ \E i \in 0..snapshot : c = Due(i)
    \/ \E min \in 0..MaxIndex, max \in 0..snapshot : c = Deleting(min, max) /\ max < lastLog

CompactOK ==
    /\ DOMAIN compacting = Goroutine
    /\ \A g \in Goroutine :
          \/ compacting[g] = None
          \/ raft.at \notin {"down", "bootstrap", "configure"} /\ Doomed(compacting[g])

LogInv == IndexesOK /\ RaftOK /\ CompactOK

\* A step of the log is one that DurableLog allows.
LogStep == Log!Next \/ UNCHANGED Log!vars

\* Steps that leave the log and the snapshot alone.
LEMMA LogAlone ==
    ASSUME IndexesOK, UNCHANGED <<raftLog, snapshot>>, lastLog' \in 0..MaxIndex
    PROVE  IndexesOK' /\ LogStep
<1>1. UNCHANGED Log!vars
  BY DEF Log!vars
<1>. QED
  BY <1>1 DEF IndexesOK, LogStep, IsLog, Whole, Stored

\* Starting the node keeps the log invariant and is a step of the durable log.
LEMMA StartLog == ASSUME LogInv, NEW b \in BOOLEAN, Start(b) PROVE LogInv' /\ LogStep
<1> USE DEF LogInv
<1>1. LastIndex(raftLog) \in 0..MaxIndex
  BY FirstLastIndex DEF IndexesOK
<1>2. IndexesOK' /\ LogStep
  BY <1>1, LogAlone DEF Start
<1>3. RaftOK'
  BY DEF Start, RaftOK, Bootstrapping, Running
<1>4. CompactOK'
  BY DEF Start, CompactOK, Down
<1>. QED
  BY <1>2, <1>3, <1>4

\* So does a bootstrap that is refused.
LEMMA BootstrapRefusedLog == ASSUME LogInv, BootstrapRefused PROVE LogInv' /\ LogStep
<1> USE DEF LogInv
<1>1. IndexesOK' /\ LogStep
  BY LogAlone DEF BootstrapRefused, IndexesOK
<1>2. RaftOK'
  BY DEF BootstrapRefused, RaftOK, Replacing, Bootstrapping, Running, Down, Configuring, Appending
<1>3. CompactOK'
  BY DEF BootstrapRefused, CompactOK, Bootstrapping
<1>. QED
  BY <1>1, <1>2, <1>3

\* So does the first transaction of a bootstrap.
LEMMA BootstrapTermLog == ASSUME LogInv, BootstrapTerm PROVE LogInv' /\ LogStep
<1> USE DEF LogInv
<1>1. IndexesOK' /\ LogStep
  BY LogAlone DEF BootstrapTerm, IndexesOK
<1>2. LastIndex(raftLog) = 0 /\ snapshot = 0
  BY FirstLastIndex DEF BootstrapTerm, HasExistingState, IndexesOK
<1>3. RaftOK'
  BY <1>2 DEF BootstrapTerm, RaftOK
<1>4. CompactOK'
  BY DEF BootstrapTerm, CompactOK, Bootstrapping
<1>. QED
  BY <1>1, <1>3, <1>4

\* So does a crash.
LEMMA CrashLog == ASSUME LogInv, Crash PROVE LogInv' /\ LogStep
<1> USE DEF LogInv
<1>1. IndexesOK' /\ LogStep
  BY LogAlone, Bounds DEF Crash, IndexesOK
<1>2. RaftOK' /\ CompactOK'
  BY DEF Crash, RaftOK, CompactOK
<1>. QED
  BY <1>1, <1>2

\* A step of votes leaves the log alone.
LEMMA VoteLog ==
    ASSUME LogInv, UNCHANGED <<raftLog, snapshot, lastLog, compacting>>,
           raft = Running \/ raft.at = "vote",
           raft' = Running \/ raft'.at = "vote"
    PROVE  LogInv' /\ LogStep
<1> USE DEF LogInv
<1>1. IndexesOK' /\ LogStep
  BY LogAlone DEF IndexesOK
<1>2. RaftOK'
  BY DEF RaftOK, Replacing, Running, Down, Configuring, Bootstrapping, Appending
<1>3. CompactOK'
  BY DEF CompactOK, Running, Doomed
<1>. QED
  BY <1>1, <1>2, <1>3

\* Storing after the end, as the next three steps do, is Log!Append.
LEMMA StoreStep ==
    ASSUME LogInv, NEW from \in Indexes, NEW last \in Indexes, from <= last,
           NEW logs \in [from..last -> Entry],
           snapshot < from, LastIndex(raftLog) < from, from <= End(raftLog, snapshot) + 1,
           raftLog' = StoreLogs(raftLog, logs), snapshot' = snapshot, lastLog' = last
    PROVE  IndexesOK' /\ lastLog' = LastIndex(raftLog') /\ LogStep
<1> DEFINE d == StoreLogs(raftLog, logs)
           s == snapshot
<1>1. IsLog(raftLog) /\ s \in 0..MaxIndex /\ Whole(raftLog, s)
  BY DEF LogInv, IndexesOK
<1>2. /\ IsLog(d) /\ Whole(d, s)
      /\ LastIndex(d) = last /\ End(d, s) = last /\ End(raftLog, s) < last
      /\ Tail(d, s) \in [s + 1..last -> Entry]
      /\ \A i \in s + 1..End(raftLog, s) : Tail(d, s)[i] = Tail(raftLog, s)[i]
  BY <1>1, StoreAtEnd
<1> HIDE DEF d
<1>3. raftLog' = d
  BY DEF d
<1>4. IndexesOK' /\ lastLog' = LastIndex(raftLog')
  BY <1>1, <1>2, <1>3, Bounds DEF IndexesOK, IsLog, Whole, Stored
<1>5. Log!Append(last)
  BY <1>2, <1>3 DEF Log!Append, Tail, End
<1>6. last \in 0..MaxIndex
  BY Bounds
<1>. QED
  BY <1>4, <1>5, <1>6 DEF LogStep, Log!Next

\* So does the second transaction of a bootstrap.
LEMMA BootstrapConfigurationLog ==
    ASSUME LogInv, NEW e \in Entry, BootstrapConfiguration(e)
    PROVE  LogInv' /\ LogStep
<1> DEFINE logs == [i \in {1} |-> e]
<1>1. 1 \in Indexes /\ logs \in [1..1 -> Entry]
  BY Bounds DEF BootstrapConfiguration, Indexes
<1>2. LastIndex(raftLog) = 0 /\ snapshot = 0
  BY DEF BootstrapConfiguration, LogInv, RaftOK, Replacing, Configuring, Down, Bootstrapping,
         Running, Appending
<1>3. IndexesOK' /\ lastLog' = LastIndex(raftLog') /\ LogStep
  <2>1. snapshot < 1 /\ LastIndex(raftLog) < 1 /\ 1 <= End(raftLog, snapshot) + 1
    BY <1>2 DEF End, Higher
  <2>2. raftLog' = StoreLogs(raftLog, logs) /\ snapshot' = snapshot /\ lastLog' = 1
    BY DEF BootstrapConfiguration
  <2>3. 1 <= 1
    OBVIOUS
  <2> HIDE DEF logs
  <2>. QED
    BY <1>1, <2>1, <2>2, <2>3, StoreStep, Zenon
<1>4. RaftOK' /\ CompactOK'
  BY <1>3 DEF BootstrapConfiguration, RaftOK, LogInv, CompactOK, Configuring
<1>. QED
  BY <1>3, <1>4 DEF LogInv

\* So does appending behind a deleted suffix.
LEMMA AppendRestLog == ASSUME LogInv, AppendRest PROVE LogInv' /\ LogStep
<1>1. PICK from \in Indexes, last \in Indexes :
        /\ raft.logs \in [from..last -> Entry]
        /\ from <= last /\ snapshot < from
        /\ LastIndex(raftLog) < from
        /\ from <= End(raftLog, snapshot) + 1
  BY DEF AppendRest, LogInv, RaftOK, Replacing, Configuring, Down, Bootstrapping, Running
<1>2. from \in Nat /\ last \in Nat
  BY DEF Indexes
<1>3. lastLog' = last
  <2>1. DOMAIN raft.logs = from..last
    BY <1>1
  <2>2. lastLog' = CHOOSE i \in from..last : \A j \in from..last : i >= j
    BY <2>1 DEF AppendRest
  <2>3. last \in from..last /\ \A j \in from..last : last >= j
    BY <1>1, <1>2
  <2>4. \A i \in from..last : (\A j \in from..last : i >= j) => i = last
    BY <1>2, <2>3
  <2>. QED
    BY <2>2, <2>3, <2>4
<1>4. IndexesOK' /\ lastLog' = LastIndex(raftLog') /\ LogStep
  BY <1>1, <1>3, StoreStep DEF AppendRest
<1>5. RaftOK'
  BY <1>4 DEF AppendRest, RaftOK
<1>6. CompactOK'
  <2>1. ASSUME NEW c, Doomed(c) PROVE Doomed(c)'
    <3>1. snapshot' = snapshot /\ snapshot \in Nat /\ snapshot < lastLog'
      <4>1. snapshot' = snapshot
        BY DEF AppendRest
      <4>2. snapshot \in Nat
        BY Bounds DEF LogInv, IndexesOK
      <4>. QED
        BY <1>1, <1>2, <1>3, <4>1, <4>2
    <3>2. \A max \in 0..snapshot : max < lastLog'
      BY <1>2, <1>3, <3>1
    <3>. QED
      BY <2>1, <3>1, <3>2 DEF Doomed
  <2>. QED
    BY <2>1 DEF AppendRest, LogInv, CompactOK, Running
<1>. QED
  BY <1>4, <1>5, <1>6 DEF LogInv

\* What is missing of logs is its end, from an entry that follows the log or the
\* snapshot, or conflicts.
LEMMA MissingIsEnd ==
    ASSUME LogInv, raft = Running, NEW first \in snapshot + 1..MaxIndex,
           NEW last \in snapshot + 1..MaxIndex, first <= LastKnown + 1,
           NEW logs \in [first..last -> Entry], Missing(logs) # {}
    PROVE  \E from \in Indexes :
             /\ from <= last /\ snapshot < from
             /\ Missing(logs) = from..last
             /\ from = CHOOSE i \in Missing(logs) : \A j \in Missing(logs) : i <= j
             /\ last = CHOOSE i \in Missing(logs) : \A j \in Missing(logs) : i >= j
             /\ lastLog < from => from <= End(raftLog, snapshot) + 1
<1> DEFINE M == Missing(logs)
           Bad(j) == j > lastLog \/ GetLog(raftLog, j) # logs[j]
<1>1. /\ lastLog = LastIndex(raftLog) /\ lastLog \in Nat /\ snapshot \in Nat
      /\ MaxIndex \in Nat /\ first \in Nat /\ last \in Nat /\ snapshot < first
      /\ last <= MaxIndex
  BY Bounds DEF LogInv, IndexesOK, RaftOK, Running, Down, Configuring, Replacing, Appending
<1>2. M = {i \in first..last : \E j \in first..last : j <= i /\ Bad(j)}
  BY DEF Missing
<1>3. \A j \in first..last : lastLog < j => Bad(j)
  OBVIOUS
<1> HIDE DEF M, Bad
<1>4. M \subseteq 0..MaxIndex /\ M # {}
  BY <1>1, <1>2 DEF M
<1>5. PICK from \in M : \A j \in M : from <= j
  BY <1>1, <1>4, FirstAndLast
<1>6. from \in first..last /\ Bad(from)
  <2>1. PICK j \in first..last : j <= from /\ Bad(j)
    BY <1>2
  <2>2. j \in M
    BY <1>2, <2>1
  <2>. QED
    BY <1>1, <1>2, <1>5, <2>1, <2>2
<1>7. M = from..last
  BY <1>1, <1>2, <1>5, <1>6
<1>8. from = CHOOSE i \in M : \A j \in M : i <= j
  <2>1. \A i \in M : (\A j \in M : i <= j) => i = from
    BY <1>1, <1>5, <1>6, <1>7
  <2>. QED
    BY <1>5, <2>1
<1>9. last = CHOOSE i \in M : \A j \in M : i >= j
  <2>1. last \in M /\ \A j \in M : last >= j
    BY <1>1, <1>6, <1>7
  <2>2. \A i \in M : (\A j \in M : i >= j) => i = last
    BY <1>1, <1>6, <1>7, <2>1
  <2>. QED
    BY <2>1, <2>2
<1>10. lastLog < from => from <= End(raftLog, snapshot) + 1
  <2>1. CASE first > lastLog
    <3>1. first \in M
      BY <1>1, <1>2, <1>3, <1>6, <2>1
    <3>. QED
      BY <1>1, <1>5, <1>6, <3>1 DEF LastKnown, End, Higher
  <2>2. CASE first <= lastLog /\ lastLog < from
    <3>1. lastLog + 1 \in first..last /\ lastLog < lastLog + 1
      BY <1>1, <1>6, <2>2
    <3>2. lastLog + 1 \in M
      BY <1>1, <1>2, <1>3, <3>1
    <3>. QED
      BY <1>1, <1>5, <1>6, <3>2 DEF End, Higher
  <2>. QED
    BY <1>1, <2>1, <2>2
<1>11. from \in Indexes /\ from <= last /\ snapshot < from
  BY <1>1, <1>6 DEF Indexes
<1>. QED
  BY <1>7, <1>8, <1>9, <1>10, <1>11 DEF M

\* Entries are stored after the end, or those they conflict with are deleted.
LEMMA AppendEntriesLog ==
    ASSUME LogInv, NEW first \in snapshot + 1..MaxIndex, NEW last \in snapshot + 1..MaxIndex,
           first <= LastKnown + 1, NEW logs \in [first..last -> Entry], AppendEntries(logs)
    PROVE  LogInv' /\ LogStep
<1> DEFINE M == Missing(logs)
           new == [i \in M |-> logs[i]]
<1>1. raft = Running /\ M # {}
  BY DEF AppendEntries, Ready
<1>2. PICK from \in Indexes :
        /\ from <= last /\ snapshot < from
        /\ M = from..last
        /\ from = CHOOSE i \in M : \A j \in M : i <= j
        /\ last = CHOOSE i \in M : \A j \in M : i >= j
        /\ lastLog < from => from <= End(raftLog, snapshot) + 1
  BY <1>1, MissingIsEnd
<1>3. /\ lastLog = LastIndex(raftLog) /\ lastLog \in Nat /\ snapshot \in Nat /\ from \in Nat
      /\ MaxIndex \in Nat /\ last \in Indexes /\ last \in Nat /\ from \in 0..MaxIndex
      /\ lastLog \in 0..MaxIndex
  <2>1. /\ lastLog = LastIndex(raftLog) /\ lastLog \in 0..MaxIndex /\ snapshot \in 0..MaxIndex
    BY <1>1 DEF LogInv, IndexesOK, RaftOK, Running, Down, Configuring, Replacing, Appending
  <2>. QED
    BY <2>1, Bounds DEF Indexes
<1>4. new \in [from..last -> Entry]
  <2>1. M \subseteq first..last
    BY DEF Missing
  <2>. QED
    BY <1>2, <2>1
<1>5. /\ UNCHANGED <<snapshot, compacting>>
      /\ from <= lastLog =>
            /\ raftLog' = DeleteRange(raftLog, from, lastLog)
            /\ raft' = Appending(new) /\ lastLog' = lastLog
      /\ ~(from <= lastLog) =>
            raftLog' = StoreLogs(raftLog, new) /\ lastLog' = last /\ raft' = raft
  BY <1>2 DEF AppendEntries
<1> HIDE DEF M, new
<1>6. CASE ~(from <= lastLog)
  <2>1. lastLog < from
    BY <1>3, <1>6
  <2>2. IndexesOK' /\ lastLog' = LastIndex(raftLog') /\ LogStep
    BY <1>2, <1>3, <1>4, <1>5, <1>6, <2>1, StoreStep
  <2>3. RaftOK'
    BY <1>1, <1>5, <1>6, <2>2 DEF RaftOK
  <2>4. CompactOK'
    <3>1. ASSUME NEW c, Doomed(c) PROVE Doomed(c)'
      <4>1. \A max \in 0..snapshot : max < lastLog'
        <5>1. lastLog' = last /\ snapshot < last
          BY <1>2, <1>3, <1>5, <1>6
        <5>. QED
          BY <1>3, <5>1
      <4>. QED
        BY <1>5, <3>1, <4>1 DEF Doomed
    <3>. QED
      BY <1>1, <1>5, <1>6, <3>1 DEF LogInv, CompactOK
  <2>. QED
    BY <2>2, <2>3, <2>4 DEF LogInv
<1>7. CASE from <= lastLog
  <2> DEFINE d == DeleteRange(raftLog, from, LastIndex(raftLog))
             s == snapshot
  <2>1. IsLog(raftLog) /\ s \in 0..MaxIndex /\ Whole(raftLog, s)
    BY DEF LogInv, IndexesOK
  <2>2. /\ IsLog(d) /\ Whole(d, s)
        /\ LastIndex(d) < from /\ End(d, s) = from - 1 /\ End(raftLog, s) = LastIndex(raftLog)
        /\ Tail(d, s) = [i \in s + 1..from - 1 |-> Tail(raftLog, s)[i]]
    BY <1>2, <1>3, <1>7, <2>1, DeleteAtEnd, ZenonT(40)
  <2>3. raftLog' = d /\ raft' = Appending(new) /\ lastLog' = lastLog /\ snapshot' = s
    BY <1>3, <1>5, <1>7
  <2> HIDE DEF d
  <2>4. IndexesOK'
    BY <1>3, <2>1, <2>2, <2>3 DEF IndexesOK, IsLog, Whole, Stored
  <2>5. RaftOK'
    <3>1. raft'.logs = new /\ raft' = Appending(raft'.logs)
      BY <2>3 DEF Appending
    <3>2. LastIndex(raftLog') < from /\ from <= End(raftLog', snapshot') + 1
      BY <1>3, <2>2, <2>3
    <3>3. Replacing'
      BY <1>2, <1>3, <1>4, <2>3, <3>1, <3>2 DEF Replacing
    <3>. QED
      BY <3>3 DEF RaftOK
  <2>6. CompactOK'
    <3>1. ASSUME NEW c, Doomed(c) PROVE Doomed(c)'
      BY <2>3, <3>1 DEF Doomed
    <3>. QED
      BY <1>1, <1>5, <2>3, <3>1 DEF LogInv, CompactOK, Appending
  <2>7. Log!Truncate(from - 1)
    <3>1. from - 1 \in s..End(raftLog, s) - 1
      BY <1>2, <1>3, <1>7, <2>2
    <3>. QED
      BY <2>2, <2>3, <3>1 DEF Log!Truncate, Tail, End
  <2>8. from - 1 \in 0..MaxIndex
    BY <1>2, <1>3
  <2>. QED
    BY <2>4, <2>5, <2>6, <2>7, <2>8 DEF LogInv, LogStep, Log!Next
<1>. QED
  BY <1>6, <1>7

\* A snapshot takes the place of the entries up to its index.
LEMMA SnapshotStep ==
    ASSUME IndexesOK, NEW index \in snapshot + 1..MaxIndex,
           snapshot' = index, UNCHANGED <<raftLog, lastLog>>
    PROVE  IndexesOK' /\ Log!Snapshot(index) /\ LogStep
<1> DEFINE n == LastIndex(raftLog)
<1>1. snapshot \in Nat /\ n \in Nat /\ index \in Nat /\ snapshot < index /\ index \in 0..MaxIndex
  BY FirstLastIndex, Bounds DEF IndexesOK
<1>2. IndexesOK'
  <2>1. \A i \in index + 1..n : i \in snapshot + 1..n
    BY <1>1
  <2>. QED
    BY <1>1, <2>1 DEF IndexesOK, Whole, Stored, IsLog
<1> HIDE DEF n
<1>3. Log!Snapshot(index)
  <2>1. Higher(index, n) = IF index > Higher(snapshot, n) THEN index ELSE Higher(snapshot, n)
    BY <1>1 DEF Higher
  <2>2. index + 1..Higher(snapshot, n) = index + 1..n
    BY <1>1 DEF Higher
  <2>3. \A i \in index + 1..n : i \in snapshot + 1..n
    BY <1>1
  <2>. QED
    BY <1>1, <2>1, <2>2, <2>3 DEF Log!Snapshot, n
<1>. QED
  BY <1>1, <1>2, <1>3 DEF LogStep, Log!Next

\* So does a snapshot of the node's own.
LEMMA TakeSnapshotLog ==
    ASSUME LogInv, NEW i \in Indexes, TakeSnapshot(i) PROVE LogInv' /\ LogStep
<1> DEFINE n == LastIndex(raftLog)
<1>1. /\ n \in 0..MaxIndex /\ snapshot \in Nat /\ n \in Nat /\ i \in Nat /\ snapshot < i /\ i <= n
      /\ i \in snapshot + 1..MaxIndex
  BY FirstLastIndex, Bounds DEF LogInv, IndexesOK, TakeSnapshot, Indexes
<1>2. IndexesOK' /\ LogStep
  BY <1>1, SnapshotStep DEF TakeSnapshot, LogInv
<1>3. RaftOK'
  <2>1. CASE Replacing
    <3>1. End(raftLog', snapshot') = n /\ End(raftLog, snapshot) = n
      BY <1>1 DEF TakeSnapshot, End, Higher
    <3>2. PICK from \in Indexes, last \in Indexes :
            /\ raft.logs \in [from..last -> Entry] /\ raft = Appending(raft.logs)
            /\ from <= last /\ n < from /\ from <= End(raftLog, snapshot) + 1
      BY <2>1 DEF Replacing
    <3>3. i < from
      BY <1>1, <3>2 DEF Indexes
    <3>4. Replacing'
      BY <3>1, <3>2, <3>3 DEF Replacing, TakeSnapshot
    <3>. QED
      BY <3>4 DEF RaftOK
  <2>2. CASE ~Replacing
    BY <2>2 DEF LogInv, RaftOK, TakeSnapshot, Down, Configuring
  <2>. QED
    BY <2>1, <2>2
<1>4. CompactOK'
  <2>1. ASSUME NEW c, Doomed(c) PROVE Doomed(c)'
    BY <1>1, <2>1 DEF Doomed, TakeSnapshot
  <2>2. Doomed(Due(i))'
    BY <1>1 DEF Doomed, TakeSnapshot
  <2>. QED
    BY <2>1, <2>2 DEF LogInv, CompactOK, TakeSnapshot, Goroutine
<1>. QED
  BY <1>2, <1>3, <1>4 DEF LogInv

\* So does a snapshot another node sends.
LEMMA InstallSnapshotLog ==
    ASSUME LogInv, NEW i \in Indexes, InstallSnapshot(i) PROVE LogInv' /\ LogStep
<1>1. snapshot \in Nat /\ i \in Nat /\ snapshot < i /\ i \in snapshot + 1..MaxIndex
  BY Bounds DEF LogInv, IndexesOK, InstallSnapshot, Indexes
<1>2. IndexesOK' /\ LogStep
  BY <1>1, SnapshotStep DEF InstallSnapshot, LogInv
<1>3. RaftOK'
  BY DEF LogInv, RaftOK, InstallSnapshot, Ready, Running, Down, Configuring, Replacing, Appending
<1>4. CompactOK'
  <2>1. ASSUME NEW c, Doomed(c) PROVE Doomed(c)'
    BY <1>1, <2>1 DEF Doomed, InstallSnapshot
  <2>2. Doomed(Due(i))'
    BY <1>1 DEF Doomed, InstallSnapshot
  <2>. QED
    BY <2>1, <2>2 DEF LogInv, CompactOK, InstallSnapshot, Goroutine, Ready, Running
<1>. QED
  BY <1>2, <1>3, <1>4 DEF LogInv

\* So does reading the range to compact.
LEMMA CompactFromLog ==
    ASSUME LogInv, NEW g \in Goroutine, CompactFrom(g) PROVE LogInv' /\ LogStep
<1>1. IndexesOK' /\ LogStep
  BY LogAlone DEF CompactFrom, LogInv, IndexesOK
<1>2. RaftOK'
  BY DEF LogInv, CompactFrom, RaftOK, Replacing
<1>3. CompactOK'
  <2>1. ASSUME NEW c, Doomed(c) PROVE Doomed(c)'
    BY <2>1 DEF Doomed, CompactFrom
  <2>2. PICK i \in 0..snapshot : compacting[g] = Due(i)
    BY DEF LogInv, CompactOK, CompactFrom, Doomed, Deleting
  <2>3. PICK min, max : /\ min \in 0..MaxIndex
                        /\ min = FirstIndex(raftLog)
                        /\ max = Lower(i, lastLog - TrailingLogs)
    BY FirstLastIndex DEF LogInv, IndexesOK
  <2>4. snapshot \in Nat /\ lastLog \in Nat /\ TrailingLogs \in Nat \ {0} /\ min \in Nat
    BY <2>3, Bounds, StorageAssumption DEF LogInv, IndexesOK
  <2>5. /\ compacting' = [compacting EXCEPT
                ![g] = IF lastLog > TrailingLogs /\ min <= max THEN Deleting(min, max) ELSE None]
        /\ UNCHANGED <<snapshot, lastLog, raft>>
    <3>1. compacting[g].index = i
      BY <2>2 DEF Due
    <3>. QED
      BY <2>3, <3>1 DEF CompactFrom
  <2>6. ASSUME lastLog > TrailingLogs, min <= max PROVE Doomed(Deleting(min, max))'
    <3>1. max \in 0..snapshot /\ max < lastLog
      BY <2>2, <2>3, <2>4, <2>6 DEF Lower
    <3>. QED
      BY <2>3, <2>4, <2>5, <3>1 DEF Doomed
  <2>7. raft.at \notin {"down", "bootstrap", "configure"} \/ compacting[g] = None
    BY DEF LogInv, CompactOK
  <2>. QED
    BY <2>1, <2>5, <2>6, <2>7 DEF LogInv, CompactOK, CompactFrom
<1>. QED
  BY <1>1, <1>2, <1>3 DEF LogInv

\* So does deleting that range.
LEMMA CompactDeleteLog ==
    ASSUME LogInv, NEW g \in Goroutine, CompactDelete(g) PROVE LogInv' /\ LogStep
<1>1. PICK min \in 0..MaxIndex, max \in 0..snapshot :
        compacting[g] = Deleting(min, max) /\ max < lastLog
  BY DEF LogInv, CompactOK, CompactDelete, Doomed, Due
<1> DEFINE d == DeleteRange(raftLog, min, max)
           s == snapshot
           n == LastIndex(raftLog)
<1>2. IsLog(raftLog) /\ s \in 0..MaxIndex /\ Whole(raftLog, s) /\ s \in Nat /\ n \in Nat
  BY FirstLastIndex, Bounds DEF LogInv, IndexesOK
<1>3. max \in 0..MaxIndex /\ max <= s
  BY <1>2, Bounds
<1>4. /\ IsLog(d) /\ Whole(d, s)
      /\ max < n => LastIndex(d) = n
      /\ LastIndex(d) <= n
      /\ End(d, s) = End(raftLog, s) /\ Tail(d, s) = Tail(raftLog, s)
  BY <1>2, <1>3, DeleteAtStart
<1>5. /\ raftLog' = d /\ compacting' = [compacting EXCEPT ![g] = None]
      /\ UNCHANGED <<snapshot, lastLog, raft>>
  BY <1>1 DEF CompactDelete, Deleting
<1>6. raft.at \notin {"down", "bootstrap", "configure"}
  BY DEF LogInv, CompactOK, CompactDelete
<1> HIDE DEF d, n
<1>7. IndexesOK'
  BY <1>2, <1>4, <1>5 DEF LogInv, IndexesOK, IsLog, Whole, Stored
<1>8. RaftOK'
  <2>1. CASE Replacing
    <3>1. PICK from \in Indexes, last \in Indexes :
            /\ raft.logs \in [from..last -> Entry] /\ raft = Appending(raft.logs)
            /\ from <= last /\ s < from /\ n < from /\ from <= End(raftLog, s) + 1
      BY <2>1 DEF Replacing, n
    <3>2. IsLog(d) => LastIndex(d) \in Nat
      BY FirstLastIndex, Bounds
    <3>3. LastIndex(d) < from
      BY <1>2, <1>4, <3>1, <3>2 DEF Indexes
    <3>4. Replacing'
      BY <1>4, <1>5, <3>1, <3>3 DEF Replacing
    <3>. QED
      BY <3>4 DEF RaftOK
  <2>2. CASE ~Replacing
    <3>1. lastLog = n /\ (raft = Running \/ raft.at = "vote")
      BY <1>6, <2>2 DEF LogInv, RaftOK, Down, Configuring, Bootstrapping, n
    <3>2. LastIndex(d) = n
      BY <1>1, <1>4, <3>1
    <3>. QED
      BY <1>5, <3>1, <3>2 DEF RaftOK
  <2>. QED
    BY <2>1, <2>2
<1>9. CompactOK'
  <2>1. ASSUME NEW c, Doomed(c) PROVE Doomed(c)'
    BY <1>5, <2>1 DEF Doomed
  <2>. QED
    BY <1>5, <2>1 DEF LogInv, CompactOK
<1>10. LogStep
  <2>1. UNCHANGED Log!vars
    BY <1>4, <1>5 DEF Log!vars, Tail, End
  <2>. QED
    BY <2>1 DEF LogStep
<1>. QED
  BY <1>7, <1>8, <1>9, <1>10 DEF LogInv

-------------------------------------------------------------------------------
(* The inductive invariant of terms and votes.                             *)

Term == GetUint64(raftStable, "CurrentTerm")
LastVote == GetUint64(raftStable, "LastVoteTerm")
CandidateStored == HasValue(raftStable, "LastVoteCand")

StableOK ==
    /\ DOMAIN raftStable \subseteq {"CurrentTerm", "LastVoteTerm", "LastVoteCand"}
    /\ Term \in 0..MaxTerm /\ LastVote \in 0..Term
    /\ CandidateStored => LastVote > 0 /\ Get(raftStable, "LastVoteCand") \in Candidate

\* Every vote is in the past, or is the one that is stored.
GrantedOK ==
    /\ granted \subseteq (1..MaxTerm) \X Candidate
    /\ \A v \in granted :
          \/ v[1] < LastVote
          \/ v[1] = LastVote /\ CandidateStored /\ Get(raftStable, "LastVoteCand") = v[2]

\* While a vote is stored, nothing was granted in its term.
VotingOK ==
    raft.at = "vote" =>
        /\ raft.term = LastVote /\ LastVote > 0 /\ raft.candidate \in Candidate
        /\ \A v \in granted : v[1] < LastVote

VoteInv == StableOK /\ GrantedOK /\ VotingOK /\ OneVotePerTerm

\* Buckets d and b say the same of every key but one.
SameBut(d, b, key) ==
    \A k : k # key =>
        /\ GetUint64(d, k) = GetUint64(b, k) /\ (HasValue(d, k) <=> HasValue(b, k))
        /\ HasValue(b, k) => Get(d, k) = Get(b, k)

\* What is set in the stable store is what is read back, and nothing else changes.
LEMMA StableSet ==
    ASSUME NEW b, NEW key, NEW x, NEW d, d = Set(b, key, x)
    PROVE  /\ HasValue(d, key) /\ Get(d, key) = x
           /\ SameBut(d, b, key)
<1>1. /\ DOMAIN d = DOMAIN b \cup {key} /\ d[key] = x
      /\ \A k \in DOMAIN b : k # key => d[k] = b[k]
  BY DEF Set, Put
<1>2. HasValue(d, key) /\ Get(d, key) = x
  BY <1>1 DEF HasValue, Get
<1>3. SameBut(d, b, key)
  BY <1>1 DEF SameBut, GetUint64, HasValue, Get
<1>. QED
  BY <1>1, <1>2, <1>3

\* A number written with SetUint64 is read back by GetUint64, and no other key changes.
LEMMA StableSetUint64 ==
    ASSUME NEW b, NEW key, NEW v \in UInt64, NEW d, d = SetUint64(b, key, v)
    PROVE  /\ GetUint64(d, key) = v /\ HasValue(d, key)
           /\ SameBut(d, b, key)
<1>1. bytesToUint64(uint64ToBytes(v)) = v
  BY KeyOrder
<1>2. d = Set(b, key, uint64ToBytes(v))
  BY DEF SetUint64
<1>3. /\ HasValue(d, key) /\ Get(d, key) = uint64ToBytes(v)
      /\ SameBut(d, b, key)
  BY <1>2, StableSet
<1>. QED
  BY <1>1, <1>3 DEF GetUint64

\* What the steps of terms and votes do to the terms.
LEMMA StoreTerm ==
    ASSUME StableOK, NEW t \in 1..MaxTerm, t >= Term,
           raftStable' = SetUint64(raftStable, "CurrentTerm", t)
    PROVE  /\ StableOK' /\ LastVote' = LastVote /\ CandidateStored' = CandidateStored
           /\ CandidateStored => Get(raftStable', "LastVoteCand") = Get(raftStable, "LastVoteCand")
<1>1. t \in UInt64 /\ t \in 0..MaxTerm /\ Term \in Nat /\ MaxTerm \in Nat /\ t \in Nat
  BY Bounds DEF StableOK
<1>2. /\ Term' = t /\ LastVote' = LastVote /\ CandidateStored' = CandidateStored
      /\ CandidateStored => Get(raftStable', "LastVoteCand") = Get(raftStable, "LastVoteCand")
      /\ \A k \in DOMAIN raftStable' : k \in DOMAIN raftStable \/ k = "CurrentTerm"
  <2>1. SameBut(raftStable', raftStable, "CurrentTerm") /\ GetUint64(raftStable', "CurrentTerm") = t
    BY <1>1, StableSetUint64
  <2>. QED
    BY <2>1 DEF SameBut, HasValue, Term, LastVote, CandidateStored
<1>3. LastVote' \in 0..Term'
  BY <1>1, <1>2 DEF StableOK
<1>. QED
  BY <1>1, <1>2, <1>3 DEF StableOK

\* The first transaction of a vote stores its term and keeps the candidate.
LEMMA StoreVoteTerm ==
    ASSUME StableOK, Term > 0, raftStable' = SetUint64(raftStable, "LastVoteTerm", Term)
    PROVE  /\ StableOK' /\ LastVote' = Term /\ LastVote <= Term /\ Term \in 1..MaxTerm
           /\ CandidateStored' = CandidateStored
<1>1. /\ Term \in UInt64 /\ Term \in Nat /\ Term \in 0..MaxTerm /\ MaxTerm \in Nat
      /\ LastVote <= Term
  BY Bounds DEF StableOK
<1>2. /\ LastVote' = Term /\ Term' = Term /\ CandidateStored' = CandidateStored
      /\ CandidateStored => Get(raftStable', "LastVoteCand") = Get(raftStable, "LastVoteCand")
      /\ \A k \in DOMAIN raftStable' : k \in DOMAIN raftStable \/ k = "LastVoteTerm"
  <2>1. SameBut(raftStable', raftStable, "LastVoteTerm") /\ GetUint64(raftStable', "LastVoteTerm") = Term
    BY <1>1, StableSetUint64
  <2>. QED
    BY <2>1 DEF SameBut, HasValue, Term, LastVote, CandidateStored
<1>3. StableOK'
  BY <1>1, <1>2 DEF StableOK
<1>. QED
  BY <1>1, <1>2, <1>3

\* The second stores the candidate and keeps the term.
LEMMA StoreCandidate ==
    ASSUME StableOK, LastVote > 0, NEW c \in Candidate,
           raftStable' = Set(raftStable, "LastVoteCand", c)
    PROVE  /\ StableOK' /\ LastVote' = LastVote
           /\ CandidateStored' /\ Get(raftStable', "LastVoteCand") = c
<1>1. 0 \in UInt64
  BY Bounds
<1>2. /\ Term' = Term /\ LastVote' = LastVote
      /\ CandidateStored' /\ Get(raftStable', "LastVoteCand") = c
      /\ \A k \in DOMAIN raftStable' : k \in DOMAIN raftStable \/ k = "LastVoteCand"
  <2>1. SameBut(raftStable', raftStable, "LastVoteCand") /\ HasValue(raftStable', "LastVoteCand")
        /\ Get(raftStable', "LastVoteCand") = c
    BY <1>1, StableSet
  <2>. QED
    BY <2>1 DEF SameBut, HasValue, Term, LastVote, CandidateStored
<1>. QED
  BY <1>2 DEF StableOK

\* Steps that store no term and no vote.
LEMMA VotesAlone ==
    ASSUME VoteInv, UNCHANGED <<raftStable, granted>>,
           UNCHANGED raft \/ raft'.at # "vote"
    PROVE  VoteInv'
BY DEF VoteInv, StableOK, GrantedOK, VotingOK, OneVotePerTerm, Term, LastVote, CandidateStored

\* Bootstrapping keeps the vote invariant.
LEMMA BootstrapTermVotes == ASSUME VoteInv, BootstrapTerm PROVE VoteInv'
<1>1. Term = 0 /\ 1 \in 1..MaxTerm /\ raftStable' = SetUint64(raftStable, "CurrentTerm", 1)
  BY Bounds DEF VoteInv, StableOK, BootstrapTerm, HasExistingState, Term
<1>2. /\ StableOK' /\ LastVote' = LastVote /\ CandidateStored' = CandidateStored
      /\ CandidateStored => Get(raftStable', "LastVoteCand") = Get(raftStable, "LastVoteCand")
  BY <1>1, StoreTerm DEF VoteInv
<1>. QED
  BY <1>2 DEF VoteInv, GrantedOK, VotingOK, OneVotePerTerm, BootstrapTerm, Configuring

\* A new term keeps the vote invariant.
LEMMA NewTermVotes == ASSUME VoteInv, NEW t \in 1..MaxTerm, NewTerm(t) PROVE VoteInv'
<1>1. t >= Term /\ raftStable' = SetUint64(raftStable, "CurrentTerm", t)
  BY Bounds DEF VoteInv, StableOK, NewTerm, Term
<1>2. /\ StableOK' /\ LastVote' = LastVote /\ CandidateStored' = CandidateStored
      /\ CandidateStored => Get(raftStable', "LastVoteCand") = Get(raftStable, "LastVoteCand")
  BY <1>1, StoreTerm DEF VoteInv
<1>. QED
  BY <1>2 DEF VoteInv, GrantedOK, VotingOK, OneVotePerTerm, NewTerm, Ready, Running

\* A repeated vote keeps the vote invariant.
LEMMA VoteAgainVotes == ASSUME VoteInv, NEW c \in Candidate, VoteAgain(c) PROVE VoteInv'
<1>1. /\ LastVote = Term /\ CandidateStored /\ Get(raftStable, "LastVoteCand") = c
      /\ granted' = granted \cup {<<Term, c>>} /\ UNCHANGED <<raftStable, raft>>
      /\ raft.at # "vote"
  BY DEF VoteAgain, VotedIn, Term, LastVote, CandidateStored, Ready, Running
<1>2. StableOK' /\ VotingOK' /\ LastVote' = LastVote /\ CandidateStored'
  BY <1>1 DEF VoteInv, StableOK, VotingOK, Term, LastVote, CandidateStored
<1>3. Term \in 1..MaxTerm
  BY <1>1, Bounds DEF VoteInv, StableOK
<1>4. GrantedOK'
  BY <1>1, <1>2, <1>3 DEF VoteInv, GrantedOK
<1>5. OneVotePerTerm'
  <2>1. \A v \in granted : v[1] = Term => v[2] = c
    BY <1>1, <1>3 DEF VoteInv, GrantedOK
  <2>. QED
    BY <1>1, <2>1 DEF VoteInv, OneVotePerTerm
<1>. QED
  BY <1>2, <1>4, <1>5 DEF VoteInv

\* A vote in a term without one: every vote granted is in an earlier term.
LEMMA VoteVotes == ASSUME VoteInv, NEW c \in Candidate, Vote(c) PROVE VoteInv'
<1>1. /\ Term > 0 /\ ~(LastVote = Term /\ CandidateStored)
      /\ raftStable' = SetUint64(raftStable, "LastVoteTerm", Term)
      /\ raft' = Voting(Term, c) /\ granted' = granted
  BY DEF Vote, VotedIn, Term, LastVote, CandidateStored
<1>2. /\ StableOK' /\ LastVote' = Term /\ LastVote <= Term /\ Term \in 1..MaxTerm
      /\ LastVote \in Nat
  BY <1>1, StoreVoteTerm, Bounds DEF VoteInv, StableOK
<1>3. \A v \in granted : v[1] < Term
  <2>1. TAKE v \in granted
  <2>2. v[1] \in Nat
    BY DEF VoteInv, GrantedOK
  <2>. QED
    BY <1>1, <1>2, <2>2 DEF VoteInv, GrantedOK
<1>. QED
  BY <1>1, <1>2, <1>3 DEF VoteInv, GrantedOK, VotingOK, OneVotePerTerm, Voting

\* Granting a vote keeps the vote invariant.
LEMMA VoteGrantedVotes == ASSUME VoteInv, VoteGranted PROVE VoteInv'
<1> DEFINE c == raft.candidate
<1>1. /\ raftStable' = Set(raftStable, "LastVoteCand", c) /\ raft'.at # "vote"
      /\ granted' = granted \cup {<<raft.term, c>>}
      /\ c \in Candidate /\ raft.term = LastVote /\ \A v \in granted : v[1] < LastVote
      /\ LastVote > 0
  BY DEF VoteInv, VotingOK, VoteGranted, Running
<1>2. /\ StableOK' /\ LastVote' = LastVote
      /\ CandidateStored' /\ Get(raftStable', "LastVoteCand") = c
  BY <1>1, StoreCandidate DEF VoteInv
<1>3. LastVote \in 1..MaxTerm
  BY <1>1, Bounds DEF VoteInv, StableOK
<1> HIDE DEF c
<1>4. GrantedOK' /\ VotingOK'
  BY <1>1, <1>2, <1>3 DEF VoteInv, GrantedOK, VotingOK
<1>5. OneVotePerTerm'
  <2>1. \A v \in granted : v[1] # LastVote
    BY <1>1, <1>3 DEF VoteInv, GrantedOK
  <2>. QED
    BY <1>1, <2>1 DEF VoteInv, OneVotePerTerm
<1>. QED
  BY <1>2, <1>4, <1>5 DEF VoteInv

-------------------------------------------------------------------------------
(* Theorems.                                                               *)

\* An empty store satisfies both invariants.
LEMMA InitOK == Init => LogInv /\ VoteInv /\ Log!Init
<1>1. SUFFICES ASSUME Init PROVE LogInv /\ VoteInv /\ Log!Init
  OBVIOUS
<1>2. /\ DOMAIN EmptyBucket = {} /\ EmptyBucket = [k \in DOMAIN EmptyBucket |-> EmptyBucket[k]]
  BY DEF EmptyBucket
<1>3. /\ raftLog = EmptyBucket /\ raftStable = EmptyBucket /\ snapshot = 0 /\ lastLog = 0
      /\ raft = Down /\ granted = {} /\ compacting = [g \in Goroutine |-> None]
  BY <1>1, Zenon DEF Init
<1>4. IsLog(raftLog) /\ LastIndex(raftLog) = 0
  BY <1>2, <1>3, Zenon DEF IsLog, LastIndex
<1>5. LogInv
  <2>1. 1..LastIndex(raftLog) = {} /\ 0 + 1 = 1
    BY <1>4
  <2>2. Whole(raftLog, snapshot)
    BY <1>3, <2>1 DEF Whole
  <2>3. IndexesOK
    BY <1>3, <1>4, <2>2, Bounds DEF IndexesOK
  <2>. QED
    BY <1>3, <2>3 DEF LogInv, RaftOK, CompactOK
<1>6. VoteInv
  <2>1. Term = 0 /\ LastVote = 0 /\ ~CandidateStored
    BY <1>2, <1>3, Zenon DEF Term, LastVote, CandidateStored, GetUint64, HasValue
  <2>2. StableOK
    BY <1>2, <1>3, <2>1, Bounds DEF StableOK
  <2>3. GrantedOK /\ VotingOK /\ OneVotePerTerm
    BY <1>3 DEF GrantedOK, VotingOK, OneVotePerTerm, Down
  <2>. QED
    BY <2>2, <2>3 DEF VoteInv
<1>7. Log!Init
  <2>1. Higher(snapshot, LastIndex(raftLog)) = 0 /\ 0 + 1..0 = {} /\ 1..0 = {}
    BY <1>3, <1>4 DEF Higher
  <2>. QED
    BY <1>3, <1>4, <2>1 DEF Log!Init
<1>. QED
  BY <1>5, <1>6, <1>7

\* Every step keeps the log invariant and is a step of the durable log.
LEMMA NextLog == LogInv /\ [Next]_vars => LogInv' /\ LogStep
<1>1. SUFFICES ASSUME LogInv, [Next]_vars PROVE LogInv' /\ LogStep
  OBVIOUS
<1>2. ASSUME NEW b \in BOOLEAN, Start(b) PROVE LogInv' /\ LogStep
  BY <1>1, <1>2, StartLog
<1>3. CASE BootstrapRefused
  BY <1>1, <1>3, BootstrapRefusedLog
<1>4. CASE BootstrapTerm
  BY <1>1, <1>4, BootstrapTermLog
<1>5. ASSUME NEW e \in Entry, BootstrapConfiguration(e) PROVE LogInv' /\ LogStep
  BY <1>1, <1>5, BootstrapConfigurationLog
<1>6. CASE Crash
  BY <1>1, <1>6, CrashLog
<1>7. ASSUME NEW first \in snapshot + 1..MaxIndex, NEW last \in snapshot + 1..MaxIndex,
             first <= LastKnown + 1, NEW logs \in [first..last -> Entry], AppendEntries(logs)
      PROVE  LogInv' /\ LogStep
  BY <1>1, <1>7, AppendEntriesLog
<1>8. CASE AppendRest
  BY <1>1, <1>8, AppendRestLog
<1>9. ASSUME NEW i \in Indexes, TakeSnapshot(i) PROVE LogInv' /\ LogStep
  BY <1>1, <1>9, TakeSnapshotLog
<1>10. ASSUME NEW i \in Indexes, InstallSnapshot(i) PROVE LogInv' /\ LogStep
  BY <1>1, <1>10, InstallSnapshotLog
<1>11. ASSUME NEW g \in Goroutine, CompactFrom(g) PROVE LogInv' /\ LogStep
  BY <1>1, <1>11, CompactFromLog
<1>12. ASSUME NEW g \in Goroutine, CompactDelete(g) PROVE LogInv' /\ LogStep
  BY <1>1, <1>12, CompactDeleteLog
<1>13. ASSUME NEW t \in 1..MaxTerm, NewTerm(t) PROVE LogInv' /\ LogStep
  BY <1>1, <1>13, VoteLog DEF NewTerm, Ready
<1>14. ASSUME NEW c \in Candidate, VoteAgain(c) PROVE LogInv' /\ LogStep
  BY <1>1, <1>14, VoteLog DEF VoteAgain, Ready
<1>15. ASSUME NEW c \in Candidate, Vote(c) PROVE LogInv' /\ LogStep
  BY <1>1, <1>15, VoteLog DEF Vote, Ready, Voting
<1>16. CASE VoteGranted
  BY <1>1, <1>16, VoteLog DEF VoteGranted
<1>17. CASE UNCHANGED vars
  <2>1. IndexesOK' /\ LogStep
    BY <1>1, <1>17, LogAlone DEF vars, LogInv, IndexesOK
  <2>2. RaftOK' /\ CompactOK'
    BY <1>1, <1>17 DEF vars, LogInv, RaftOK, Replacing, CompactOK, Doomed
  <2>. QED
    BY <2>1, <2>2 DEF LogInv
<1>. QED
  BY <1>1, <1>2, <1>3, <1>4, <1>5, <1>6, <1>7, <1>8, <1>9, <1>10, <1>11, <1>12, <1>13, <1>14,
     <1>15, <1>16, <1>17, Zenon DEF Next

\* Every step keeps the vote invariant.
LEMMA NextVotes == VoteInv /\ [Next]_vars => VoteInv'
<1>1. SUFFICES ASSUME VoteInv, [Next]_vars PROVE VoteInv'
  OBVIOUS
<1>2. CASE \/ \E b \in BOOLEAN : Start(b)
           \/ BootstrapRefused
           \/ \E e \in Entry : BootstrapConfiguration(e)
           \/ Crash
           \/ AppendRest
           \/ \E i \in Indexes : TakeSnapshot(i) \/ InstallSnapshot(i)
           \/ \E g \in Goroutine : CompactFrom(g) \/ CompactDelete(g)
           \/ UNCHANGED vars
  <2>1. UNCHANGED <<raftStable, granted>>
    BY <1>2 DEF Start, BootstrapRefused, BootstrapConfiguration, Crash, AppendRest, TakeSnapshot,
       InstallSnapshot, CompactFrom, CompactDelete, vars
  <2>2. UNCHANGED raft \/ raft'.at # "vote"
    BY <1>2 DEF Start, BootstrapRefused, BootstrapConfiguration, Crash, AppendRest, TakeSnapshot,
       InstallSnapshot, CompactFrom, CompactDelete, vars, Running, Bootstrapping, Down
  <2>. QED
    BY <1>1, <2>1, <2>2, VotesAlone
<1>3. ASSUME NEW logs, AppendEntries(logs) PROVE VoteInv'
  <2>1. UNCHANGED <<raftStable, granted>> /\ (UNCHANGED raft \/ raft'.at # "vote")
    BY <1>3 DEF AppendEntries, Appending
  <2>. QED
    BY <1>1, <2>1, VotesAlone
<1>4. CASE BootstrapTerm
  BY <1>1, <1>4, BootstrapTermVotes
<1>5. ASSUME NEW t \in 1..MaxTerm, NewTerm(t) PROVE VoteInv'
  BY <1>1, <1>5, NewTermVotes
<1>6. ASSUME NEW c \in Candidate, VoteAgain(c) PROVE VoteInv'
  BY <1>1, <1>6, VoteAgainVotes
<1>7. ASSUME NEW c \in Candidate, Vote(c) PROVE VoteInv'
  BY <1>1, <1>7, VoteVotes
<1>8. CASE VoteGranted
  BY <1>1, <1>8, VoteGrantedVotes
<1>. QED
  BY <1>1, <1>2, <1>3, <1>4, <1>5, <1>6, <1>7, <1>8, Zenon DEF Next

\* Keys are those of indexes, Raft's copy of the last index is right whenever it
\* uses it, and what is stored of terms and votes is of its kind: what
\* boltstore.go returns to Raft is what Raft put there.
THEOREM StorageTypes == Spec => []TypeOK
<1>1. ASSUME LogInv, VoteInv PROVE TypeOK
  <2>1. /\ DOMAIN raftLog \subseteq {uint64ToBytes(i) : i \in Indexes}
        /\ \A k \in DOMAIN raftLog : raftLog[k] \in Entry
        /\ snapshot \in 0..MaxIndex
    BY <1>1 DEF LogInv, IndexesOK, IsLog
  <2>2. raft.at \in {"running", "vote"} => lastLog = LastIndex(raftLog)
    BY <1>1 DEF LogInv, RaftOK, Replacing, Down, Configuring, Bootstrapping, Running, Appending
  <2>. QED
    BY <1>1, <2>1, <2>2 DEF TypeOK, VoteInv, StableOK, GrantedOK
<1>. QED
  BY <1>1, InitOK, NextLog, NextVotes, PTL DEF Spec

\* NewRaft finds every entry after the snapshot, whatever was replaced or
\* compacted and whenever the node crashed.
THEOREM Readable == Spec => []LogReadable
<1>1. ASSUME LogInv PROVE LogReadable
  <2>1. SUFFICES ASSUME NEW i \in snapshot + 1..LastIndex(raftLog)
                 PROVE  GetLog(raftLog, i) # ErrLogNotFound
    BY DEF LogReadable
  <2>2. GetLog(raftLog, i) \in Entry
    BY <1>1, StoredIsEntry DEF LogInv, IndexesOK, Whole
  <2>. QED
    BY <2>2, StorageAssumption
<1>. QED
  BY <1>1, InitOK, NextLog, PTL DEF Spec

\* A node's storage is a durable log: transactions, compaction by two goroutines
\* and crashes do no more to it than append, truncate and snapshot.
THEOREM StorageIsDurableLog == Spec => IsDurableLog
<1>1. LogStep => [Log!Next]_(Log!vars)
  BY DEF LogStep
<1>. QED
  BY <1>1, InitOK, NextLog, PTL DEF Spec, IsDurableLog, Log!Spec

\* A node votes for one candidate in a term, although a crash can come between
\* the two transactions that store the vote.
THEOREM VotesOnce == Spec => []OneVotePerTerm
<1>1. VoteInv => OneVotePerTerm
  BY DEF VoteInv
<1>. QED
  BY <1>1, InitOK, NextVotes, PTL DEF Spec

===============================================================================
