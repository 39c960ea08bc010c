------------------------------- MODULE BoltStore -------------------------------
(***************************************************************************)
(* internal/store/boltstore.go: Raft's log store and stable store in the   *)
(* two buckets of one BoltDB file, as pure functions of a bucket.          *)
(*                                                                         *)
(* BoltDB itself (go.etcd.io/bbolt, external) is its contract: a bucket is *)
(* a map from keys to values; db.Update changes it by one transaction, all *)
(* or nothing and durable, of which there is one at a time; a cursor walks *)
(* the keys in the order of their bytes.                                   *)
(*                                                                         *)
(* A key is the eight bytes of a uint64.  They are taken as two digits, of *)
(* four bytes each: the order of the bytes is that of the digits.          *)
(***************************************************************************)
EXTENDS Integers

CONSTANTS
    Base,           \* how many values a digit has: 2^32 in the code
    ErrLogNotFound

ASSUME BaseAssumption == Base \in Nat \ {0}

UInt64 == 0..Base * Base - 1
Digit == 0..Base - 1
Key == Digit \X Digit

\* (Mutant: little-endian.)
uint64ToBytesLittle(v) == <<v % Base, v \div Base>>
uint64ToBytes(v) == <<v \div Base, v % Base>>

\* (Mutant: little-endian here only.)
bytesToUint64Little(b) == b[1] + b[2] * Base
bytesToUint64(b) == b[1] * Base + b[2]

\* The order of a cursor: k is l, or comes before it.
Precedes(k, l) == k[1] < l[1] \/ (k[1] = l[1] /\ k[2] <= l[2])

EmptyBucket == [k \in {} |-> 0]

Put(bucket, key, value) ==
    [k \in DOMAIN bucket \cup {key} |-> IF k = key THEN value ELSE bucket[k]]

-------------------------------------------------------------------------------
(* The log store.                                                          *)

\* Zero stands for an empty log.
FirstIndex(bucket) ==
    IF DOMAIN bucket = {} THEN 0
    ELSE bytesToUint64(CHOOSE k \in DOMAIN bucket : \A l \in DOMAIN bucket : Precedes(k, l))

\* (Mutant: the cursor is put on the first key.)
LastIndexFirst(bucket) == FirstIndex(bucket)
LastIndex(bucket) ==
    IF DOMAIN bucket = {} THEN 0
    ELSE bytesToUint64(CHOOSE k \in DOMAIN bucket : \A l \in DOMAIN bucket : Precedes(l, k))

GetLog(bucket, index) ==
    IF uint64ToBytes(index) \in DOMAIN bucket THEN bucket[uint64ToBytes(index)]
    ELSE ErrLogNotFound

\* StoreLogs puts entries, given by their indexes, in one transaction.
StoreLogs(bucket, logs) ==
    LET keys == {uint64ToBytes(i) : i \in DOMAIN logs} IN
    [k \in DOMAIN bucket \cup keys |->
        IF k \in keys THEN logs[CHOOSE i \in DOMAIN logs : k = uint64ToBytes(i)]
                      ELSE bucket[k]]

\* The keys that DeleteRange's cursor deletes: from the first that is not before
\* min, until it comes to one above max.
\* (Mutant: max is left.)
WalkedExclusive(bucket, min, max) ==
    LET ahead == {k \in DOMAIN bucket : Precedes(uint64ToBytes(min), k)} IN
    {k \in ahead : \A l \in ahead : Precedes(l, k) => bytesToUint64(l) < max}
Walked(bucket, min, max) ==
    LET ahead == {k \in DOMAIN bucket : Precedes(uint64ToBytes(min), k)} IN
    {k \in ahead : \A l \in ahead : Precedes(l, k) => bytesToUint64(l) <= max}

DeleteRange(bucket, min, max) ==
    [k \in DOMAIN bucket \ Walked(bucket, min, max) |-> bucket[k]]

-------------------------------------------------------------------------------
(* The stable store.                                                       *)

Set(bucket, key, value) == Put(bucket, key, value)

SetUint64(bucket, key, v) == Set(bucket, key, uint64ToBytes(v))

\* Get returns no value, and GetUint64 zero, for a key that was never set.
HasValue(bucket, key) == key \in DOMAIN bucket
Get(bucket, key) == bucket[key]
GetUint64(bucket, key) ==
    IF HasValue(bucket, key) THEN bytesToUint64(Get(bucket, key)) ELSE 0

===============================================================================
