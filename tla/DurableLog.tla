------------------------------ MODULE DurableLog ------------------------------
(***************************************************************************)
(* The log that Raft may count on from a node's disk: a snapshot, and      *)
(* after it entries without a gap, to which entries are added at the end,  *)
(* from the end of which conflicting ones are taken back, and of which a   *)
(* later snapshot takes the place of the beginning.  A crash changes       *)
(* nothing of it.                                                          *)
(*                                                                         *)
(* NodeStorage implements this.                                            *)
(***************************************************************************)
EXTENDS Integers

CONSTANTS
    Entry,
    Index       \* the indexes an entry may have, and 0

VARIABLES
    start,      \* the index of the last entry in the snapshot
    end,        \* the index of the last entry
    entry       \* the entries after the snapshot, by their index

vars == <<start, end, entry>>

Init == start = 0 /\ end = 0 /\ entry = [i \in 1..0 |-> 0]

Append(last) ==
    /\ last > end
    /\ entry' \in [start + 1..last -> Entry]
    /\ \A i \in start + 1..end : entry'[i] = entry[i]
    /\ end' = last
    /\ UNCHANGED start

Truncate(last) ==
    /\ last \in start..end - 1
    /\ entry' = [i \in start + 1..last |-> entry[i]]
    /\ end' = last
    /\ UNCHANGED start

\* A snapshot, of this node or sent by the leader, possibly past the end.
Snapshot(index) ==
    /\ index > start
    /\ start' = index
    /\ end' = IF index > end THEN index ELSE end
    /\ entry' = [i \in index + 1..end |-> entry[i]]

Next == \E i \in Index : Append(i) \/ Truncate(i) \/ Snapshot(i)

Spec == Init /\ [][Next]_vars

===============================================================================
