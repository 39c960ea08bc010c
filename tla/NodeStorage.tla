----------------------------- MODULE NodeStorage -----------------------------
(***************************************************************************)
(* What one node keeps on disk, through crashes: the two buckets of        *)
(* boltstore.go as Raft uses them, and the index of the latest snapshot.   *)
(*                                                                         *)
(* Raft (hashicorp/raft 1.7, external) reads and writes the store from two *)
(* goroutines.  "raft" starts the node, bootstraps it, adds the entries of *)
(* a leader to the log, votes, and installs snapshots; "snapshots" takes   *)
(* snapshots.  Both compact the log after a snapshot.  Each access is one  *)
(* transaction of the store; a goroutine makes several in a row, the other *)
(* goroutine's may come in between, and the node may crash between any     *)
(* two.                                                                    *)
(***************************************************************************)
EXTENDS BoltStore

CONSTANTS
    Entry,          \* entries; at one index, entries of different terms differ
    Candidate,      \* the servers that ask for votes
    MaxIndex,       \* bound: the highest index
    MaxTerm,        \* bound: the highest term
    TrailingLogs,   \* how many entries compaction leaves (10240 by default)
    None

ASSUME StorageAssumption ==
    /\ MaxIndex \in Nat /\ MaxIndex < Base * Base
    /\ MaxTerm \in Nat \ {0} /\ MaxTerm < Base * Base
    /\ TrailingLogs \in Nat \ {0}
    /\ Entry # {} /\ ErrLogNotFound \notin Entry

VARIABLES
    raftLog,    \* bucket raft-log: entries by the bytes of their index
    raftStable, \* bucket raft-stable
    snapshot,   \* the index of the latest snapshot in the snapshot store
    lastLog,    \* Raft's copy of the last index of the log
    raft,       \* what goroutine "raft" is in the middle of
    compacting, \* compacting[g]: how far goroutine g is in compacting the log
    granted,    \* history: the votes granted, as <<term, candidate>>
    refused     \* history: bootstrapping ended in ErrCantBootstrap

vars == <<raftLog, raftStable, snapshot, lastLog, raft, compacting, granted, refused>>

Goroutine == {"raft", "snapshots"}
Indexes == 1..MaxIndex

\* What goroutine "raft" does, with what it has still to store.
Down == [at |-> "down"]
Bootstrapping == [at |-> "bootstrap"]
Configuring == [at |-> "configure"]
Running == [at |-> "running"]
Appending(logs) == [at |-> "append", logs |-> logs]
Voting(term, c) == [at |-> "vote", term |-> term, candidate |-> c]

\* Compaction has read nothing yet, or has decided what to delete.
Due(index) == [at |-> "due", index |-> index]
Deleting(min, max) == [at |-> "delete", min |-> min, max |-> max]

Init ==
    /\ raftLog = EmptyBucket
    /\ raftStable = EmptyBucket
    /\ snapshot = 0
    /\ lastLog = 0
    /\ raft = Down
    /\ compacting = [g \in Goroutine |-> None]
    /\ granted = {}
    /\ refused = FALSE

\* Raft's goroutine waits for the next message.
Ready == raft = Running /\ compacting["raft"] = None

Higher(i, j) == IF i > j THEN i ELSE j
Lower(i, j) == IF i < j THEN i ELSE j

LastKnown == Higher(lastLog, snapshot)

-------------------------------------------------------------------------------
(* Start, bootstrap and crash.                                             *)

\* NewRaft reads the log's last index; SetupRaft then bootstraps, if told to.
Start(bootstrap) ==
    /\ raft = Down
    /\ lastLog' = LastIndex(raftLog)
    /\ raft' = IF bootstrap THEN Bootstrapping ELSE Running
    /\ UNCHANGED <<raftLog, raftStable, snapshot, compacting, granted, refused>>

HasExistingState ==
    GetUint64(raftStable, "CurrentTerm") > 0 \/ LastIndex(raftLog) > 0 \/ snapshot > 0

\* BootstrapCluster refuses, which SetupRaft ignores.
BootstrapRefused ==
    /\ raft = Bootstrapping
    /\ HasExistingState
    /\ raft' = Running
    /\ refused' = TRUE
    /\ UNCHANGED <<raftLog, raftStable, snapshot, lastLog, compacting, granted>>

\* Or it stores the first term, and then the configuration as the first entry.
BootstrapTerm ==
    /\ raft = Bootstrapping
    /\ ~HasExistingState
    /\ raftStable' = SetUint64(raftStable, "CurrentTerm", 1)
    /\ raft' = Configuring
    /\ UNCHANGED <<raftLog, snapshot, lastLog, compacting, granted, refused>>

BootstrapConfiguration(configuration) ==
    /\ raft = Configuring
    /\ 1 <= MaxIndex
    /\ raftLog' = StoreLogs(raftLog, [i \in {1} |-> configuration])
    /\ lastLog' = 1
    /\ raft' = Running
    /\ UNCHANGED <<raftStable, snapshot, compacting, granted, refused>>

Crash ==
    /\ raft # Down
    /\ raft' = Down
    /\ lastLog' = 0
    /\ compacting' = [g \in Goroutine |-> None]
    /\ UNCHANGED <<raftLog, raftStable, snapshot, granted, refused>>

-------------------------------------------------------------------------------
(* The log.                                                                *)

\* The entries of logs that are not in the log yet: those after its end, and
\* those from the first that differs from the one stored.
Missing(logs) ==
    {i \in DOMAIN logs : \E j \in DOMAIN logs :
        j <= i /\ (j > lastLog \/ GetLog(raftLog, j) # logs[j])}

\* Entries first.. of the node itself, when it leads, or of the leader, after the
\* entry both agree on.  Those in the snapshot are committed and never differ.
\* Entries that conflict are deleted first, in a transaction of their own.
AppendEntries(logs) ==
    LET missing == Missing(logs)
        from == CHOOSE i \in missing : \A j \in missing : i <= j
        new == [i \in missing |-> logs[i]]
    IN  /\ Ready
        /\ \A i \in DOMAIN logs : i <= lastLog => GetLog(raftLog, i) # ErrLogNotFound
        /\ missing # {}
        /\ IF from <= lastLog
           THEN /\ raftLog' = DeleteRange(raftLog, from, lastLog)
                /\ raft' = Appending(new)
                /\ UNCHANGED lastLog
           ELSE /\ raftLog' = StoreLogs(raftLog, new)
                /\ lastLog' = CHOOSE i \in missing : \A j \in missing : i >= j
                /\ UNCHANGED raft
        /\ UNCHANGED <<raftStable, snapshot, compacting, granted, refused>>

AppendRest ==
    /\ raft.at = "append"
    /\ raftLog' = StoreLogs(raftLog, raft.logs)
    /\ lastLog' = CHOOSE i \in DOMAIN raft.logs : \A j \in DOMAIN raft.logs : i >= j
    /\ raft' = Running
    /\ UNCHANGED <<raftStable, snapshot, compacting, granted, refused>>

\* Goroutine "snapshots" has taken a snapshot of what is applied, which is in
\* the log.
TakeSnapshot(index) ==
    /\ raft.at \notin {"down", "bootstrap", "configure"}
    /\ compacting["snapshots"] = None
    /\ index \in snapshot + 1..LastIndex(raftLog)
    /\ snapshot' = index
    /\ compacting' = [compacting EXCEPT !["snapshots"] = Due(index)]
    /\ UNCHANGED <<raftLog, raftStable, lastLog, raft, granted, refused>>

\* The leader's snapshot is stored; it may be far ahead of the log.
InstallSnapshot(index) ==
    /\ Ready
    /\ index \in snapshot + 1..MaxIndex
    /\ snapshot' = index
    /\ compacting' = [compacting EXCEPT !["raft"] = Due(index)]
    /\ UNCHANGED <<raftLog, raftStable, lastLog, raft, granted, refused>>

\* compactLogs decides what to delete: nothing after the snapshot, nor any of the
\* last TrailingLogs entries.
CompactFrom(g) ==
    /\ compacting[g] # None
    /\ compacting[g].at = "due"
    /\ LET min == FirstIndex(raftLog)
           max == Lower(compacting[g].index, lastLog - TrailingLogs)
       IN  compacting' = [compacting EXCEPT
               ![g] = IF lastLog > TrailingLogs /\ min <= max THEN Deleting(min, max) ELSE None]
    /\ UNCHANGED <<raftLog, raftStable, snapshot, lastLog, raft, granted, refused>>

CompactDelete(g) ==
    /\ compacting[g] # None
    /\ compacting[g].at = "delete"
    /\ raftLog' = DeleteRange(raftLog, compacting[g].min, compacting[g].max)
    /\ compacting' = [compacting EXCEPT ![g] = None]
    /\ UNCHANGED <<raftStable, snapshot, lastLog, raft, granted, refused>>

-------------------------------------------------------------------------------
(* Terms and votes.                                                        *)

\* A later term is heard of, or begun.
NewTerm(term) ==
    /\ Ready
    /\ term > GetUint64(raftStable, "CurrentTerm")
    /\ raftStable' = SetUint64(raftStable, "CurrentTerm", term)
    /\ UNCHANGED <<raftLog, snapshot, lastLog, raft, compacting, granted, refused>>

VotedIn(term) ==
    /\ GetUint64(raftStable, "LastVoteTerm") = term
    /\ HasValue(raftStable, "LastVoteCand")

\* Candidate c asks for the vote again, and gets it if it is c's.
VoteAgain(c) ==
    LET term == GetUint64(raftStable, "CurrentTerm") IN
    /\ Ready
    /\ VotedIn(term)
    /\ Get(raftStable, "LastVoteCand") = c
    /\ granted' = granted \cup {<<term, c>>}
    /\ UNCHANGED <<raftLog, raftStable, snapshot, lastLog, raft, compacting, refused>>

\* A vote is stored in two transactions before it is granted.
Vote(c) ==
    LET term == GetUint64(raftStable, "CurrentTerm") IN
    /\ Ready
    /\ term > 0
    /\ ~VotedIn(term)
    /\ raftStable' = SetUint64(raftStable, "LastVoteTerm", term)
    /\ raft' = Voting(term, c)
    /\ UNCHANGED <<raftLog, snapshot, lastLog, compacting, granted, refused>>

VoteGranted ==
    /\ raft.at = "vote"
    /\ raftStable' = Set(raftStable, "LastVoteCand", raft.candidate)
    /\ granted' = granted \cup {<<raft.term, raft.candidate>>}
    /\ raft' = Running
    /\ UNCHANGED <<raftLog, snapshot, lastLog, compacting, refused>>

-------------------------------------------------------------------------------
Next ==
    \/ \E bootstrap \in BOOLEAN : Start(bootstrap)
    \/ BootstrapRefused
    \/ BootstrapTerm
    \/ \E e \in Entry : BootstrapConfiguration(e)
    \/ Crash
    \/ \E first, last \in snapshot + 1..MaxIndex :
          /\ first <= LastKnown + 1
          /\ \E logs \in [first..last -> Entry] : AppendEntries(logs)
    \/ AppendRest
    \/ \E i \in Indexes : TakeSnapshot(i) \/ InstallSnapshot(i)
    \/ \E g \in Goroutine : CompactFrom(g) \/ CompactDelete(g)
    \/ \E term \in 1..MaxTerm : NewTerm(term)
    \/ \E c \in Candidate : VoteAgain(c) \/ Vote(c)
    \/ VoteGranted

Spec == Init /\ [][Next]_vars

-------------------------------------------------------------------------------
\* The keys of the log are those of indexes, and Raft's copy of the last index
\* is right but while it replaces entries.
TypeOK ==
    /\ DOMAIN raftLog \subseteq {uint64ToBytes(i) : i \in Indexes}
    /\ \A k \in DOMAIN raftLog : raftLog[k] \in Entry
    /\ DOMAIN raftStable \subseteq {"CurrentTerm", "LastVoteTerm", "LastVoteCand"}
    /\ snapshot \in 0..MaxIndex
    /\ raft.at \in {"running", "vote"} => lastLog = LastIndex(raftLog)
    /\ granted \subseteq (1..MaxTerm) \X Candidate

\* A crash at any moment leaves a log that NewRaft can start from: it reads every
\* entry from the snapshot to the last index, and gives up on one it misses.
LogReadable ==
    \A i \in snapshot + 1..LastIndex(raftLog) : GetLog(raftLog, i) # ErrLogNotFound

\* Whatever is compacted and whenever the node crashes, what Raft finds on disk
\* is the log that was stored, with nothing lost from it but what the leader
\* took back.
Log == INSTANCE DurableLog
    WITH Index <- 0..MaxIndex,
         start <- snapshot,
         end <- Higher(snapshot, LastIndex(raftLog)),
         entry <- [i \in snapshot + 1..LastIndex(raftLog) |-> GetLog(raftLog, i)]

IsDurableLog == Log!Spec

\* A node that crashes while it votes never votes for two candidates in a term,
\* although the term and the candidate of a vote are stored one after the other.
OneVotePerTerm ==
    \A v, w \in granted : v[1] = w[1] => v[2] = w[2]

\* "ErrCantBootstrap means the cluster already exists" (cluster.go:136): where
\* bootstrapping is refused there is a configuration, in the log or a snapshot.
CantBootstrapMeansCluster ==
    refused => LastIndex(raftLog) > 0 \/ snapshot > 0

===============================================================================
