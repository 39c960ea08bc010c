-------------------------- MODULE ReplicatedDocument --------------------------
(***************************************************************************)
(* The document state machine replicated by Raft.                          *)
(*                                                                         *)
(* Raft itself (hashicorp/raft, external) is its contract: log is the one  *)
(* sequence of committed entries, and each node's state machine is given a *)
(* prefix of it, in order, by one goroutine - starting over from its last  *)
(* persisted snapshot when the node restarts, or jumping to the leader's   *)
(* snapshot when it is too far behind.  The state machine is the code's.   *)
(*                                                                         *)
(* Clients are as free as the servers let them be.  A submission is read   *)
(* off some revision a node has published and reaches the log any time     *)
(* later, or again (a retry after a lost acknowledgement), or out of       *)
(* order; and, because client.js can rebase an edit it should not, the     *)
(* changeset need not even fit the base revision it names.                 *)
(***************************************************************************)
EXTENDS DocumentStateMachine, ChangesetForms

CONSTANTS
    Node,       \* the servers
    Texts,      \* the texts a user may leave in an editor
    MaxSub,     \* bound: submission ids are in 1..MaxSub
    MaxLog,     \* bound: committed entries
    SnapshotIndexes,    \* bound: where Raft may ask a node for a snapshot
    Misbased    \* bound: whether edits are also sent with a base revision
                \* other than the one they were made on

ASSUME ConstantsAssumption ==
    /\ Texts \subseteq Text
    /\ MaxSub \in Nat /\ MaxLog \in Nat
    /\ SnapshotIndexes \subseteq Nat \ {0}
    /\ Misbased \in BOOLEAN

VARIABLES
    log,        \* the committed entries (external: Raft)
    applied,    \* applied[n]: how many of them node n has applied (external)
    fsm,        \* fsm[n]: the state machine of node n
    capture,    \* capture[n]: the FSMSnapshot being persisted by n, or none
    snapshot,   \* snapshot[n]: the latest snapshot in n's snapshot store
    canon       \* history: canon[i + 1] is the state of the node that was the
                \* first to apply entry i, right after it

vars == <<log, applied, fsm, capture, snapshot, canon>>

Fresh == NewDocumentStateMachine(<<>>)

\* A snapshot is its data with the index of the last entry in it.  Index 0 is
\* an empty snapshot store: a node starts with main.go's fresh state machine.
SnapshotAt(i, s) == [index |-> i, data |-> SnapshotData(s)]
NoCapture == [index |-> -1, data |-> SnapshotData(Fresh)]

Init ==
    /\ log = <<>>
    /\ applied = [n \in Node |-> 0]
    /\ fsm = [n \in Node |-> Fresh]
    /\ capture = [n \in Node |-> NoCapture]
    /\ snapshot = [n \in Node |-> SnapshotAt(0, Fresh)]
    /\ canon = <<Fresh>>

-------------------------------------------------------------------------------
\* The furthest state any node has reached: what clients may have seen of it
\* are its revisions.
Published == canon[Len(canon)]

\* The submission of an edit from revision `from` to the text t, sent as based
\* on revision `base`, is committed.
Commit(c, sub, base, from, t) ==
    /\ Len(log) < MaxLog
    /\ Misbased \/ base = from
    /\ log' = Append(log,
                [client |-> c, sub |-> sub, base |-> base,
                 changeset |-> DiffToChangeset(ReplayTo(Published, from), t)])
    /\ UNCHANGED <<applied, fsm, capture, snapshot, canon>>

\* Raft hands node n the next committed entry.
Apply(n) ==
    LET next == applied[n] + 1
        result == ApplyEntry(fsm[n], log[next])
    IN  /\ next <= Len(log)
        /\ fsm' = [fsm EXCEPT ![n] = result]
        /\ applied' = [applied EXCEPT ![n] = next]
        /\ canon' = IF next = Len(canon) THEN Append(canon, result) ELSE canon
        /\ UNCHANGED <<log, capture, snapshot>>

\* Raft asks for a snapshot; applying goes on while it is written.
Snapshot(n) ==
    /\ capture[n] = NoCapture
    /\ applied[n] \in SnapshotIndexes
    /\ capture' = [capture EXCEPT ![n] = SnapshotAt(applied[n], fsm[n])]
    /\ UNCHANGED <<log, applied, fsm, snapshot, canon>>

\* The snapshot store lists the snapshot of the highest index first.
Newer(a, b) == IF a.index > b.index THEN a ELSE b

Persist(n) ==
    /\ capture[n] # NoCapture
    /\ snapshot' = [snapshot EXCEPT ![n] =
            Newer([capture[n] EXCEPT !.data = Persisted(@, fsm[n])], @)]
    /\ capture' = [capture EXCEPT ![n] = NoCapture]
    /\ UNCHANGED <<log, applied, fsm, canon>>

\* Writing fails and the sink is cancelled.
PersistFails(n) ==
    /\ capture[n] # NoCapture
    /\ capture' = [capture EXCEPT ![n] = NoCapture]
    /\ UNCHANGED <<log, applied, fsm, snapshot, canon>>

\* The state machine of a starting node.
Started(snap) == IF snap.index = 0 THEN Fresh ELSE Restore(snap.data)

\* Node n crashes, at any point, and starts again: what it had in memory is
\* gone, and the entries after its snapshot are given to it once more.
Restart(n) ==
    /\ fsm' = [fsm EXCEPT ![n] = Started(snapshot[n])]
    /\ applied' = [applied EXCEPT ![n] = snapshot[n].index]
    /\ capture' = [capture EXCEPT ![n] = NoCapture]
    /\ UNCHANGED <<log, snapshot, canon>>

\* The leader m no longer has the entries n lacks, and sends its snapshot.
InstallSnapshot(m, n) ==
    /\ snapshot[m].index > applied[n]
    /\ fsm' = [fsm EXCEPT ![n] = Restore(snapshot[m].data)]
    /\ applied' = [applied EXCEPT ![n] = snapshot[m].index]
    /\ snapshot' = [snapshot EXCEPT ![n] = snapshot[m]]
    /\ UNCHANGED <<log, capture, canon>>

Next ==
    \/ \E c \in Client, sub \in 1..MaxSub, t \in Texts :
          \E base, from \in 0..Published.headRev : Commit(c, sub, base, from, t)
    \/ \E n \in Node : Apply(n)
    \/ \E n \in Node : Snapshot(n)
    \/ \E n \in Node : Persist(n)
    \/ \E n \in Node : PersistFails(n)
    \/ \E n \in Node : Restart(n)
    \/ \E m, n \in Node : InstallSnapshot(m, n)

Spec == Init /\ [][Next]_vars

-------------------------------------------------------------------------------
\* A state of the state machine: the head revision counts the revision log, and
\* each record has the number of the revision it was applied to (fsm.go:38-43).
IsState(s) ==
    /\ s.headRev \in Nat
    /\ DOMAIN s.revisionLog = 1..s.headRev
    /\ \A r \in 1..s.headRev : /\ s.revisionLog[r].rev = r - 1
                               /\ s.revisionLog[r].source \in Client
    /\ s.clientLastSubmission \in [Client -> {Unseen} \cup 1..MaxSub]

\* The types: every replica is in a state, at an entry of the log.
TypeOK ==
    /\ \A n \in Node : IsState(fsm[n])
    /\ applied \in [Node -> 0..Len(log)]
    /\ Len(canon) \in 1..Len(log) + 1
    /\ \A i \in DOMAIN log : log[i].client \in Client /\ log[i].sub \in 1..MaxSub

\* Key invariant 2 of fsm.go: nodes that have applied the same entries are in
\* the same state - text, revisions and submissions - by whatever way they got
\* there: replay, restart from a snapshot, or a snapshot of the leader.
ReplicasAgree ==
    \A m, n \in Node : applied[m] = applied[n] => fsm[m] = fsm[n]

\* The revisions of t are those of s and later ones.
Extends(s, t) ==
    /\ s.headRev <= t.headRev
    /\ \A r \in 1..s.headRev : t.revisionLog[r] = s.revisionLog[r]

\* A revision some node has published (in a broadcast or a catch-up) is the
\* same on every node that has it, also after crashes that take every node back
\* behind it: clients rebase on it (fsm.go:186).
RevisionsAgree ==
    \A n \in Node : Extends(fsm[n], Published)

\* A snapshot is the state at its index, although entries were applied while it
\* was being written (the deep copy of fsm.go:206).
SnapshotsAreCuts ==
    \A n \in Node :
        /\ snapshot[n].data = SnapshotData(canon[snapshot[n].index + 1])
        /\ capture[n] # NoCapture =>
              capture[n].data = SnapshotData(canon[capture[n].index + 1])

\* Key invariant 1 of fsm.go: the text is that of the revision log applied to
\* the empty text.
HeadTextIsReplay ==
    \A n \in Node : fsm[n].headText = ReplayTo(fsm[n], fsm[n].headRev)

\* The entries the replicated document has applied, by their index.
Took(i) == Outcome(canon[i], log[i]) = "applied"
Entries == 1..Len(canon) - 1

\* Key invariant 3 of fsm.go: a submission is applied once, however often it is
\* sent and committed, and a client's submissions are applied in their order.
AppliedOnceInOrder ==
    \A i, j \in Entries :
        i < j /\ Took(i) /\ Took(j) /\ log[i].client = log[j].client
            => log[i].sub < log[j].sub

\* The entry was made on the revision it names.
Fitting(i) == Applicable(ReplayTo(canon[i], log[i].base), log[i].changeset)

\* Whatever was committed before it, an entry that fits the revision it names
\* never ends in one of the error returns of Apply, which would leave its
\* author without an answer; nor is its base ahead of the state machine.
FittingEntriesApply ==
    \A i \in Entries :
        /\ log[i].base <= canon[i].headRev
        /\ Fitting(i) => Outcome(canon[i], log[i]) # "failed"

\* The text a changeset inserts.
Typed(c) == Inserted(c.ops)

\* Catching an entry up with concurrent revisions loses nothing that its author
\* typed (an insertion is preserved unchanged, follow.go:147-148).
TypedTextSurvives ==
    \A i \in Entries :
        Took(i) /\ Fitting(i) =>
            Typed(canon[i + 1].revisionLog[canon[i + 1].headRev].changeset)
                = Typed(log[i].changeset)

-------------------------------------------------------------------------------
(* The servers together are one shared document.                           *)

\* Entry i made revision r.
Made(i, r) == canon[i].headRev = r - 1 /\ canon[i + 1].headRev = r

EntryOf(r) == CHOOSE i \in Entries : Made(i, r)

RevisionBy(i) ==
    [author |-> log[i].client, sub |-> log[i].sub, text |-> canon[i + 1].headText]

Revisions == [r \in 1..Published.headRev |-> RevisionBy(EntryOf(r))]

Shown == [n \in Node |-> [rev |-> fsm[n].headRev, text |-> fsm[n].headText]]

Document == INSTANCE SharedDocument
    WITH Server <- Node, Author <- Client, Id <- 1..MaxSub,
         revisions <- Revisions, shown <- Shown

\* Whatever nodes apply, lose and restore, and however often entries are repeated,
\* what the servers show is one document whose revisions never change, each
\* made by one submission, those of an author in order.
IsSharedDocument == Document!Spec

===============================================================================
