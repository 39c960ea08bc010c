------------------------- MODULE DocumentStateMachine -------------------------
(***************************************************************************)
(* The Raft state machine of internal/fsm, as the pure functions its       *)
(* handlers compute under the lock: a state is a record, and Apply,        *)
(* Snapshot and Restore map states to states.  Modules that run several    *)
(* replicas of it keep one such record per node.                           *)
(***************************************************************************)
EXTENDS Changesets

CONSTANT Client     \* the client ids

\* The highest submission of a client that has none in the map: submission ids
\* are non-negative, and lookup reports whether the key is there.
Unseen == -1

NewDocumentStateMachine(initialText) ==
    [headText |-> initialText,
     headRev |-> 0,
     revisionLog |-> <<>>,
     clientLastSubmission |-> [c \in Client |-> Unseen]]

\* A committed log entry: the raw submission of a client.
RaftLogEntry ==
    [client : Client, sub : Nat, base : Nat, changeset : Changeset]

-------------------------------------------------------------------------------
(* Apply.                                                                  *)

\* The idempotency guard.
\* (Mutant: < for <=, so the latest submission passes again.)
IsDuplicateStrict(s, e) ==
    LET lastSub == s.clientLastSubmission[e.client]
    IN  lastSub # Unseen /\ e.sub < lastSub
IsDuplicate(s, e) ==
    LET lastSub == s.clientLastSubmission[e.client]
    IN  lastSub # Unseen /\ e.sub <= lastSub

\* The entry's changeset caught up from its base revision to the head.
\* (Mutant: the catch-up starts one revision late.)
TransformedLate(s, e) ==
    LET caught[r \in 0..s.headRev] ==
            IF r <= e.base + 1 THEN e.changeset
            ELSE Follow(s.revisionLog[r].changeset, caught[r - 1])
    IN  caught[s.headRev]
Transformed(s, e) ==
    LET caught[r \in 0..s.headRev] ==
            IF r <= e.base THEN e.changeset
            ELSE Follow(s.revisionLog[r].changeset, caught[r - 1])
    IN  caught[s.headRev]

\* What becomes of an entry: "failed" is the return of nil after an error.
Outcome(s, e) ==
    CASE IsDuplicate(s, e) -> "duplicate"
      [] ~IsDuplicate(s, e) /\ Applicable(s.headText, Transformed(s, e)) -> "applied"
      [] OTHER -> "failed"

RevisionRecord(s, e, C) == [rev |-> s.headRev, changeset |-> C, source |-> e.client]

\* The state after an entry whose transformed changeset C applies.
\* (Mutants: the log keeps the changeset as submitted; the head revision stays.)
AcceptRaw(s, e, C) ==
    [headText |-> ApplyChangeset(s.headText, C),
     headRev |-> s.headRev + 1,
     revisionLog |-> Append(s.revisionLog, RevisionRecord(s, e, e.changeset)),
     clientLastSubmission |-> [s.clientLastSubmission EXCEPT ![e.client] = e.sub]]
AcceptSameRev(s, e, C) ==
    [headText |-> ApplyChangeset(s.headText, C),
     headRev |-> s.headRev,
     revisionLog |-> Append(s.revisionLog, RevisionRecord(s, e, C)),
     clientLastSubmission |-> [s.clientLastSubmission EXCEPT ![e.client] = e.sub]]
Accept(s, e, C) ==
    [headText |-> ApplyChangeset(s.headText, C),
     headRev |-> s.headRev + 1,
     revisionLog |-> Append(s.revisionLog, RevisionRecord(s, e, C)),
     clientLastSubmission |-> [s.clientLastSubmission EXCEPT ![e.client] = e.sub]]

ApplyEntry(s, e) ==
    IF Outcome(s, e) = "applied" THEN Accept(s, e, Transformed(s, e)) ELSE s

-------------------------------------------------------------------------------
(* Snapshot, Persist and Restore.                                          *)

\* The data Snapshot captures: every field, the slice and the map copied.
SnapshotData(s) ==
    [HeadRev |-> s.headRev, HeadText |-> s.headText,
     RevisionLog |-> s.revisionLog,
     ClientLastSubmission |-> s.clientLastSubmission]

\* What Persist writes of captured data when the state machine has since moved
\* on to s: the data alone, because Snapshot copied the map.
\* (Mutant: the map shared with the running state machine.)
PersistedShared(data, s) ==
    [data EXCEPT !.ClientLastSubmission = s.clientLastSubmission]
Persisted(data, s) == data

\* (Mutant: the submissions are not restored.)
RestoreForgets(data) ==
    [headText |-> data.HeadText, headRev |-> data.HeadRev,
     revisionLog |-> data.RevisionLog,
     clientLastSubmission |-> [c \in Client |-> Unseen]]
Restore(data) ==
    [headText |-> data.HeadText, headRev |-> data.HeadRev,
     revisionLog |-> data.RevisionLog,
     clientLastSubmission |-> data.ClientLastSubmission]

-------------------------------------------------------------------------------
(* What is read of the revision log.                                       *)

\* RevisionsSince, as changesets.
RevisionsSince(s, fromRev) ==
    [i \in 1..s.headRev - fromRev |-> s.revisionLog[fromRev + i].changeset]

\* apply_all(empty, revision_log[*].Changeset) of the invariants in fsm.go, up
\* to revision r.
ReplayTo(s, r) ==
    LET text[i \in 0..r] ==
            IF i = 0 THEN <<>>
            ELSE ApplyChangeset(text[i - 1], s.revisionLog[i].changeset)
    IN  text[r]

===============================================================================
