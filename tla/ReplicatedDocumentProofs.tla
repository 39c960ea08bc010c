----------------------- MODULE ReplicatedDocumentProofs -----------------------
(***************************************************************************)
(* Proofs about ReplicatedDocument, for any nodes, clients, texts and      *)
(* bounds: that the replicas agree, for which it is enough that each       *)
(* computes the same from the same data; that their texts are those of     *)
(* their revision logs, and their revisions what the clients typed, for    *)
(* which Follow must be looked into; and that ReplicatedDocument           *)
(* implements SharedDocument.                                              *)
(***************************************************************************)
EXTENDS ReplicatedDocument, DocumentStateMachineProofs

-------------------------------------------------------------------------------
(* The inductive invariant.                                                *)

\* A state is a record of four fields, whose revision log is a sequence.
IsMachine(s) ==
    /\ s = [headText |-> s.headText, headRev |-> s.headRev,
            revisionLog |-> s.revisionLog,
            clientLastSubmission |-> s.clientLastSubmission]
    /\ IsSeq(s.revisionLog)
    /\ IsState(s)

LogOK ==
    /\ IsSeq(log)
    /\ \A i \in 1..Len(log) : log[i].client \in Client /\ log[i].sub \in 1..MaxSub

\* The history is the run of one state machine over the log.
CanonOK ==
    /\ IsSeq(canon)
    /\ Len(canon) \in 1..Len(log) + 1
    /\ canon[1] = Fresh
    /\ \A i \in 1..Len(canon) : IsMachine(canon[i])
    /\ \A i \in 1..Len(canon) - 1 : canon[i + 1] = ApplyEntry(canon[i], log[i])

\* Each replica is where that run was after the entries it has applied.
ReplicasOK ==
    /\ applied \in [Node -> 0..Len(canon) - 1]
    /\ fsm = [n \in Node |-> canon[applied[n] + 1]]

\* A snapshot is the run's state at its index.
IsCut(snap) == \E i \in 0..Len(canon) - 1 : snap = SnapshotAt(i, canon[i + 1])

SnapshotsOK ==
    /\ DOMAIN snapshot = Node
    /\ snapshot = [n \in Node |-> snapshot[n]]
    /\ \A n \in Node : IsCut(snapshot[n])

CapturesOK ==
    /\ capture = [n \in Node |-> capture[n]]
    /\ \A n \in Node : capture[n] = NoCapture \/ IsCut(capture[n])

\* The submissions remembered in a state are no older than any entry applied
\* before it: what the guard of Apply needs to stop every repetition.
LastOK ==
    \A i \in 1..Len(canon) - 1 : \A j \in i + 1..Len(canon) :
        Took(i) => log[i].sub <= canon[j].clientLastSubmission[log[i].client]

\* Along the history, revisions are only added.
PrefixOK ==
    \A i \in 1..Len(canon) : \A j \in i..Len(canon) : Extends(canon[i], canon[j])

IInv == /\ LogOK /\ CanonOK
        /\ ReplicasOK /\ SnapshotsOK /\ CapturesOK
        /\ LastOK /\ PrefixOK

-------------------------------------------------------------------------------
(* The state machine.                                                      *)

\* The state machine starts in a state.
LEMMA FreshIsMachine == IsMachine(Fresh)
<1>1. IsSeq(<< >>) /\ DOMAIN << >> = {}
  BY DEF IsSeq
<1>2. Fresh = [headText |-> << >>, headRev |-> 0, revisionLog |-> << >>,
               clientLastSubmission |-> [c \in Client |-> Unseen]]
  BY DEF Fresh, NewDocumentStateMachine
<1>3. IsState(Fresh)
  BY <1>1, <1>2 DEF IsState
<1>. QED
  BY <1>1, <1>2, <1>3 DEF IsMachine

\* An accepted entry leads from a state to a state.
LEMMA ApplyIsMachine ==
    ASSUME NEW s, IsMachine(s), NEW e, e.client \in Client, e.sub \in 1..MaxSub
    PROVE  IsMachine(ApplyEntry(s, e))
<1>1. CASE Outcome(s, e) # "applied"
  BY <1>1 DEF ApplyEntry
<1>2. CASE Outcome(s, e) = "applied"
  <2> DEFINE C == Transformed(s, e)
             rec == RevisionRecord(s, e, C)
             t == Accept(s, e, C)
  <2>1. ApplyEntry(s, e) = t
    BY <1>2 DEF ApplyEntry
  <2>2. t = [headText |-> t.headText, headRev |-> t.headRev,
             revisionLog |-> t.revisionLog,
             clientLastSubmission |-> t.clientLastSubmission]
        /\ t.headRev = s.headRev + 1
        /\ t.revisionLog = Append(s.revisionLog, rec)
        /\ t.clientLastSubmission = [s.clientLastSubmission EXCEPT ![e.client] = e.sub]
    BY DEF Accept
  <2>3. rec.rev = s.headRev /\ rec.source = e.client
    BY DEF RevisionRecord
  <2>4. IsSeq(s.revisionLog) /\ IsState(s)
    BY DEF IsMachine
  <2> HIDE DEF t, rec, C
  <2>5. s.headRev \in Nat /\ DOMAIN s.revisionLog = 1..s.headRev
    BY <2>4 DEF IsState
  <2>6. Len(s.revisionLog) = s.headRev
    BY <2>4, <2>5, AppendSeq
  <2>7. IsSeq(t.revisionLog)
    BY <2>2, <2>4, AppendSeq
  <2>8. IsState(t)
    <3>1. DOMAIN t.revisionLog = 1..t.headRev
      BY <2>2, <2>4, <2>5, <2>6, AppendSeq
    <3>2. \A r \in 1..t.headRev : t.revisionLog[r].rev = r - 1
                                 /\ t.revisionLog[r].source \in Client
      <4>1. \A r \in 1..s.headRev : t.revisionLog[r] = s.revisionLog[r]
        BY <2>2, <2>4, <2>6, AppendSeq
      <4>2. t.revisionLog[s.headRev + 1] = rec
        BY <2>2, <2>4, <2>6, AppendSeq
      <4>. QED
        BY <4>1, <4>2, <2>2, <2>3, <2>4, <2>5 DEF IsState
    <3>3. t.clientLastSubmission \in [Client -> {Unseen} \cup 1..MaxSub]
      BY <2>2, <2>4 DEF IsState
    <3>. QED
      BY <2>2, <2>5, <3>1, <3>2, <3>3 DEF IsState
  <2>. QED
    BY <2>1, <2>2, <2>7, <2>8 DEF IsMachine
<1>. QED
  BY <1>1, <1>2

\* A snapshot restores the state it captured.
LEMMA RestoreSnapshot ==
    ASSUME NEW s, IsMachine(s)
    PROVE  Restore(SnapshotData(s)) = s
BY DEF IsMachine, Restore, SnapshotData

\* An applied entry is newer than what is remembered of its client, and is then
\* what is remembered; of every client, what is remembered never gets older.
LEMMA LastGrows ==
    ASSUME NEW s, IsMachine(s), NEW e, e.client \in Client, e.sub \in 1..MaxSub
    PROVE  LET t == ApplyEntry(s, e) IN
           /\ \A c \in Client : s.clientLastSubmission[c] <= t.clientLastSubmission[c]
           /\ Outcome(s, e) = "applied" =>
                 /\ s.clientLastSubmission[e.client] < e.sub
                 /\ t.clientLastSubmission[e.client] = e.sub
<1> DEFINE t == ApplyEntry(s, e)
           last == s.clientLastSubmission
<1>0. last \in [Client -> {Unseen} \cup 1..MaxSub] /\ Unseen = -1 /\ MaxSub \in Nat
  BY ConstantsAssumption DEF IsMachine, IsState, Unseen
<1>1. CASE Outcome(s, e) # "applied"
  BY <1>0, <1>1 DEF ApplyEntry
<1>2. CASE Outcome(s, e) = "applied"
  <2>1. ~IsDuplicate(s, e)
    BY <1>2 DEF Outcome
  <2>2. last[e.client] < e.sub
    BY <1>0, <2>1 DEF IsDuplicate
  <2>3. t.clientLastSubmission = [last EXCEPT ![e.client] = e.sub]
    BY <1>2 DEF ApplyEntry, Accept
  <2>. QED
    BY <1>0, <2>2, <2>3
<1>. QED
  BY <1>1, <1>2

\* Applying an entry keeps the revisions there are.
LEMMA ApplyExtends ==
    ASSUME NEW s, IsMachine(s), NEW e
    PROVE  Extends(s, ApplyEntry(s, e))
<1>0. IsSeq(s.revisionLog) /\ s.headRev \in Nat /\ Len(s.revisionLog) = s.headRev
  BY AppendSeq DEF IsMachine, IsState
<1>1. CASE Outcome(s, e) # "applied"
  BY <1>0, <1>1 DEF ApplyEntry, Extends
<1>2. CASE Outcome(s, e) = "applied"
  <2>1. PICK rec : /\ ApplyEntry(s, e).headRev = s.headRev + 1
                   /\ ApplyEntry(s, e).revisionLog = Append(s.revisionLog, rec)
    BY <1>2 DEF ApplyEntry, Accept
  <2>. QED
    BY <1>0, <2>1, AppendSeq DEF Extends
<1>. QED
  BY <1>1, <1>2

\* Extending is transitive.
LEMMA ExtendsTransitive ==
    ASSUME NEW s, NEW t, NEW u, Extends(s, t), Extends(t, u),
           s.headRev \in Nat, t.headRev \in Nat, u.headRev \in Nat
    PROVE  Extends(s, u)
BY DEF Extends

-------------------------------------------------------------------------------
(* The invariant holds initially and each action keeps it.                 *)

\* The servers start in the inductive invariant: no entry is applied and no snapshot is taken
\* (fsm.go, New).
THEOREM InitInv == Init => IInv
<1>. SUFFICES ASSUME Init PROVE IInv
  OBVIOUS
<1>1. IsSeq(<< >>) /\ Len(<< >>) = 0
  BY DEF IsSeq
<1>2. /\ IsSeq(<<Fresh>>) /\ Len(<<Fresh>>) = 1 /\ <<Fresh>>[1] = Fresh
  BY DEF IsSeq
<1>. USE DEF Init
<1>3. LogOK
  BY <1>1 DEF LogOK
<1>4. CanonOK
  BY <1>1, <1>2, FreshIsMachine DEF CanonOK
<1>5. ReplicasOK
  BY <1>2 DEF ReplicasOK
<1>6. SnapshotsOK
  BY <1>2 DEF SnapshotsOK, IsCut
<1>7. CapturesOK
  BY DEF CapturesOK
<1>8. LastOK
  BY <1>2 DEF LastOK
<1>9. PrefixOK
  <2>1. Fresh.headRev \in Nat
    BY FreshIsMachine DEF IsMachine, IsState
  <2>2. Extends(Fresh, Fresh)
    BY <2>1 DEF Extends
  <2>. QED
    BY <1>2, <2>2 DEF PrefixOK
<1>. QED
  BY <1>3, <1>4, <1>5, <1>6, <1>7, <1>8, <1>9 DEF IInv

\* A committed entry changes nothing for the entries before it.
LEMMA CommitInv ==
    ASSUME IInv, NEW c \in Client, NEW sub \in 1..MaxSub, NEW base, NEW from, NEW t,
           Commit(c, sub, base, from, t)
    PROVE  IInv'
<1> DEFINE e == [client |-> c, sub |-> sub, base |-> base,
                 changeset |-> DiffToChangeset(ReplayTo(Published, from), t)]
<1>1. log' = Append(log, e) /\ UNCHANGED <<applied, fsm, capture, snapshot, canon>>
  BY DEF Commit
<1>2. e.client = c /\ e.sub = sub
  OBVIOUS
<1> HIDE DEF e
<1>3. /\ IsSeq(log') /\ Len(log) \in Nat /\ Len(log') = Len(log) + 1
      /\ \A i \in 1..Len(log) : log'[i] = log[i]
      /\ log'[Len(log) + 1] = e
  BY <1>1, AppendSeq DEF IInv, LogOK
<1>4. LogOK'
  BY <1>2, <1>3 DEF IInv, LogOK
<1>5. Len(canon) \in 1..Len(log) + 1
  BY DEF IInv, CanonOK
<1>6. \A i \in 1..Len(canon) - 1 : log'[i] = log[i]
  BY <1>3, <1>5
<1>7. CanonOK'
  BY <1>1, <1>3, <1>5, <1>6 DEF IInv, CanonOK
<1>8. ReplicasOK' /\ SnapshotsOK' /\ CapturesOK'
  BY <1>1 DEF IInv, ReplicasOK, SnapshotsOK, CapturesOK, IsCut
<1>9. LastOK'
  BY <1>1, <1>6 DEF IInv, LastOK, Took
<1>10. PrefixOK'
  BY <1>1 DEF IInv, PrefixOK
<1>. QED
  BY <1>4, <1>7, <1>8, <1>9, <1>10 DEF IInv

\* The next state of a replica is the next state of the history, which it
\* extends if no replica has been there.
LEMMA ApplyInv ==
    ASSUME IInv, NEW n \in Node, Apply(n)
    PROVE  IInv'
<1> DEFINE next == applied[n] + 1
           e == log[next]
           result == ApplyEntry(fsm[n], e)
<1>1. /\ next <= Len(log)
      /\ fsm' = [fsm EXCEPT ![n] = result]
      /\ applied' = [applied EXCEPT ![n] = next]
      /\ canon' = IF next = Len(canon) THEN Append(canon, result) ELSE canon
      /\ UNCHANGED <<log, capture, snapshot>>
  BY DEF Apply
<1>2. /\ IsSeq(canon) /\ Len(canon) \in Nat /\ Len(log) \in Nat
      /\ Len(canon) \in 1..Len(log) + 1
  BY AppendSeq DEF IInv, LogOK, CanonOK
<1>3. /\ applied \in [Node -> 0..Len(canon) - 1]
      /\ fsm = [m \in Node |-> canon[applied[m] + 1]]
  BY DEF IInv, ReplicasOK
<1>4. next \in 1..Len(canon) /\ fsm[n] = canon[next]
  BY <1>2, <1>3
<1>5. IsMachine(canon[next]) /\ e.client \in Client /\ e.sub \in 1..MaxSub
  BY <1>1, <1>2, <1>4 DEF IInv, CanonOK, LogOK
<1>6. result = ApplyEntry(canon[next], e)
  BY <1>4
<1>7. IsMachine(result)
  BY <1>5, <1>6, ApplyIsMachine
<1>8. LogOK'
  BY <1>1 DEF IInv, LogOK
<1>9. CASE next # Len(canon)
  <2>1. canon' = canon /\ next \in 1..Len(canon) - 1
    BY <1>1, <1>2, <1>4, <1>9
  <2>2. result = canon[next + 1]
    BY <1>6, <2>1 DEF IInv, CanonOK
  <2> HIDE DEF result, e
  <2>3. CanonOK' /\ SnapshotsOK' /\ CapturesOK' /\ LastOK' /\ PrefixOK'
    <3>1. CanonOK'
      BY <1>1, <2>1 DEF IInv, CanonOK
    <3>2. SnapshotsOK' /\ CapturesOK'
      BY <1>1, <2>1 DEF IInv, SnapshotsOK, CapturesOK, IsCut
    <3>3. LastOK'
      BY <1>1, <2>1 DEF IInv, LastOK, Took
    <3>4. PrefixOK'
      BY <2>1 DEF IInv, PrefixOK
    <3>. QED
      BY <3>1, <3>2, <3>3, <3>4
  <2>4. applied' \in [Node -> 0..Len(canon) - 1]
    BY <1>1, <1>2, <1>3, <2>1
  <2>5. fsm' = [m \in Node |-> canon[applied'[m] + 1]]
    BY <1>1, <1>2, <1>3, <2>1, <2>2
  <2>. QED
    BY <1>8, <2>1, <2>3, <2>4, <2>5 DEF IInv, ReplicasOK
<1>10. CASE next = Len(canon)
  <2> HIDE DEF result, e
  <2>1. canon' = Append(canon, result)
    BY <1>1, <1>10
  <2>2. /\ IsSeq(canon') /\ Len(canon') = Len(canon) + 1
        /\ \A i \in 1..Len(canon) : canon'[i] = canon[i]
        /\ canon'[Len(canon) + 1] = result
    BY <1>2, <2>1, AppendSeq
  <2>3. CanonOK'
    <3>1. Len(canon') \in 1..Len(log') + 1
      BY <1>1, <1>2, <1>10, <2>2
    <3>2. \A i \in 1..Len(canon') : IsMachine(canon'[i])
      BY <1>2, <1>7, <2>2 DEF IInv, CanonOK
    <3>3. \A i \in 1..Len(canon') - 1 : canon'[i + 1] = ApplyEntry(canon'[i], log'[i])
      <4>1. TAKE i \in 1..Len(canon') - 1
      <4>2. CASE i = Len(canon)
        BY <1>1, <1>2, <1>6, <1>10, <2>2, <4>2 DEF e
      <4>3. CASE i # Len(canon)
        <5>1. i \in 1..Len(canon) - 1 /\ canon'[i] = canon[i] /\ canon'[i + 1] = canon[i + 1]
          BY <1>2, <2>2, <4>3
        <5>. QED
          BY <1>1, <5>1 DEF IInv, CanonOK
      <4>. QED
        BY <4>2, <4>3
    <3>4. canon'[1] = Fresh
      BY <1>2, <2>2 DEF IInv, CanonOK
    <3>. QED
      BY <2>2, <3>1, <3>2, <3>3, <3>4 DEF CanonOK
  <2>4. ReplicasOK'
    <3>1. applied' \in [Node -> 0..Len(canon') - 1]
      BY <1>1, <1>2, <1>3, <1>10, <2>2
    <3>2. fsm' = [m \in Node |-> canon'[applied'[m] + 1]]
      BY <1>1, <1>2, <1>3, <1>10, <2>2, SMTT(40)
    <3>. QED
      BY <3>1, <3>2 DEF ReplicasOK
  <2>5. ASSUME NEW snap, IsCut(snap) PROVE IsCut(snap)'
    BY <1>2, <2>2, <2>5 DEF IsCut
  <2>6. SnapshotsOK' /\ CapturesOK'
    BY <1>1, <2>5 DEF IInv, SnapshotsOK, CapturesOK
  <2>7. LastOK'
    <3>1. /\ \A c \in Client : canon[Len(canon)].clientLastSubmission[c]
                                 <= result.clientLastSubmission[c]
          /\ Outcome(canon[Len(canon)], e) = "applied" =>
                result.clientLastSubmission[e.client] = e.sub
      BY <1>5, <1>6, <1>10, LastGrows
    <3>2. SUFFICES ASSUME NEW i \in 1..Len(canon') - 1, NEW j \in i + 1..Len(canon'),
                          Took(i)'
                   PROVE  log[i].sub <= canon'[j].clientLastSubmission[log[i].client]
      BY <1>1 DEF LastOK
    <3>3. CASE j # Len(canon')
      <4>1. /\ i \in 1..Len(canon) - 1 /\ j \in i + 1..Len(canon)
            /\ canon'[i] = canon[i] /\ canon'[j] = canon[j]
        BY <1>2, <2>2, <3>3
      <4>2. Took(i)
        BY <1>1, <3>2, <4>1 DEF Took
      <4>. QED
        BY <4>1, <4>2 DEF IInv, LastOK
    <3>4. CASE j = Len(canon') /\ i # Len(canon)
      <4>1. /\ i \in 1..Len(canon) - 1 /\ Len(canon) \in i + 1..Len(canon)
            /\ canon'[i] = canon[i] /\ canon'[j] = result
        BY <1>2, <2>2, <3>4
      <4>2. Took(i)
        BY <1>1, <3>2, <4>1 DEF Took
      <4>3. log[i].sub <= canon[Len(canon)].clientLastSubmission[log[i].client]
        BY <4>1, <4>2 DEF IInv, LastOK
      <4>4. log[i].client \in Client /\ log[i].sub \in Nat
        BY <1>2, <4>1, ConstantsAssumption, SMTT(40) DEF IInv, LogOK
      <4>5. /\ canon[Len(canon)].clientLastSubmission \in [Client -> {Unseen} \cup 1..MaxSub]
            /\ result.clientLastSubmission \in [Client -> {Unseen} \cup 1..MaxSub]
        BY <1>5, <1>7, <1>10 DEF IsMachine, IsState
      <4>6. {Unseen} \cup 1..MaxSub \subseteq Int
        BY ConstantsAssumption DEF Unseen
      <4>7. /\ canon[Len(canon)].clientLastSubmission[log[i].client] \in Int
            /\ result.clientLastSubmission[log[i].client] \in Int
        BY <4>4, <4>5, <4>6
      <4>. QED
        BY <3>1, <4>1, <4>3, <4>4, <4>7
    <3>5. CASE j = Len(canon') /\ i = Len(canon)
      <4>1. canon'[i] = canon[Len(canon)] /\ canon'[j] = result /\ log'[i] = e
        BY <1>1, <1>2, <1>10, <2>2, <3>5 DEF e
      <4>2. Outcome(canon[Len(canon)], e) = "applied"
        BY <3>2, <4>1 DEF Took
      <4>3. e.sub \in Int /\ log[i] = e
        BY <1>1, <1>5, <4>1, ConstantsAssumption
      <4>. QED
        BY <3>1, <4>1, <4>2, <4>3
    <3>. QED
      BY <3>3, <3>4, <3>5
  <2>8. PrefixOK'
    <3>1. SUFFICES ASSUME NEW i \in 1..Len(canon'), NEW j \in i..Len(canon')
                   PROVE  Extends(canon'[i], canon'[j])
      BY DEF PrefixOK
    <3>2. CASE j # Len(canon')
      <4>1. /\ i \in 1..Len(canon) /\ j \in i..Len(canon)
            /\ canon'[i] = canon[i] /\ canon'[j] = canon[j]
        BY <1>2, <2>2, <3>2
      <4>. QED
        BY <4>1 DEF IInv, PrefixOK
    <3>3. CASE j = Len(canon') /\ i # Len(canon')
      <4>1. /\ i \in 1..Len(canon) /\ Len(canon) \in i..Len(canon)
            /\ canon'[i] = canon[i] /\ canon'[j] = result
        BY <1>2, <2>2, <3>3
      <4>2. Extends(canon[i], canon[Len(canon)])
        BY <4>1 DEF IInv, PrefixOK
      <4>3. Extends(canon[Len(canon)], result)
        BY <1>5, <1>6, <1>10, ApplyExtends
      <4>4. /\ canon[i].headRev \in Nat /\ canon[Len(canon)].headRev \in Nat
            /\ result.headRev \in Nat
        BY <1>5, <1>7, <1>10, <4>1 DEF IInv, CanonOK, IsMachine, IsState
      <4>. QED
        BY <4>1, <4>2, <4>3, <4>4, ExtendsTransitive
    <3>4. CASE j = Len(canon') /\ i = Len(canon')
      <4>1. canon'[i] = result /\ canon'[j] = result
        BY <2>2, <3>4
      <4>. QED
        BY <1>7, <4>1 DEF Extends, IsMachine, IsState
    <3>. QED
      BY <3>2, <3>3, <3>4
  <2>. QED
    BY <1>8, <2>3, <2>4, <2>6, <2>7, <2>8 DEF IInv
<1>. QED
  BY <1>9, <1>10

\* What the actions that change neither the log nor the history must show.
LEMMA OthersInv ==
    ASSUME IInv, UNCHANGED <<log, canon>>, ReplicasOK', SnapshotsOK', CapturesOK'
    PROVE  IInv'
<1>1. LogOK'
  BY DEF IInv, LogOK
<1>2. CanonOK'
  BY DEF IInv, CanonOK
<1>3. LastOK'
  BY DEF IInv, LastOK, Took
<1>4. PrefixOK'
  BY DEF IInv, PrefixOK
<1>. QED
  BY <1>1, <1>2, <1>3, <1>4 DEF IInv

\* A capture is a cut at the index the replica has reached.
LEMMA SnapshotInv ==
    ASSUME IInv, NEW n \in Node, Snapshot(n)
    PROVE  IInv'
<1>1. /\ capture' = [capture EXCEPT ![n] = SnapshotAt(applied[n], fsm[n])]
      /\ UNCHANGED <<log, applied, fsm, snapshot, canon>>
  BY DEF Snapshot
<1>2. ReplicasOK' /\ SnapshotsOK'
  BY <1>1 DEF IInv, ReplicasOK, SnapshotsOK, IsCut
<1>3. IsCut(SnapshotAt(applied[n], fsm[n]))
  BY DEF IInv, ReplicasOK, IsCut
<1>4. \A snap : IsCut(snap)' <=> IsCut(snap)
  BY <1>1 DEF IsCut
<1>5. CapturesOK'
  BY <1>1, <1>3, <1>4 DEF IInv, CapturesOK
<1>. QED
  BY <1>1, <1>2, <1>5, OthersInv

\* What is persisted is what was captured, whatever was applied in between.
LEMMA PersistInv ==
    ASSUME IInv, NEW n \in Node, Persist(n) \/ PersistFails(n)
    PROVE  IInv'
<1>1. /\ capture[n] # NoCapture
      /\ capture' = [capture EXCEPT ![n] = NoCapture]
      /\ UNCHANGED <<log, applied, fsm, canon>>
  BY DEF Persist, PersistFails
<1>2. ReplicasOK'
  BY <1>1 DEF IInv, ReplicasOK
<1>3. \A snap : IsCut(snap)' <=> IsCut(snap)
  BY <1>1 DEF IsCut
<1>4. CapturesOK'
  BY <1>1, <1>3 DEF IInv, CapturesOK
<1>5. SnapshotsOK'
  <2>1. CASE PersistFails(n)
    BY <1>3, <2>1 DEF IInv, SnapshotsOK, PersistFails
  <2>2. CASE Persist(n)
    <3> DEFINE written == [capture[n] EXCEPT !.data = Persisted(@, fsm[n])]
    <3>1. IsCut(capture[n])
      BY <1>1 DEF IInv, CapturesOK
    <3>2. written = capture[n]
      BY <3>1 DEF IsCut, SnapshotAt, Persisted
    <3>3. snapshot' = [snapshot EXCEPT ![n] = Newer(written, @)]
      BY <2>2 DEF Persist
    <3> HIDE DEF written
    <3>4. IsCut(snapshot'[n])
      BY <3>1, <3>2, <3>3 DEF IInv, SnapshotsOK, Newer
    <3>. QED
      BY <1>3, <3>3, <3>4 DEF IInv, SnapshotsOK
  <2>. QED
    BY <2>1, <2>2
<1>. QED
  BY <1>1, <1>2, <1>4, <1>5, OthersInv

\* The state a cut restores is the history's at its index.
LEMMA RestoreCut ==
    ASSUME IInv, NEW snap, IsCut(snap)
    PROVE  /\ snap.index \in 0..Len(canon) - 1
           /\ Restore(snap.data) = canon[snap.index + 1]
           /\ Started(snap) = canon[snap.index + 1]
<1>1. PICK i \in 0..Len(canon) - 1 : snap = SnapshotAt(i, canon[i + 1])
  BY DEF IsCut
<1>2. snap.index = i /\ snap.data = SnapshotData(canon[i + 1])
  BY <1>1 DEF SnapshotAt
<1>3. Len(canon) \in Nat /\ canon[1] = Fresh
  BY AppendSeq DEF IInv, CanonOK
<1>4. IsMachine(canon[i + 1])
  BY <1>3 DEF IInv, CanonOK
<1>5. Restore(snap.data) = canon[i + 1]
  BY <1>2, <1>4, RestoreSnapshot
<1>. QED
  BY <1>2, <1>3, <1>5 DEF Started

\* A restarted node, and one that is sent a snapshot, is where the history was.
LEMMA RestartInv ==
    ASSUME IInv, NEW n \in Node, Restart(n)
    PROVE  IInv'
<1>1. /\ fsm' = [fsm EXCEPT ![n] = Started(snapshot[n])]
      /\ applied' = [applied EXCEPT ![n] = snapshot[n].index]
      /\ capture' = [capture EXCEPT ![n] = NoCapture]
      /\ UNCHANGED <<log, snapshot, canon>>
  BY DEF Restart
<1>2. IsCut(snapshot[n])
  BY DEF IInv, SnapshotsOK
<1>3. /\ snapshot[n].index \in 0..Len(canon) - 1
      /\ Started(snapshot[n]) = canon[snapshot[n].index + 1]
  BY <1>2, RestoreCut
<1>4. ReplicasOK'
  BY <1>1, <1>3 DEF IInv, ReplicasOK
<1>5. \A snap : IsCut(snap)' <=> IsCut(snap)
  BY <1>1 DEF IsCut
<1>6. SnapshotsOK' /\ CapturesOK'
  BY <1>1, <1>5 DEF IInv, SnapshotsOK, CapturesOK
<1>. QED
  BY <1>1, <1>4, <1>6, OthersInv

\* Installing another server's snapshot (Restore) keeps the inductive invariant.
LEMMA InstallSnapshotInv ==
    ASSUME IInv, NEW m \in Node, NEW n \in Node, InstallSnapshot(m, n)
    PROVE  IInv'
<1>1. /\ fsm' = [fsm EXCEPT ![n] = Restore(snapshot[m].data)]
      /\ applied' = [applied EXCEPT ![n] = snapshot[m].index]
      /\ snapshot' = [snapshot EXCEPT ![n] = snapshot[m]]
      /\ UNCHANGED <<log, capture, canon>>
  BY DEF InstallSnapshot
<1>2. IsCut(snapshot[m])
  BY DEF IInv, SnapshotsOK
<1>3. /\ snapshot[m].index \in 0..Len(canon) - 1
      /\ Restore(snapshot[m].data) = canon[snapshot[m].index + 1]
  BY <1>2, RestoreCut
<1>4. ReplicasOK'
  BY <1>1, <1>3 DEF IInv, ReplicasOK
<1>5. \A snap : IsCut(snap)' <=> IsCut(snap)
  BY <1>1 DEF IsCut
<1>6. SnapshotsOK' /\ CapturesOK'
  BY <1>1, <1>2, <1>5 DEF IInv, SnapshotsOK, CapturesOK
<1>. QED
  BY <1>1, <1>4, <1>6, OthersInv

\* Every step of the servers, Apply, Snapshot, Persist, Restore, crash and restart, keeps the
\* inductive invariant.
THEOREM NextInv == IInv /\ [Next]_vars => IInv'
<1>. SUFFICES ASSUME IInv, [Next]_vars PROVE IInv'
  OBVIOUS
<1>1. ASSUME NEW c \in Client, NEW sub \in 1..MaxSub, NEW t \in Texts,
             NEW base \in 0..Published.headRev, NEW from \in 0..Published.headRev,
             Commit(c, sub, base, from, t)
      PROVE  IInv'
  BY <1>1, CommitInv
<1>2. ASSUME NEW n \in Node, Apply(n) PROVE IInv'
  BY <1>2, ApplyInv
<1>3. ASSUME NEW n \in Node, Snapshot(n) PROVE IInv'
  BY <1>3, SnapshotInv
<1>4. ASSUME NEW n \in Node, Persist(n) \/ PersistFails(n) PROVE IInv'
  BY <1>4, PersistInv
<1>5. ASSUME NEW n \in Node, Restart(n) PROVE IInv'
  BY <1>5, RestartInv
<1>6. ASSUME NEW m \in Node, NEW n \in Node, InstallSnapshot(m, n) PROVE IInv'
  BY <1>6, InstallSnapshotInv
<1>7. CASE UNCHANGED vars
  <2>1. ReplicasOK' /\ SnapshotsOK' /\ CapturesOK'
    BY <1>7 DEF vars, IInv, ReplicasOK, SnapshotsOK, CapturesOK, IsCut
  <2>. QED
    BY <1>7, <2>1, OthersInv DEF vars
<1>. QED
  BY <1>1, <1>2, <1>3, <1>4, <1>5, <1>6, <1>7 DEF Next

\* The inductive invariant holds in every reachable state of the servers.
THEOREM SpecInv == Spec => []IInv
BY InitInv, NextInv, PTL DEF Spec

-------------------------------------------------------------------------------
(* The properties that the runs check.                                     *)

\* Every replica is always in a well-formed state, at an entry of the log.
THEOREM TypeCorrect == Spec => []TypeOK
<1>1. IInv => TypeOK
  <2>. SUFFICES ASSUME IInv PROVE TypeOK
    OBVIOUS
  <2>1. /\ Len(log) \in Nat /\ DOMAIN log = 1..Len(log)
        /\ Len(canon) \in 1..Len(log) + 1
    BY AppendSeq DEF IInv, LogOK, CanonOK
  <2>2. \A n \in Node : IsState(fsm[n])
    <3>1. \A n \in Node : applied[n] + 1 \in 1..Len(canon) /\ fsm[n] = canon[applied[n] + 1]
      BY <2>1 DEF IInv, ReplicasOK
    <3>. QED
      BY <3>1 DEF IInv, CanonOK, IsMachine
  <2>3. applied \in [Node -> 0..Len(log)]
    BY <2>1 DEF IInv, ReplicasOK
  <2>. QED
    BY <2>1, <2>2, <2>3 DEF TypeOK, IInv, LogOK
<1>. QED
  BY <1>1, SpecInv, PTL

\* Key invariant 2 of fsm.go, through crashes, replay and snapshots.
THEOREM Agreement == Spec => []ReplicasAgree
<1>1. IInv => ReplicasAgree
  BY DEF IInv, ReplicasOK, ReplicasAgree
<1>. QED
  BY <1>1, SpecInv, PTL

\* Whatever a replica has of the published revisions is right.
THEOREM RevisionAgreement == Spec => []RevisionsAgree
<1>1. IInv => RevisionsAgree
  <2>. SUFFICES ASSUME IInv, NEW n \in Node PROVE Extends(fsm[n], Published)
    BY DEF RevisionsAgree
  <2>1. Len(canon) \in Nat /\ Len(canon) >= 1
    BY AppendSeq DEF IInv, CanonOK, LogOK
  <2>2. /\ applied[n] + 1 \in 1..Len(canon) /\ Len(canon) \in applied[n] + 1..Len(canon)
        /\ fsm[n] = canon[applied[n] + 1]
    BY <2>1 DEF IInv, ReplicasOK
  <2>. QED
    BY <2>2 DEF IInv, PrefixOK, Published
<1>. QED
  BY <1>1, SpecInv, PTL

\* Every snapshot, in the store or being written, is the state at its index.
THEOREM SnapshotConsistency == Spec => []SnapshotsAreCuts
<1>1. IInv => SnapshotsAreCuts
  BY DEF IInv, SnapshotsOK, CapturesOK, IsCut, SnapshotAt, SnapshotsAreCuts
<1>. QED
  BY <1>1, SpecInv, PTL

\* Key invariant 3 of fsm.go: exactly once, and in order.
THEOREM ExactlyOnce == Spec => []AppliedOnceInOrder
<1>1. IInv => AppliedOnceInOrder
  <2>. SUFFICES ASSUME IInv, NEW i \in Entries, NEW j \in Entries, i < j,
                       Took(i), Took(j), log[i].client = log[j].client
                PROVE  log[i].sub < log[j].sub
    BY DEF AppliedOnceInOrder
  <2>1. /\ Len(canon) \in 1..Len(log) + 1 /\ Len(log) \in Nat
        /\ i \in 1..Len(canon) - 1 /\ j \in i + 1..Len(canon)
        /\ j \in 1..Len(canon) - 1
    BY AppendSeq DEF IInv, LogOK, CanonOK, Entries
  <2>2. log[i].sub <= canon[j].clientLastSubmission[log[i].client]
    BY <2>1 DEF IInv, LastOK
  <2>3. /\ IsMachine(canon[j])
        /\ log[j].client \in Client /\ log[j].sub \in 1..MaxSub /\ log[i].sub \in 1..MaxSub
    BY <2>1 DEF IInv, CanonOK, LogOK
  <2>4. canon[j].clientLastSubmission[log[j].client] < log[j].sub
    BY <2>3, LastGrows DEF Took
  <2>5. canon[j].clientLastSubmission[log[j].client] \in Int
    BY <2>3, ConstantsAssumption DEF IsMachine, IsState, Unseen
  <2>. QED
    BY <2>2, <2>3, <2>4, <2>5, ConstantsAssumption
<1>. QED
  BY <1>1, SpecInv, PTL

-------------------------------------------------------------------------------
(* ReplicatedDocument implements SharedDocument: every step of a replica   *)
(* publishes a revision, shows a revision, or changes nothing of the       *)
(* document.  First, the history as a list of revisions.                   *)

\* A state of the history is one revision with one text, and every revision was
\* made by an entry.
HistoryOK ==
    /\ \A i, j \in 1..Len(canon) :
          canon[i].headRev = canon[j].headRev => canon[i].headText = canon[j].headText
    /\ \A r \in 1..Published.headRev : \E i \in Entries : Made(i, r)

DocInv == IInv /\ HistoryOK

\* Along the history the head revision counts up.
LEMMA HistoryGrows ==
    ASSUME IInv
    PROVE  /\ Len(canon) \in Nat \ {0} /\ Len(log) \in Nat /\ Len(canon) \in 1..Len(log) + 1
           /\ \A i \in 1..Len(canon) : canon[i].headRev \in Nat
           /\ \A i \in 1..Len(canon) : \A j \in i..Len(canon) :
                 canon[i].headRev <= canon[j].headRev
           /\ canon[1].headRev = 0 /\ canon[1].headText = << >>
           /\ Published = canon[Len(canon)]
<1>1. Len(canon) \in Nat \ {0} /\ Len(log) \in Nat /\ Len(canon) \in 1..Len(log) + 1
  BY AppendSeq DEF IInv, CanonOK, LogOK
<1>2. \A i \in 1..Len(canon) : canon[i].headRev \in Nat
  BY DEF IInv, CanonOK, IsMachine, IsState
<1>3. \A i \in 1..Len(canon) : \A j \in i..Len(canon) : canon[i].headRev <= canon[j].headRev
  BY DEF IInv, PrefixOK, Extends
<1>4. canon[1].headRev = 0 /\ canon[1].headText = << >>
  BY DEF IInv, CanonOK, Fresh, NewDocumentStateMachine
<1>. QED
  BY <1>1, <1>2, <1>3, <1>4 DEF Published

\* No two entries made the same revision.
LEMMA MadeOnce ==
    ASSUME IInv, NEW i \in Entries, NEW j \in Entries, NEW r \in Nat, Made(i, r), Made(j, r)
    PROVE  i = j
<1>1. /\ i \in 1..Len(canon) - 1 /\ j \in 1..Len(canon) - 1 /\ Len(canon) \in Nat
      /\ i + 1 \in 1..Len(canon) /\ j + 1 \in 1..Len(canon)
  BY HistoryGrows DEF Entries
<1>2. ASSUME NEW k \in Entries, NEW l \in Entries, Made(k, r), Made(l, r), k < l
      PROVE  FALSE
  <2>1. k + 1 \in 1..Len(canon) /\ l \in k + 1..Len(canon)
    BY <1>1, <1>2 DEF Entries
  <2>2. canon[k + 1].headRev <= canon[l].headRev
    BY <2>1, HistoryGrows
  <2>. QED
    BY <1>2, <2>2 DEF Made
<1>3. ~(i < j) /\ ~(j < i)
  BY <1>2
<1>. QED
  BY <1>1, <1>3

\* EntryOf finds the entry of a published revision.
LEMMA EntryOfMade ==
    ASSUME DocInv, NEW r \in 1..Published.headRev
    PROVE  EntryOf(r) \in Entries /\ Made(EntryOf(r), r)
<1>1. \E i \in Entries : Made(i, r)
  BY DEF DocInv, HistoryOK
<1>. QED
  BY <1>1 DEF EntryOf

\* A state of the history shows the text of its revision.
LEMMA TextOfRevision ==
    ASSUME DocInv, NEW i \in 1..Len(canon)
    PROVE  /\ canon[i].headRev \in 0..Published.headRev
           /\ canon[i].headText = Document!TextOf(canon[i].headRev)
<1> DEFINE r == canon[i].headRev
<1>0. IInv
  BY DEF DocInv
<1>1. r \in 0..Published.headRev /\ 1 \in 1..Len(canon)
  <2>1. i \in 1..Len(canon) /\ Len(canon) \in i..Len(canon) /\ Len(canon) \in 1..Len(canon)
    BY <1>0, HistoryGrows
  <2>. QED
    BY <1>0, <2>1, HistoryGrows
<1>2. CASE r = 0
  BY <1>0, <1>1, <1>2, HistoryGrows DEF DocInv, HistoryOK, Document!TextOf
<1>3. CASE r # 0
  <2>1. r \in 1..Published.headRev
    BY <1>0, <1>1, <1>3, HistoryGrows
  <2>2. EntryOf(r) \in Entries /\ Made(EntryOf(r), r)
    BY <2>1, EntryOfMade
  <2>3. EntryOf(r) + 1 \in 1..Len(canon)
    BY <1>0, <2>2, HistoryGrows DEF Entries
  <2>4. canon[EntryOf(r) + 1].headText = canon[i].headText
    BY <2>2, <2>3 DEF Made, DocInv, HistoryOK
  <2>. QED
    BY <1>3, <2>1, <2>4 DEF Document!TextOf, Revisions, RevisionBy
<1>. QED
  BY <1>1, <1>2, <1>3

-------------------------------------------------------------------------------
(* The first replica to apply an entry extends the history.                *)

\* What the first application of an entry does to the history of the document.
LEMMA HistoryStep ==
    ASSUME IInv, NEW n \in Node, Apply(n), applied[n] + 1 = Len(canon)
    PROVE  LET N == Len(canon)
               result == ApplyEntry(canon[N], log[N]) IN
           /\ N \in 1..Len(log) /\ log' = log
           /\ IsMachine(canon[N]) /\ log[N].client \in Client /\ log[N].sub \in 1..MaxSub
           /\ fsm[n] = Published /\ Published = canon[N] /\ Published' = result
           /\ Len(canon') = N + 1 /\ canon'[N + 1] = result
           /\ \A i \in 1..N : canon'[i] = canon[i]
           /\ Entries = 1..N - 1 /\ Entries' = 1..N
           /\ fsm' = [fsm EXCEPT ![n] = result]
<1> DEFINE N == Len(canon)
           result == ApplyEntry(canon[N], log[N])
<1>1. N \in Nat \ {0} /\ Len(log) \in Nat /\ Published = canon[N] /\ IsSeq(canon)
  BY HistoryGrows DEF IInv, CanonOK
<1>2. fsm[n] = canon[N]
  BY DEF IInv, ReplicasOK
<1>3. /\ N \in 1..Len(log) /\ log' = log
      /\ canon' = Append(canon, result) /\ fsm' = [fsm EXCEPT ![n] = result]
  <2> DEFINE next == applied[n] + 1
             step == ApplyEntry(fsm[n], log[next])
  <2>1. /\ next <= Len(log) /\ fsm' = [fsm EXCEPT ![n] = step]
        /\ canon' = IF next = Len(canon) THEN Append(canon, step) ELSE canon
        /\ log' = log
    BY DEF Apply
  <2>2. next = N /\ step = result
    BY <1>2
  <2> HIDE DEF next, step, result
  <2>. QED
    BY <1>1, <2>1, <2>2
<1>4. IsMachine(canon[N]) /\ log[N].client \in Client /\ log[N].sub \in 1..MaxSub
  BY <1>1, <1>3 DEF IInv, CanonOK, LogOK
<1> HIDE DEF result
<1>5. Len(canon') = N + 1 /\ canon'[N + 1] = result /\ \A i \in 1..N : canon'[i] = canon[i]
  BY <1>1, <1>3, AppendSeq
<1>6. Entries = 1..N - 1 /\ Entries' = 1..N /\ Published' = result
  BY <1>1, <1>5 DEF Entries, Published
<1>. QED
  BY <1>1, <1>2, <1>3, <1>4, <1>5, <1>6 DEF result

\* An entry makes the next revision, or changes nothing.
LEMMA EntryOutcome ==
    ASSUME NEW s, NEW e
    PROVE  \/ Outcome(s, e) = "applied" /\ ApplyEntry(s, e).headRev = s.headRev + 1
           \/ Outcome(s, e) # "applied" /\ ApplyEntry(s, e) = s
BY DEF ApplyEntry, Accept

\* Only the first application of an entry changes the history.
LEMMA HistoryKept ==
    ASSUME IInv, [Next]_vars, ~\E n \in Node : Apply(n) /\ applied[n] + 1 = Len(canon)
    PROVE  canon' = canon /\ \A i \in Entries : log'[i] = log[i]
<1>1. canon' = canon
  BY DEF Next, vars, Commit, Apply, Snapshot, Persist, PersistFails, Restart, InstallSnapshot
<1>2. Entries \subseteq 1..Len(log) /\ IsSeq(log)
  BY HistoryGrows DEF Entries, IInv, LogOK
<1>3. log' = log \/ \E e : log' = Append(log, e)
  BY DEF Next, vars, Commit, Apply, Snapshot, Persist, PersistFails, Restart, InstallSnapshot
<1>. QED
  BY <1>1, <1>2, <1>3, AppendSeq

-------------------------------------------------------------------------------
(* HistoryOK is invariant.                                                 *)

\* The history starts with one state, without a revision.
LEMMA InitHistory == Init => HistoryOK
<1>. SUFFICES ASSUME Init PROVE HistoryOK
  OBVIOUS
<1>1. Len(canon) = 1 /\ canon[1] = Fresh /\ Fresh.headRev = 0
  BY DEF Init, Fresh, NewDocumentStateMachine
<1>2. Published.headRev = 0
  BY <1>1 DEF Published
<1>. QED
  BY <1>1, <1>2 DEF HistoryOK

\* A new state of the history is either the last one again, or the first of the
\* next revision.
LEMMA NextHistory == DocInv /\ [Next]_vars => HistoryOK'
<1>. SUFFICES ASSUME DocInv, [Next]_vars PROVE HistoryOK'
  OBVIOUS
<1>0. IInv /\ HistoryOK
  BY DEF DocInv
<1>1. CASE ~\E n \in Node : Apply(n) /\ applied[n] + 1 = Len(canon)
  <2>1. canon' = canon
    BY <1>0, <1>1, HistoryKept
  <2>. QED
    BY <1>0, <2>1 DEF HistoryOK, Published, Entries, Made
<1>2. ASSUME NEW n \in Node, Apply(n), applied[n] + 1 = Len(canon)
      PROVE  HistoryOK'
  <2> DEFINE N == Len(canon)
             result == ApplyEntry(canon[N], log[N])
  <2>1. /\ Published = canon[N] /\ Published' = result
        /\ Len(canon') = N + 1 /\ canon'[N + 1] = result
        /\ \A i \in 1..N : canon'[i] = canon[i]
        /\ Entries = 1..N - 1 /\ Entries' = 1..N
    BY <1>0, <1>2, HistoryStep
  <2>2. /\ N \in Nat \ {0} /\ \A i \in 1..N : canon[i].headRev \in 0..canon[N].headRev
        /\ canon[N].headRev \in Nat
    <3>1. N \in Nat \ {0} /\ \A i \in 1..N : N \in i..N /\ N \in 1..N
      BY <1>0, HistoryGrows
    <3>. QED
      BY <1>0, <3>1, HistoryGrows
  <2>3. result.headRev = canon[N].headRev + 1 \/ result = canon[N]
    BY EntryOutcome
  <2> HIDE DEF result, N
  <2>4. \A i, j \in 1..N + 1 : canon'[i].headRev = canon'[j].headRev
                             => canon'[i].headText = canon'[j].headText
    <3>1. \A i, j \in 1..N : canon[i].headRev = canon[j].headRev
                           => canon[i].headText = canon[j].headText
      BY <1>0 DEF HistoryOK, N
    <3>2. \A i \in 1..N + 1 : i \in 1..N \/ i = N + 1
      BY <2>2
    <3>3. CASE result = canon[N]
      <4>1. \A i \in 1..N + 1 : \E k \in 1..N : canon'[i] = canon[k]
        BY <2>1, <2>2, <3>2, <3>3
      <4>. QED
        BY <3>1, <4>1
    <3>4. CASE result.headRev = canon[N].headRev + 1
      <4>1. \A i \in 1..N : canon'[i].headRev # canon'[N + 1].headRev
        BY <2>1, <2>2, <3>4
      <4>. QED
        BY <2>1, <3>1, <3>2, <4>1
    <3>. QED
      BY <2>3, <3>3, <3>4
  <2>5. \A r \in 1..result.headRev : \E i \in 1..N : Made(i, r)'
    <3>1. ASSUME NEW i \in 1..N - 1, NEW r, Made(i, r) PROVE i \in 1..N /\ Made(i, r)'
      BY <2>1, <2>2, <3>1 DEF Made
    <3>2. \A r \in 1..canon[N].headRev : \E i \in 1..N : Made(i, r)'
      BY <1>0, <2>1, <3>1 DEF HistoryOK
    <3>3. CASE result = canon[N]
      BY <3>2, <3>3
    <3>4. CASE result.headRev = canon[N].headRev + 1
      <4>1. TAKE r \in 1..result.headRev
      <4>2. CASE r = result.headRev
        <5>1. /\ N \in 1..N /\ canon'[N].headRev = r - 1
              /\ canon'[N + 1].headRev = r
          BY <2>1, <2>2, <3>4, <4>2
        <5>. QED
          BY <5>1 DEF Made
      <4>3. CASE r # result.headRev
        <5>1. r \in 1..canon[N].headRev
          BY <2>2, <3>4, <4>3
        <5>. QED
          BY <3>2, <5>1
      <4>. QED
        BY <4>2, <4>3
    <3>. QED
      BY <2>3, <3>3, <3>4
  <2>. QED
    BY <2>1, <2>4, <2>5 DEF HistoryOK
<1>. QED
  BY <1>1, <1>2

\* Every published revision was made by an entry, and all points of the history at
\* one revision have one text: what RevisionsSince and GetHeadText may rely on.
THEOREM DocumentInvariant == Spec => []DocInv
<1>1. Init => DocInv
  BY InitInv, InitHistory DEF DocInv
<1>2. DocInv /\ [Next]_vars => DocInv'
  BY NextInv, NextHistory DEF DocInv
<1>. QED
  BY <1>1, <1>2, PTL DEF Spec

-------------------------------------------------------------------------------
(* The refinement.                                                         *)

\* The revisions are those that entries made.
RevisionsOK ==
    /\ Published.headRev \in Nat
    /\ DOMAIN Revisions = 1..Published.headRev
    /\ IsSeq(Revisions) /\ Len(Revisions) = Published.headRev
    /\ \A r \in 1..Published.headRev :
          /\ \E i \in Entries : Made(i, r)
          /\ \A i \in Entries : Made(i, r) => Revisions[r] = RevisionBy(i)

\* The revisions that entries made are numbered without gaps.
LEMMA RevisionsMade == DocInv => RevisionsOK
<1>. SUFFICES ASSUME DocInv PROVE RevisionsOK
  OBVIOUS
<1>1. Published.headRev \in Nat
  BY HistoryGrows DEF DocInv
<1>2. ASSUME NEW r \in 1..Published.headRev
      PROVE  /\ \E i \in Entries : Made(i, r)
             /\ \A i \in Entries : Made(i, r) => Revisions[r] = RevisionBy(i)
  <2>1. EntryOf(r) \in Entries /\ Made(EntryOf(r), r) /\ r \in Nat
    BY <1>1, EntryOfMade
  <2>2. \A i \in Entries : Made(i, r) => i = EntryOf(r)
    BY <2>1, MadeOnce DEF DocInv
  <2>3. Revisions[r] = RevisionBy(EntryOf(r))
    BY DEF Revisions
  <2>. QED
    BY <2>1, <2>2, <2>3
<1>3. DOMAIN Revisions = 1..Published.headRev
  BY DEF Revisions
<1>4. IsSeq(Revisions) /\ Len(Revisions) = Published.headRev
  <2> DEFINE R == {Revisions[r] : r \in DOMAIN Revisions}
  <2>1. Revisions \in [1..Published.headRev -> R]
    BY DEF Revisions
  <2> HIDE DEF R
  <2>2. Revisions \in Seq(R)
    BY <1>1, <2>1, SeqDef
  <2>3. Len(Revisions) = Published.headRev
    BY <1>1, <1>3, <2>2, LenProperties
  <2>. QED
    BY <2>2, <2>3 DEF IsSeq, R
<1>. QED
  BY <1>1, <1>2, <1>3, <1>4 DEF RevisionsOK

\* Two sequences with the same elements are the same.
LEMMA SameSeq ==
    ASSUME NEW p, NEW q, IsSeq(p), IsSeq(q), Len(p) = Len(q),
           \A i \in 1..Len(p) : p[i] = q[i]
    PROVE  p = q
<1> DEFINE S == {p[i] : i \in DOMAIN p} \cup {q[i] : i \in DOMAIN q}
<1>1. p \in Seq(S) /\ q \in Seq(S)
  BY DEF IsSeq
<1> HIDE DEF S
<1>. QED
  BY <1>1, SeqEqual

\* The servers start as the abstract document does.
LEMMA InitDocument == Init => Document!Init
<1>. SUFFICES ASSUME Init PROVE Document!Init
  OBVIOUS
<1>1. DocInv
  BY InitInv, InitHistory DEF DocInv
<1>2. Published.headRev = 0
  BY DEF Init, Published, Fresh, NewDocumentStateMachine
<1>3. Revisions = << >>
  <2>1. IsSeq(<< >>) /\ Len(<< >>) = 0
    BY DEF IsSeq
  <2>2. IsSeq(Revisions) /\ Len(Revisions) = 0
    BY <1>1, <1>2, RevisionsMade DEF RevisionsOK
  <2>. QED
    BY <2>1, <2>2, SameSeq
<1>4. Shown = [n \in Node |-> [rev |-> 0, text |-> << >>]]
  BY DEF Init, Shown, Fresh, NewDocumentStateMachine
<1>. QED
  BY <1>3, <1>4 DEF Document!Init

\* While the entries stay and no revision is made, the document stays.
LEMMA RevisionsKept ==
    ASSUME DocInv, DocInv', (Published.headRev)' = Published.headRev,
           Entries \subseteq Entries',
           \A i \in Entries : /\ canon'[i] = canon[i] /\ canon'[i + 1] = canon[i + 1]
                             /\ log'[i] = log[i]
    PROVE  Revisions' = Revisions
<1>1. RevisionsOK /\ RevisionsOK'
  BY RevisionsMade, PTL
<1>2. /\ IsSeq(Revisions) /\ IsSeq(Revisions)' /\ Len(Revisions)' = Len(Revisions)
      /\ Len(Revisions) = Published.headRev
  BY <1>1 DEF RevisionsOK
<1>3. ASSUME NEW r \in 1..Published.headRev PROVE Revisions'[r] = Revisions[r]
  <2>1. PICK i \in Entries : Made(i, r) /\ Revisions[r] = RevisionBy(i)
    BY <1>1 DEF RevisionsOK
  <2>2. Made(i, r)' /\ RevisionBy(i)' = RevisionBy(i)
    BY <2>1 DEF Made, RevisionBy
  <2>. QED
    BY <1>1, <2>1, <2>2 DEF RevisionsOK
<1>. QED
  BY <1>2, <1>3, SameSeq

\* A replica that moves to a state of the history shows its revision.
LEMMA ShowStep ==
    ASSUME DocInv, NEW n \in Node, NEW i \in 1..Len(canon),
           fsm' = [fsm EXCEPT ![n] = canon[i]], Revisions' = Revisions
    PROVE  Document!Next
<1> DEFINE r == canon[i].headRev
<1>1. r \in 0..Len(Revisions) /\ canon[i].headText = Document!TextOf(r)
  BY TextOfRevision, RevisionsMade DEF RevisionsOK
<1>2. DOMAIN fsm = Node
  BY DEF DocInv, IInv, ReplicasOK
<1>3. Shown' = [Shown EXCEPT ![n] = [rev |-> r, text |-> Document!TextOf(r)]]
  BY <1>1, <1>2 DEF Shown
<1> HIDE DEF r
<1>4. Document!Show(n, r)
  BY <1>3 DEF Document!Show
<1>. QED
  BY <1>1, <1>4 DEF Document!Next

\* The first application of an entry publishes its revision.
LEMMA PublishStep ==
    ASSUME DocInv, DocInv', NEW n \in Node, Apply(n), applied[n] + 1 = Len(canon),
           Took(Len(canon))
    PROVE  Document!Next
<1> DEFINE N == Len(canon)
           result == ApplyEntry(canon[N], log[N])
           rev == canon[N].headRev
           c == log[N].client
           sub == log[N].sub
<1>0. IInv
  BY DEF DocInv
<1>1. /\ N \in Nat \ {0} /\ log' = log /\ c \in Client /\ sub \in 1..MaxSub
      /\ IsMachine(canon[N])
      /\ fsm[n] = canon[N] /\ Published = canon[N] /\ Published' = result
      /\ canon'[N] = canon[N] /\ canon'[N + 1] = result
      /\ \A i \in 1..N : canon'[i] = canon[i]
      /\ Entries = 1..N - 1 /\ Entries' = 1..N
      /\ fsm' = [fsm EXCEPT ![n] = result]
  BY <1>0, HistoryStep, HistoryGrows
<1>2. result.headRev = rev + 1 /\ rev \in Nat
  <2>1. rev \in Nat
    BY <1>1 DEF IsMachine, IsState
  <2>. QED
    BY <2>1, EntryOutcome DEF Took
<1>3. /\ IsSeq(Revisions) /\ Len(Revisions) = rev /\ DOMAIN Revisions = 1..rev
      /\ \A r \in 1..rev : \E i \in Entries : Made(i, r) /\ Revisions[r] = RevisionBy(i)
  BY <1>1, RevisionsMade DEF RevisionsOK
<1>4. /\ IsSeq(Revisions)' /\ Len(Revisions)' = rev + 1
      /\ \A r \in 1..rev + 1 : \A i \in 1..N :
            Made(i, r)' => Revisions'[r] = RevisionBy(i)'
  <2>1. RevisionsOK'
    BY RevisionsMade, PTL
  <2> HIDE DEF N, result, rev
  <2>. QED
    BY <1>1, <1>2, <2>1 DEF RevisionsOK
<1> DEFINE e == [author |-> c, sub |-> sub, text |-> result.headText]
<1>5. Revisions' = Append(Revisions, e)
  <2> HIDE DEF N, result, rev
  <2>1. /\ IsSeq(Append(Revisions, e)) /\ Len(Append(Revisions, e)) = rev + 1
        /\ \A r \in 1..rev : Append(Revisions, e)[r] = Revisions[r]
        /\ Append(Revisions, e)[rev + 1] = e
    BY <1>3, AppendSeq
  <2>2. ASSUME NEW r \in 1..rev + 1 PROVE Revisions'[r] = Append(Revisions, e)[r]
    <3>1. CASE r = rev + 1
      <4>1. N \in 1..N /\ canon'[N].headRev = r - 1 /\ canon'[N + 1].headRev = r
        BY <1>1, <1>2, <3>1 DEF rev
      <4>2. Revisions'[r] = [author |-> log'[N].client, sub |-> log'[N].sub,
                             text |-> canon'[N + 1].headText]
        BY <1>4, <4>1 DEF Made, RevisionBy
      <4>. QED
        BY <1>1, <2>1, <3>1, <4>2
    <3>2. CASE r # rev + 1
      <4>1. r \in 1..rev
        BY <1>2, <3>2
      <4>2. PICK i \in 1..N - 1 : Made(i, r) /\ Revisions[r] = RevisionBy(i)
        BY <1>1, <1>3, <4>1
      <4>3. i \in 1..N /\ i + 1 \in 1..N
        BY <1>1
      <4>4. Made(i, r)' /\ RevisionBy(i)' = RevisionBy(i)
        BY <1>1, <4>2, <4>3 DEF Made, RevisionBy
      <4>. QED
        BY <1>4, <2>1, <4>1, <4>2, <4>3, <4>4
    <3>. QED
      BY <3>1, <3>2
  <2>. QED
    BY <1>4, <2>1, <2>2, SameSeq
<1>6. \A r \in DOMAIN Revisions : Revisions[r].author = c => Revisions[r].sub < sub
  <2>1. SUFFICES ASSUME NEW r \in 1..rev, Revisions[r].author = c
                 PROVE  Revisions[r].sub < sub
    BY <1>3
  <2>2. PICK i \in 1..N - 1 : Made(i, r) /\ Revisions[r] = RevisionBy(i)
    BY <1>1, <1>3
  <2>3. log[i].client = c /\ log[i].sub = Revisions[r].sub
    BY <2>1, <2>2 DEF RevisionBy
  <2>4. Took(i)
    <3>1. canon[i + 1] = ApplyEntry(canon[i], log[i])
      BY <1>0, <2>2 DEF IInv, CanonOK
    <3>2. canon[i + 1] # canon[i]
      BY <1>2, <2>2 DEF Made
    <3>. QED
      BY <3>1, <3>2, EntryOutcome DEF Took
  <2>5. /\ N \in i + 1..N
        /\ log[i].sub \in Int /\ sub \in Int /\ canon[N].clientLastSubmission[c] \in Int
    <3>1. i \in 1..Len(log) /\ N \in i + 1..N
      BY <1>0, <2>2, HistoryGrows
    <3>2. log[i].sub \in Int
      BY <1>0, <3>1, ConstantsAssumption DEF IInv, LogOK
    <3>. QED
      BY <1>1, <3>1, <3>2, ConstantsAssumption DEF IsMachine, IsState, Unseen
  <2>6. log[i].sub <= canon[N].clientLastSubmission[c]
    BY <1>0, <2>2, <2>3, <2>4, <2>5 DEF IInv, LastOK
  <2>7. canon[N].clientLastSubmission[c] < sub
    BY <1>1, LastGrows DEF Took
  <2>. QED
    BY <2>3, <2>5, <2>6, <2>7
<1>7. Shown' = [Shown EXCEPT ![n] = [rev |-> rev + 1, text |-> result.headText]]
  <2>1. DOMAIN fsm = Node
    BY <1>0 DEF IInv, ReplicasOK
  <2> HIDE DEF result, rev
  <2>. QED
    BY <1>1, <1>2, <2>1 DEF Shown
<1>8. Shown'[n].text = result.headText /\ Shown[n].rev = rev
  <2> HIDE DEF result
  <2>. QED
    BY <1>1, <1>7 DEF Shown
<1>9. Document!Publish(n, c, sub)
  <2> HIDE DEF N, result, rev, c, sub
  <2>. QED
    BY <1>3, <1>5, <1>6, <1>7, <1>8 DEF Document!Publish
<1>. QED
  BY <1>1, <1>9 DEF Document!Next

\* Every step is one of the document's, or none.
LEMMA StepRefines ==
    ASSUME DocInv, DocInv', [Next]_vars
    PROVE  Document!Next \/ UNCHANGED Document!vars
<1>0. IInv
  BY DEF DocInv
<1>1. ASSUME NEW n \in Node, Apply(n), applied[n] + 1 = Len(canon)
      PROVE  Document!Next
  <2> DEFINE N == Len(canon)
             result == ApplyEntry(canon[N], log[N])
  <2>1. /\ N \in Nat \ {0} /\ log' = log
        /\ Published = canon[N] /\ Published' = result
        /\ \A i \in 1..N : canon'[i] = canon[i]
        /\ Entries = 1..N - 1 /\ Entries' = 1..N
        /\ fsm' = [fsm EXCEPT ![n] = result]
    BY <1>0, <1>1, HistoryStep, HistoryGrows
  <2>2. CASE Took(N)
    BY <1>1, <2>2, PublishStep
  <2>3. CASE ~Took(N)
    <3>1. result = canon[N]
      BY <2>3, EntryOutcome DEF Took
    <3> HIDE DEF N, result
    <3>2. (Published.headRev)' = Published.headRev /\ Entries \subseteq Entries'
      BY <2>1, <3>1
    <3>3. \A i \in Entries : /\ canon'[i] = canon[i] /\ canon'[i + 1] = canon[i + 1]
                             /\ log'[i] = log[i]
      BY <2>1
    <3>4. Revisions' = Revisions
      BY <3>2, <3>3, RevisionsKept
    <3>5. N \in 1..N /\ fsm' = [fsm EXCEPT ![n] = canon[N]]
      BY <2>1, <3>1
    <3>. QED
      BY <3>4, <3>5, ShowStep DEF N
  <2>. QED
    BY <2>2, <2>3
<1>2. CASE ~\E n \in Node : Apply(n) /\ applied[n] + 1 = Len(canon)
  <2>1. canon' = canon /\ \A i \in Entries : log'[i] = log[i]
    BY <1>0, <1>2, HistoryKept
  <2>2. Revisions' = Revisions
    BY <2>1, RevisionsKept DEF Published, Entries
  <2>3. ASSUME NEW n \in Node, Apply(n) PROVE Document!Next
    <3>1. /\ applied[n] + 1 # Len(canon) /\ applied[n] \in 0..Len(canon) - 1
          /\ fsm[n] = canon[applied[n] + 1]
      BY <1>0, <1>2, <2>3 DEF IInv, ReplicasOK
    <3> DEFINE i == applied[n] + 1
    <3>2. i \in 1..Len(canon) - 1 /\ i + 1 \in 1..Len(canon)
      <4>1. Len(canon) \in Nat
        BY <1>0, HistoryGrows
      <4>. QED
        BY <3>1, <4>1
    <3>3. ApplyEntry(fsm[n], log[i]) = canon[i + 1]
      BY <1>0, <3>1, <3>2 DEF IInv, CanonOK
    <3>4. fsm' = [fsm EXCEPT ![n] = canon[i + 1]]
      <4>1. fsm' = [fsm EXCEPT ![n] = ApplyEntry(fsm[n], log[i])]
        BY <2>3 DEF Apply
      <4>. QED
        BY <3>3, <4>1
    <3>. QED
      BY <2>2, <3>2, <3>4, ShowStep
  <2>4. ASSUME NEW n \in Node, Restart(n) PROVE Document!Next
    <3>1. /\ snapshot[n].index + 1 \in 1..Len(canon)
          /\ Started(snapshot[n]) = canon[snapshot[n].index + 1]
      BY <1>0, RestoreCut, HistoryGrows DEF IInv, SnapshotsOK
    <3>. QED
      BY <2>2, <2>4, <3>1, ShowStep DEF Restart
  <2>5. ASSUME NEW m \in Node, NEW n \in Node, InstallSnapshot(m, n) PROVE Document!Next
    <3>1. /\ snapshot[m].index + 1 \in 1..Len(canon)
          /\ Restore(snapshot[m].data) = canon[snapshot[m].index + 1]
      BY <1>0, RestoreCut, HistoryGrows DEF IInv, SnapshotsOK
    <3>. QED
      BY <2>2, <2>5, <3>1, ShowStep DEF InstallSnapshot
  <2>6. ASSUME fsm' = fsm PROVE UNCHANGED Document!vars
    BY <2>2, <2>6 DEF Document!vars, Shown
  <2>. QED
    BY <2>3, <2>4, <2>5, <2>6 DEF Next, vars, Commit, Snapshot, Persist, PersistFails
<1>. QED
  BY <1>1, <1>2

\* The servers together are one shared document: they implement its
\* specification, with the revisions that entries made and the states of the
\* replicas as what is shown.
THEOREM Refinement == Spec => IsSharedDocument
<1>1. DocInv /\ DocInv' /\ [Next]_vars => [Document!Next]_(Document!vars)
  BY StepRefines
<1>. QED
  BY <1>1, InitDocument, DocumentInvariant, PTL
  DEF Spec, IsSharedDocument, Document!Spec

-------------------------------------------------------------------------------
(* The texts: the invariant about what the revisions are.                  *)

\* What is submitted is a changeset in the form of the operations, and names a
\* revision that every state the entry will be applied to has.
EntriesOK ==
    \A i \in 1..Len(log) :
        /\ Formed(log[i].changeset)
        /\ log[i].base \in Nat
        /\ log[i].base <= Published.headRev
        /\ i <= Len(canon) => log[i].base <= canon[i].headRev

\* Every state of the history has a sound revision log.
TextsOK == \A i \in 1..Len(canon) : Sound(canon[i])

TextInv == IInv /\ EntriesOK /\ TextsOK

\* The empty document is sound.
LEMMA TextInit == Init => TextInv
<1>. SUFFICES ASSUME Init PROVE TextInv
  OBVIOUS
<1>1. IInv
  BY InitInv
<1>2. log = <<>> /\ canon = <<Fresh>> /\ Len(canon) = 1 /\ canon[1] = Fresh /\ Len(log) = 0
  BY DEF Init
<1>3. Fresh.headRev = 0 /\ Fresh.headText = <<>>
  BY DEF Fresh, NewDocumentStateMachine
<1>4. Sound(Fresh)
  BY <1>3, ReplayIs DEF Sound
<1>. QED
  BY <1>1, <1>2, <1>4 DEF TextInv, EntriesOK, TextsOK

\* A committed entry is a difference between a text of the published log and a
\* text, by revisions that are published.
LEMMA TextCommit ==
    ASSUME TextInv, NEW c \in Client, NEW sub \in 1..MaxSub, NEW t \in Texts,
           NEW base \in 0..Published.headRev, NEW from \in 0..Published.headRev,
           Commit(c, sub, base, from, t)
    PROVE  EntriesOK' /\ TextsOK'
<1> DEFINE old == ReplayTo(Published, from)
           d == DiffToChangeset(old, t)
           e == [client |-> c, sub |-> sub, base |-> base, changeset |-> d]
<1>1. log' = Append(log, e) /\ canon' = canon
  BY DEF Commit
<1>2. e.base = base /\ e.changeset = d
  OBVIOUS
<1> HIDE DEF e
<1>3. /\ IsSeq(log) /\ Len(log) \in Nat /\ Len(canon) \in 1..Len(log) + 1
  BY AppendSeq DEF TextInv, IInv, LogOK, CanonOK
<1>4. /\ Len(log') = Len(log) + 1
      /\ \A i \in 1..Len(log) : log'[i] = log[i]
      /\ log'[Len(log) + 1] = e
  BY <1>1, <1>3, AppendSeq
<1>5. Sound(Published)
  BY <1>3 DEF TextInv, TextsOK, Published
<1>6. old \in Text /\ t \in Text
  BY <1>5, SoundTexts, ConstantsAssumption
<1>7. Formed(d)
  <2> HIDE DEF old
  <2>1. Suits(old, d)
    BY <1>6, DiffSuits
  <2>. QED
    BY <2>1 DEF Suits, Formed
<1> HIDE DEF d
<1>8. base \in Nat /\ base <= Published.headRev
  BY <1>5 DEF Sound
<1>9. Published' = Published
  BY <1>1 DEF Published
<1>10. EntriesOK'
  <2>1. SUFFICES ASSUME NEW i \in 1..Len(log')
                 PROVE  /\ Formed(log'[i].changeset)
                        /\ log'[i].base \in Nat
                        /\ log'[i].base <= Published.headRev
                        /\ i <= Len(canon) => log'[i].base <= canon[i].headRev
    BY <1>1, <1>9 DEF EntriesOK
  <2>2. CASE i \in 1..Len(log)
    BY <1>4, <2>2 DEF TextInv, EntriesOK
  <2>3. CASE i = Len(log) + 1
    <3>1. log'[i].base = base /\ log'[i].changeset = d
      BY <1>2, <1>4, <2>3
    <3>2. i <= Len(canon) => canon[i] = Published
      BY <1>3, <2>3 DEF Published
    <3>. QED
      BY <1>7, <1>8, <3>1, <3>2
  <2>. QED
    BY <1>3, <1>4, <2>2, <2>3
<1>11. TextsOK'
  BY <1>1 DEF TextInv, TextsOK
<1>. QED
  BY <1>10, <1>11

\* The entry that is applied next makes a sound log of a sound log.
LEMMA TextApply ==
    ASSUME TextInv, IInv', NEW n \in Node, Apply(n)
    PROVE  EntriesOK' /\ TextsOK'
<1> DEFINE next == applied[n] + 1
           e == log[next]
           result == ApplyEntry(fsm[n], e)
<1>1. /\ next <= Len(log) /\ log' = log
      /\ canon' = IF next = Len(canon) THEN Append(canon, result) ELSE canon
  BY DEF Apply
<1>2. /\ IsSeq(canon) /\ Len(canon) \in Nat /\ Len(log) \in Nat
      /\ Len(canon) \in 1..Len(log) + 1
  BY AppendSeq DEF TextInv, IInv, LogOK, CanonOK
<1>3. CASE next # Len(canon)
  <2>1. canon' = canon
    BY <1>1, <1>3
  <2>. QED
    BY <1>1, <2>1 DEF TextInv, EntriesOK, TextsOK, Published
<1>4. CASE next = Len(canon)
  <2>1. next \in 1..Len(log) /\ fsm[n] = canon[Len(canon)] /\ Published = canon[Len(canon)]
    BY <1>1, <1>2, <1>4 DEF TextInv, IInv, ReplicasOK, Published
  <2>2. IsMachine(Published) /\ Sound(Published)
    BY <1>2, <2>1 DEF TextInv, IInv, CanonOK, TextsOK
  <2>3. Formed(e.changeset) /\ e.base \in Nat
    BY <2>1 DEF TextInv, EntriesOK
  <2> HIDE DEF e, next
  <2>4. Len(Published.revisionLog) = Published.headRev /\ IsSeq(Published.revisionLog)
    BY <2>2, AppendSeq DEF IsMachine, IsState
  <2>5. Sound(result)
    BY <2>1, <2>2, <2>3, <2>4, ApplySound
  <2>6. canon' = Append(canon, result)
    BY <1>1, <1>4
  <2>7. Extends(Published, result)
    BY <2>1, <2>2, ApplyExtends
  <2> HIDE DEF result
  <2>8. /\ Len(canon') = Len(canon) + 1
        /\ \A i \in 1..Len(canon) : canon'[i] = canon[i]
        /\ canon'[Len(canon) + 1] = result
    BY <1>2, <2>6, AppendSeq
  <2>9. Published' = result
    BY <2>8 DEF Published
  <2>10. TextsOK'
    <3>1. \A i \in 1..Len(canon) : Sound(canon[i])
      BY DEF TextInv, TextsOK
    <3>2. \A i \in 1..Len(canon) + 1 : i \in 1..Len(canon) \/ i = Len(canon) + 1
      BY <1>2
    <3>. QED
      BY <2>5, <2>8, <3>1, <3>2 DEF TextsOK
  <2>11. EntriesOK'
    <3>1. SUFFICES ASSUME NEW i \in 1..Len(log)
                   PROVE  /\ Formed(log[i].changeset)
                          /\ log[i].base \in Nat
                          /\ log[i].base <= result.headRev
                          /\ i <= Len(canon') => log[i].base <= canon'[i].headRev
      BY <1>1, <2>9 DEF EntriesOK
    <3>2. /\ Formed(log[i].changeset)
          /\ log[i].base \in Nat
          /\ log[i].base <= Published.headRev
          /\ i <= Len(canon) => log[i].base <= canon[i].headRev
      BY DEF TextInv, EntriesOK
    <3>3. Published.headRev <= result.headRev
      BY <2>7 DEF Extends
    <3>4. Published.headRev \in Nat /\ result.headRev \in Nat
      BY <2>2, <2>5 DEF Sound
    <3>5. log[i].base <= result.headRev
      BY <3>2, <3>3, <3>4
    <3>6. i <= Len(canon') => log[i].base <= canon'[i].headRev
      BY <1>2, <2>8, <3>2, <3>5
    <3>. QED
      BY <3>2, <3>5, <3>6
  <2>. QED
    BY <2>10, <2>11
<1>. QED
  BY <1>3, <1>4

\* The other actions leave the log and the history as they are.
LEMMA TextNext == TextInv /\ [Next]_vars => TextInv'
<1>. SUFFICES ASSUME TextInv, [Next]_vars PROVE TextInv'
  OBVIOUS
<1>1. IInv'
  BY NextInv DEF TextInv
<1>2. ASSUME UNCHANGED <<log, canon>> PROVE EntriesOK' /\ TextsOK'
  BY <1>2 DEF TextInv, EntriesOK, TextsOK, Published
<1>3. ASSUME NEW c \in Client, NEW sub \in 1..MaxSub, NEW t \in Texts,
             NEW base \in 0..Published.headRev, NEW from \in 0..Published.headRev,
             Commit(c, sub, base, from, t)
      PROVE  EntriesOK' /\ TextsOK'
  BY <1>3, TextCommit
<1>4. ASSUME NEW n \in Node, Apply(n) PROVE EntriesOK' /\ TextsOK'
  BY <1>1, <1>4, TextApply
<1>5. ASSUME NEW n \in Node,
             Snapshot(n) \/ Persist(n) \/ PersistFails(n) \/ Restart(n)
      PROVE  EntriesOK' /\ TextsOK'
  BY <1>2, <1>5 DEF Snapshot, Persist, PersistFails, Restart
<1>6. ASSUME NEW m \in Node, NEW n \in Node, InstallSnapshot(m, n)
      PROVE  EntriesOK' /\ TextsOK'
  BY <1>2, <1>6 DEF InstallSnapshot
<1>7. ASSUME UNCHANGED vars PROVE EntriesOK' /\ TextsOK'
  <2>1. UNCHANGED <<log, canon>>
    BY <1>7 DEF vars
  <2>. QED
    BY <1>2, <2>1
<1>8. EntriesOK' /\ TextsOK'
  <2>1. CASE Next
    BY <1>3, <1>4, <1>5, <1>6, <2>1 DEF Next
  <2>2. CASE UNCHANGED vars
    BY <1>7, <2>2
  <2>. QED
    BY <2>1, <2>2
<1>. QED
  BY <1>1, <1>8 DEF TextInv

\* The invariant about texts holds in every reachable state.
LEMMA TextAlways == Spec => []TextInv
BY TextInit, TextNext, PTL DEF Spec

\* Key invariant 1 of fsm.go: the text of a replica is its revision log applied
\* to the empty text.
THEOREM TextIsReplay == Spec => []HeadTextIsReplay
<1>1. TextInv => HeadTextIsReplay
  <2>. SUFFICES ASSUME TextInv, NEW n \in Node
                PROVE  fsm[n].headText = ReplayTo(fsm[n], fsm[n].headRev)
    BY DEF HeadTextIsReplay
  <2>1. applied[n] + 1 \in 1..Len(canon) /\ fsm[n] = canon[applied[n] + 1]
    BY AppendSeq DEF TextInv, IInv, CanonOK, ReplicasOK
  <2>. QED
    BY <2>1 DEF TextInv, TextsOK, Sound
<1>. QED
  BY <1>1, TextAlways, PTL

\* An entry of the history that fits the revision it names suits it.
LEMMA FittingEntry ==
    ASSUME TextInv, NEW i \in Entries
    PROVE  /\ Sound(canon[i]) /\ log[i].base \in 0..canon[i].headRev
           /\ canon[i + 1] = ApplyEntry(canon[i], log[i])
           /\ Fitting(i) => Suits(ReplayTo(canon[i], log[i].base), log[i].changeset)
<1>1. /\ Len(canon) \in 1..Len(log) + 1 /\ Len(log) \in Nat
      /\ i \in 1..Len(canon) - 1
  BY AppendSeq DEF TextInv, IInv, LogOK, CanonOK, Entries
<1>2. i \in 1..Len(canon) /\ i \in 1..Len(log) /\ i <= Len(canon)
  BY <1>1
<1>3. Sound(canon[i]) /\ Formed(log[i].changeset)
  BY <1>2 DEF TextInv, TextsOK, EntriesOK
<1>4. log[i].base \in 0..canon[i].headRev
  <2>1. log[i].base \in Nat /\ log[i].base <= canon[i].headRev
    BY <1>2 DEF TextInv, EntriesOK
  <2>2. canon[i].headRev \in Nat
    BY <1>3 DEF Sound
  <2>. QED
    BY <2>1, <2>2
<1>5. canon[i + 1] = ApplyEntry(canon[i], log[i])
  BY <1>1 DEF TextInv, IInv, CanonOK
<1>6. ReplayTo(canon[i], log[i].base) \in Text
  BY <1>3, <1>4, SoundTexts
<1>. QED
  BY <1>3, <1>4, <1>5, <1>6, FormedSuits DEF Fitting

\* No entry that fits the revision it names ends in an error of Apply, and none
\* names a revision that Apply does not have.
THEOREM FittingNeverFails == Spec => []FittingEntriesApply
<1>1. TextInv => FittingEntriesApply
  <2>. SUFFICES ASSUME TextInv, NEW i \in Entries
                PROVE  /\ log[i].base <= canon[i].headRev
                       /\ Fitting(i) => Outcome(canon[i], log[i]) # "failed"
    BY DEF FittingEntriesApply
  <2>. QED
    BY FittingEntry, SuitingApplies
<1>. QED
  BY <1>1, TextAlways, PTL

\* The revision an entry becomes inserts what its author typed, whatever it was
\* caught up with (follow.go:147-148).
THEOREM NothingTypedIsLost == Spec => []TypedTextSurvives
<1>1. TextInv => TypedTextSurvives
  <2>. SUFFICES ASSUME TextInv, NEW i \in Entries, Took(i), Fitting(i)
                PROVE  Typed(canon[i + 1].revisionLog[canon[i + 1].headRev].changeset)
                          = Typed(log[i].changeset)
    BY DEF TypedTextSurvives
  <2> DEFINE s == canon[i]
             e == log[i]
             C == Transformed(s, e)
  <2>1. /\ Sound(s) /\ e.base \in 0..s.headRev
        /\ canon[i + 1] = ApplyEntry(s, e)
        /\ Suits(ReplayTo(s, e.base), e.changeset)
    BY FittingEntry
  <2>2. /\ canon[i + 1].headRev = s.headRev + 1
        /\ canon[i + 1].revisionLog = Append(s.revisionLog, RevisionRecord(s, e, C))
    BY <2>1 DEF Took, ApplyEntry, Accept
  <2>3. IsSeq(s.revisionLog) /\ Len(s.revisionLog) = s.headRev
    <3>1. i \in 1..Len(canon)
      BY AppendSeq DEF TextInv, IInv, CanonOK, Entries
    <3>2. IsMachine(s)
      BY <3>1 DEF TextInv, IInv, CanonOK
    <3> HIDE DEF s
    <3>3. IsSeq(s.revisionLog) /\ DOMAIN s.revisionLog = 1..s.headRev /\ s.headRev \in Nat
      BY <3>2 DEF IsMachine, IsState
    <3>. QED
      BY <3>3, AppendSeq
  <2>4. Inserted(C.ops) = Inserted(e.changeset.ops)
    BY <2>1, TransformedSuits
  <2> HIDE DEF s, e, C
  <2>5. canon[i + 1].revisionLog[canon[i + 1].headRev] = RevisionRecord(s, e, C)
    BY <2>2, <2>3, AppendSeq
  <2>. QED
    BY <2>4, <2>5 DEF RevisionRecord, Typed, e
<1>. QED
  BY <1>1, TextAlways, PTL

===============================================================================
