----------------------------- MODULE StartupProofs -----------------------------
(***************************************************************************)
(* Proofs that the document gets the initial text once, and as a whole,    *)
(* for any nodes, clients, texts and bounds.                               *)
(***************************************************************************)
EXTENDS Startup, DocumentStateMachineProofs

-------------------------------------------------------------------------------
(* The inductive invariant.                                                *)

\* The initial text has one submission id.
SameId(e) == e.client = SystemBootstrap => e.sub = 1

PendingOK == IsSeq(pending) /\ \A i \in DOMAIN pending : SameId(pending[i])

\* The state machine remembers the submission of an initial text it has applied.
DocOK ==
    /\ IsSeq(doc.revisionLog)
    /\ DOMAIN doc.clientLastSubmission = Client
    /\ \A r \in DOMAIN doc.revisionLog :
          Initial(doc.revisionLog[r]) => doc.clientLastSubmission[SystemBootstrap] = 1
    /\ InitialTextOnce

IInv == PendingOK /\ DocOK

-------------------------------------------------------------------------------
\* The nodes start in the invariant.
LEMMA InitOK == Init => IInv
<1>1. SUFFICES ASSUME Init PROVE IInv
  OBVIOUS
<1>2. IsSeq(<< >>) /\ DOMAIN << >> = {}
  BY DEF IsSeq
<1>3. doc.revisionLog = << >> /\ doc.clientLastSubmission = [c \in Client |-> Unseen]
  BY <1>1 DEF Init, NewDocumentStateMachine
<1>4. PendingOK
  BY <1>1, <1>2 DEF Init, PendingOK
<1>5. DocOK
  BY <1>2, <1>3 DEF DocOK, InitialTextOnce
<1>. QED
  BY <1>4, <1>5 DEF IInv

\* An entry is proposed.
LEMMA Propose ==
    ASSUME PendingOK, NEW e, SameId(e), pending' = Append(pending, e)
    PROVE  PendingOK'
BY AppendSeq DEF PendingOK

\* Applying an entry keeps what is remembered in step with the revisions.
LEMMA ApplyOK ==
    ASSUME DocOK, NEW e, SameId(e), doc' = ApplyEntry(doc, e)
    PROVE  DocOK'
<1>1. CASE Outcome(doc, e) # "applied"
  BY <1>1 DEF ApplyEntry, DocOK, InitialTextOnce
<1>2. CASE Outcome(doc, e) = "applied"
  <2> DEFINE q == doc.revisionLog
             rec == RevisionRecord(doc, e, Transformed(doc, e))
             last == doc.clientLastSubmission
  <2>1. doc'.revisionLog = Append(q, rec) /\ doc'.clientLastSubmission = [last EXCEPT ![e.client] = e.sub]
    BY <1>2 DEF ApplyEntry, Accept
  <2>2. rec.source = e.client /\ ~IsDuplicate(doc, e)
    BY <1>2 DEF RevisionRecord, Outcome
  <2> HIDE DEF rec
  <2>3. /\ IsSeq(doc'.revisionLog) /\ DOMAIN q = 1..Len(q) /\ Len(q) \in Nat
        /\ DOMAIN doc'.revisionLog = 1..Len(q) + 1
        /\ \A i \in 1..Len(q) : doc'.revisionLog[i] = q[i]
        /\ doc'.revisionLog[Len(q) + 1] = rec
    BY <2>1, AppendSeq DEF DocOK
  <2>4. DOMAIN doc'.clientLastSubmission = Client
    BY <2>1 DEF DocOK
  <2>5. CASE e.client = SystemBootstrap
    <3>1. e.sub = 1 /\ last[SystemBootstrap] # 1
      BY <2>2, <2>5 DEF SameId, IsDuplicate, Unseen
    <3>2. \A r \in 1..Len(q) : ~Initial(doc'.revisionLog[r])
      BY <2>3, <3>1 DEF DocOK
    <3>3. doc'.clientLastSubmission[SystemBootstrap] = 1
      BY <2>1, <2>5, <3>1, StartupAssumption DEF DocOK
    <3>4. InitialTextOnce'
      BY <2>3, <3>2 DEF InitialTextOnce, Initial
    <3>. QED
      BY <2>3, <2>4, <3>3, <3>4 DEF DocOK
  <2>6. CASE e.client # SystemBootstrap
    <3>1. ~Initial(rec)
      BY <2>2, <2>6 DEF Initial
    <3>2. \A r \in DOMAIN doc'.revisionLog :
            Initial(doc'.revisionLog[r]) => r \in DOMAIN q /\ doc'.revisionLog[r] = q[r]
      BY <2>3, <3>1
    <3>3. doc'.clientLastSubmission[SystemBootstrap] = last[SystemBootstrap]
      BY <2>1, <2>6, StartupAssumption DEF DocOK
    <3>4. InitialTextOnce'
      BY <3>2 DEF InitialTextOnce, DocOK, Initial
    <3>5. \A r \in DOMAIN doc'.revisionLog :
            Initial(doc'.revisionLog[r]) => doc'.clientLastSubmission[SystemBootstrap] = 1
      BY <3>2, <3>3 DEF DocOK
    <3>. QED
      BY <2>3, <2>4, <3>4, <3>5 DEF DocOK, Initial
  <2>. QED
    BY <2>5, <2>6
<1>. QED
  BY <1>1, <1>2

\* Every step keeps the invariant.
LEMMA NextOK == IInv /\ [Next]_vars => IInv'
<1>1. SUFFICES ASSUME IInv, [Next]_vars PROVE IInv'
  OBVIOUS
<1>2. ASSUME UNCHANGED <<pending, doc>> PROVE IInv'
  BY <1>1, <1>2 DEF IInv, PendingOK, DocOK, InitialTextOnce
<1>3. ASSUME UNCHANGED doc PROVE DocOK'
  BY <1>1, <1>3 DEF IInv, DocOK, InitialTextOnce
<1>4. ASSUME NEW n \in Node, NEW b \in BOOLEAN, Start(n, b) PROVE IInv'
  BY <1>2, <1>4 DEF Start
<1>5. ASSUME NEW n \in Node, Stop(n) PROVE IInv'
  BY <1>2, <1>5 DEF Stop
<1>6. ASSUME NEW n \in Node, WaitForLeader(n) PROVE IInv'
  BY <1>2, <1>6 DEF WaitForLeader
<1>7. ASSUME NEW n \in Node, ProposeInitialText(n) PROVE IInv'
  <2>1. CASE leader = n
    <3>1. pending' = Append(pending, InitialEntry) /\ UNCHANGED doc
      BY <1>7, <2>1 DEF ProposeInitialText
    <3>2. SameId(InitialEntry)
      BY DEF SameId, InitialEntry
    <3>3. PICK e : e = InitialEntry
      OBVIOUS
    <3>. QED
      BY <1>1, <1>3, <3>1, <3>2, <3>3, Propose DEF IInv
  <2>2. CASE leader # n
    BY <1>2, <1>7, <2>2 DEF ProposeInitialText
  <2>. QED
    BY <2>1, <2>2
<1>8. ASSUME NEW c \in Client \ {SystemBootstrap}, NEW t \in Texts, Edit(c, t) PROVE IInv'
  <2>1. PICK e : e = [client |-> c, sub |-> edits[c] + 1, base |-> doc.headRev,
                      changeset |-> DiffToChangeset(doc.headText, t)]
    OBVIOUS
  <2>2. pending' = Append(pending, e) /\ UNCHANGED doc
    BY <1>8, <2>1 DEF Edit
  <2>3. SameId(e)
    BY <2>1 DEF SameId
  <2>. QED
    BY <1>1, <1>3, <2>2, <2>3, Propose DEF IInv
<1>9. ASSUME NEW n \in Node, NEW kept \in 0..Len(pending), Elect(n, kept) PROVE IInv'
  <2>1. pending' = SubSeq(pending, 1, kept) /\ UNCHANGED doc
    BY <1>9 DEF Elect
  <2>2. PendingOK'
    BY <1>1, <2>1, PrefixSeq DEF IInv, PendingOK
  <2>. QED
    BY <1>3, <2>1, <2>2 DEF IInv
<1>10. ASSUME NEW n \in Node, Configure(n) PROVE IInv'
  BY <1>2, <1>10 DEF Configure
<1>11. CASE Commit
  <2>1. PICK e : e = Head(pending)
    OBVIOUS
  <2>2. pending # << >> /\ pending' = Tail(pending) /\ doc' = ApplyEntry(doc, e)
    BY <1>11, <2>1 DEF Commit
  <2>3. PendingOK' /\ SameId(e)
    BY <1>1, <2>1, <2>2, TailSeq DEF IInv, PendingOK
  <2>. QED
    BY <1>1, <2>2, <2>3, ApplyOK DEF IInv
<1>12. CASE UNCHANGED vars
  BY <1>2, <1>12 DEF vars
<1>. QED
  BY <1>1, <1>4, <1>5, <1>6, <1>7, <1>8, <1>9, <1>10, <1>11, <1>12, Zenon DEF Next

\* However often nodes are started with -bootstrap, stop, win and lose elections,
\* at most one revision of the document is the initial text.
THEOREM InitialTextIsOnce == Spec => []InitialTextOnce
<1>1. IInv => InitialTextOnce
  BY DEF IInv, DocOK
<1>. QED
  BY <1>1, InitOK, NextOK, PTL DEF Spec

-------------------------------------------------------------------------------
(* The entries and the document they make.                                 *)

\* A goroutine that runs is that of a node with -bootstrap, which has made or
\* found the cluster; a leader runs and is a member.
NodesOK ==
    /\ up \subseteq Node /\ members \subseteq Node
    /\ leader \in (up \cap members) \cup {None}
    /\ starter = [n \in Node |-> starter[n]]
    /\ \A n \in Node : starter[n] # "none" => n \in Bootstrapper \cap up \cap members
    /\ edits \in [Client -> Nat]

\* An entry is a submission of a client, or the initial text.
EntryOK(e, n) ==
    /\ e \in RaftLogEntry /\ e.base <= n /\ Formed(e.changeset)
    /\ e.client = SystemBootstrap => e = InitialEntry

EntriesOK == \A i \in DOMAIN pending : EntryOK(pending[i], doc.headRev)

\* The document is its revisions, and an initial text that was submitted to it is
\* one of them.
RevisionsOK ==
    /\ Sound(doc) /\ Len(doc.revisionLog) = doc.headRev
    /\ doc.clientLastSubmission[SystemBootstrap] # Unseen =>
          \E r \in DOMAIN doc.revisionLog : Initial(doc.revisionLog[r])

TextInv == IInv /\ NodesOK /\ EntriesOK /\ RevisionsOK /\ IsSeq(log)

\* The initial entry is the insertion of a text into the empty one.
LEMMA InitialEntryOK ==
    /\ \A n \in Nat : EntryOK(InitialEntry, n)
    /\ Suits(<<>>, InitialEntry.changeset)
    /\ InitialEntry.base = 0 /\ InitialEntry.client = SystemBootstrap /\ InitialEntry.sub = 1
    /\ InitialEntry.changeset.ops = <<Insert(InitText)>>
    /\ Inserted(InitialEntry.changeset.ops) = InitText
<1> DEFINE c == MakeInsert(0, 0, InitText)
           o == Insert(InitText)
           w == <<o>>
<1>0. InitText \in Text /\ InitText # <<>> /\ InitText \in Seq(Nat) /\ <<>> \in Text /\ Len(<<>>) = 0
  BY StartupAssumption, TextNil DEF Text
<1>1. Suits(<<>>, c)
  <2>1. Suits(<<>>, MakeInsert(Len(<<>>), 0, InitText))
    <3>1. /\ Nat \subseteq Nat /\ <<>> \in Text /\ 0 \in 0..Len(<<>>)
          /\ InitText \in Seq(Nat) /\ InitText # <<>>
      BY <1>0
    <3>. QED
      BY ONLY <3>1, MakeInsertSuits
  <2>. QED
    BY <1>0, <2>1
<1>2. c.ops = w
  <2>1. o \in Op /\ w \in Seq(Op)
    BY <1>0, OpsOf
  <2>2. c.ops = (<<>> \o w) \o <<>>
    BY DEF MakeInsert, Around
  <2> HIDE DEF w
  <2>. QED
    BY <2>1, <2>2, ConcatEmptySeq
<1>3. Inserted(w) = InitText
  <2>1. o \in Op /\ o.chars = InitText
    BY <1>0, OpsOf DEF Insert
  <2> HIDE DEF o
  <2>2. Inserted(<<o>>) = o.chars
    BY <2>1, EmptySeq, InsertedCons
  <2>. QED
    BY <2>1, <2>2
<1>4. InitialEntry = [client |-> SystemBootstrap, sub |-> 1, base |-> 0, changeset |-> c]
  BY DEF InitialEntry
<1> HIDE DEF c, w
<1>5. c \in Changeset /\ Formed(c)
  BY <1>1 DEF Suits, Formed
<1>6. InitialEntry \in RaftLogEntry
  BY <1>4, <1>5, StartupAssumption DEF RaftLogEntry
<1>. QED
  BY <1>1, <1>2, <1>3, <1>4, <1>5, <1>6 DEF EntryOK, w

\* The nodes start in the invariant about texts.
LEMMA TextInit == Init => TextInv
<1>. SUFFICES ASSUME Init PROVE TextInv
  OBVIOUS
<1>1. IsSeq(<<>>) /\ DOMAIN <<>> = {} /\ Len(<<>>) = 0
  BY DEF IsSeq
<1>2. doc.headText = <<>> /\ doc.headRev = 0 /\ doc.revisionLog = <<>>
      /\ doc.clientLastSubmission = [c \in Client |-> Unseen]
  BY DEF Init, NewDocumentStateMachine
<1>3. NodesOK
  BY DEF Init, NodesOK
<1>4. EntriesOK
  BY <1>1 DEF Init, EntriesOK
<1>5. RevisionsOK
  BY <1>1, <1>2, ReplayIs, StartupAssumption DEF RevisionsOK, Sound
<1>. QED
  BY <1>1, <1>3, <1>4, <1>5, InitOK DEF Init, TextInv

\* An entry is proposed, ...
LEMMA ProposeEntry ==
    ASSUME TextInv, NEW e, EntryOK(e, doc.headRev), pending' = Append(pending, e), UNCHANGED doc
    PROVE  EntriesOK'
<1>1. IsSeq(pending)
  BY DEF TextInv, IInv, PendingOK
<1>2. /\ DOMAIN pending' = 1..Len(pending) + 1 /\ Len(pending) \in Nat
      /\ DOMAIN pending = 1..Len(pending)
      /\ \A i \in 1..Len(pending) : pending'[i] = pending[i]
      /\ pending'[Len(pending) + 1] = e
  BY <1>1, AppendSeq
<1>3. \A i \in DOMAIN pending' : i \in DOMAIN pending \/ i = Len(pending) + 1
  BY <1>2
<1>. QED
  BY <1>2, <1>3 DEF TextInv, EntriesOK

\* ... and applied.
LEMMA ApplyEntryOK ==
    ASSUME TextInv, NEW e, EntryOK(e, doc.headRev), doc' = ApplyEntry(doc, e)
    PROVE  RevisionsOK' /\ doc.headRev <= doc'.headRev
<1>0. /\ Sound(doc) /\ Len(doc.revisionLog) = doc.headRev /\ IsSeq(doc.revisionLog)
      /\ e.base \in Nat /\ Formed(e.changeset) /\ e.client \in Client
  BY DEF TextInv, IInv, DocOK, RevisionsOK, EntryOK, RaftLogEntry
<1>1. Sound(doc')
  BY <1>0, ApplySound
<1>2. doc.headRev \in Nat
  BY <1>0 DEF Sound
<1>3. CASE Outcome(doc, e) # "applied"
  BY <1>0, <1>2, <1>3 DEF ApplyEntry, TextInv, RevisionsOK
<1>4. CASE Outcome(doc, e) = "applied"
  <2> DEFINE q == doc.revisionLog
             rec == RevisionRecord(doc, e, Transformed(doc, e))
             last == doc.clientLastSubmission
  <2>1. /\ doc'.revisionLog = Append(q, rec)
        /\ doc'.clientLastSubmission = [last EXCEPT ![e.client] = e.sub]
        /\ doc'.headRev = doc.headRev + 1
        /\ rec.source = e.client
    BY <1>4 DEF ApplyEntry, Accept, RevisionRecord
  <2> HIDE DEF rec
  <2>2. /\ Len(doc'.revisionLog) = doc'.headRev
        /\ DOMAIN doc'.revisionLog = 1..doc'.headRev
        /\ DOMAIN q = 1..doc.headRev
        /\ \A i \in 1..doc.headRev : doc'.revisionLog[i] = q[i]
        /\ doc'.revisionLog[doc'.headRev] = rec
    BY <1>0, <2>1, AppendSeq
  <2>3. CASE e.client = SystemBootstrap
    <3>1. Initial(doc'.revisionLog[doc'.headRev]) /\ doc'.headRev \in DOMAIN doc'.revisionLog
      BY <1>2, <2>1, <2>2, <2>3 DEF Initial
    <3>. QED
      BY <1>1, <1>2, <2>1, <2>2, <3>1 DEF RevisionsOK
  <2>4. CASE e.client # SystemBootstrap
    <3>1. doc'.clientLastSubmission[SystemBootstrap] = last[SystemBootstrap]
      BY <2>1, <2>4, StartupAssumption DEF TextInv, IInv, DocOK
    <3>2. \A r \in DOMAIN q : r \in DOMAIN doc'.revisionLog /\ doc'.revisionLog[r] = q[r]
      BY <1>2, <2>1, <2>2
    <3>3. last[SystemBootstrap] # Unseen => \E r \in DOMAIN q : Initial(q[r])
      BY DEF TextInv, RevisionsOK
    <3>4. \A r \in DOMAIN q : Initial(q[r]) => Initial(doc'.revisionLog[r])
      BY <3>2
    <3>. QED
      BY <1>1, <1>2, <2>1, <2>2, <3>1, <3>2, <3>3, <3>4 DEF RevisionsOK, Initial
  <2>. QED
    BY <2>3, <2>4
<1>. QED
  BY <1>3, <1>4

\* Every step keeps goroutines, leader and members in order.
LEMMA NodesNext ==
    ASSUME TextInv, [Next]_vars
    PROVE  NodesOK'
<1>1. NodesOK
  BY DEF TextInv
<1>2. ASSUME UNCHANGED <<up, members, leader, starter, edits>> PROVE NodesOK'
  BY <1>1, <1>2 DEF NodesOK
<1>3. ASSUME NEW n \in Node, NEW b \in BOOLEAN, Start(n, b) PROVE NodesOK'
  BY <1>1, <1>3 DEF Start, NodesOK
<1>4. ASSUME NEW n \in Node, Stop(n) PROVE NodesOK'
  BY <1>1, <1>4 DEF Stop, NodesOK
<1>5. ASSUME NEW n \in Node, WaitForLeader(n) PROVE NodesOK'
  BY <1>1, <1>5 DEF WaitForLeader, NodesOK
<1>6. ASSUME NEW n \in Node, ProposeInitialText(n) PROVE NodesOK'
  BY <1>1, <1>6 DEF ProposeInitialText, NodesOK
<1>7. ASSUME NEW c \in Client \ {SystemBootstrap}, NEW t \in Texts, Edit(c, t) PROVE NodesOK'
  BY <1>1, <1>7 DEF Edit, NodesOK
<1>8. ASSUME NEW n \in Node, NEW kept \in 0..Len(pending), Elect(n, kept) PROVE NodesOK'
  BY <1>1, <1>8 DEF Elect, NodesOK
<1>9. ASSUME NEW n \in Node, Configure(n) PROVE NodesOK'
  BY <1>1, <1>9 DEF Configure, NodesOK
<1>10. CASE Commit
  BY <1>2, <1>10 DEF Commit
<1>11. CASE UNCHANGED vars
  BY <1>2, <1>11 DEF vars
<1>. QED
  BY <1>3, <1>4, <1>5, <1>6, <1>7, <1>8, <1>9, <1>10, <1>11, Zenon DEF Next

\* What a client submits is a difference of its text from the head.
LEMMA EditEntryOK ==
    ASSUME TextInv, NEW c \in Client \ {SystemBootstrap}, NEW t \in Texts
    PROVE  EntryOK([client |-> c, sub |-> edits[c] + 1, base |-> doc.headRev,
                    changeset |-> DiffToChangeset(doc.headText, t)], doc.headRev)
<1> DEFINE old == doc.headText
           d == DiffToChangeset(old, t)
           e == [client |-> c, sub |-> edits[c] + 1, base |-> doc.headRev, changeset |-> d]
<1>1. doc.headRev \in Nat /\ old = ReplayTo(doc, doc.headRev)
  BY DEF TextInv, RevisionsOK, Sound
<1>2. old \in Text /\ t \in Text
  BY <1>1, SoundTexts, StartupAssumption DEF TextInv, RevisionsOK
<1>3. d \in Changeset /\ Formed(d)
  <2> HIDE DEF old
  <2>1. Suits(old, d)
    BY <1>2, DiffSuits
  <2>. QED
    BY <2>1 DEF Suits, Formed
<1>4. edits[c] + 1 \in Nat
  BY DEF TextInv, NodesOK
<1> HIDE DEF d
<1>5. e \in RaftLogEntry /\ e.client = c /\ e.base = doc.headRev /\ e.changeset = d
  BY <1>1, <1>3, <1>4 DEF RaftLogEntry
<1> HIDE DEF e
<1>6. EntryOK(e, doc.headRev)
  BY <1>1, <1>3, <1>5 DEF EntryOK
<1>. QED
  BY <1>6 DEF e, d

\* Every step keeps the invariant about texts.
LEMMA TextNext == TextInv /\ [Next]_vars => TextInv'
<1>1. SUFFICES ASSUME TextInv, [Next]_vars PROVE TextInv'
  OBVIOUS
<1> DEFINE OK == EntriesOK' /\ RevisionsOK' /\ IsSeq(log')
<1>0. /\ IsSeq(pending) /\ EntriesOK /\ RevisionsOK /\ IsSeq(log) /\ doc.headRev \in Nat
  <2>1. IsSeq(pending) /\ EntriesOK /\ RevisionsOK /\ IsSeq(log)
    BY <1>1 DEF TextInv, IInv, PendingOK
  <2>. QED
    BY <2>1 DEF RevisionsOK, Sound
<1>2. ASSUME UNCHANGED <<pending, doc, log>> PROVE OK
  BY <1>0, <1>2 DEF EntriesOK, RevisionsOK
<1>3. ASSUME UNCHANGED <<doc, log>> PROVE RevisionsOK' /\ IsSeq(log')
  BY <1>0, <1>3 DEF RevisionsOK
<1>4. ASSUME NEW n \in Node, NEW b \in BOOLEAN, Start(n, b) PROVE OK
  BY <1>2, <1>4 DEF Start
<1>5. ASSUME NEW n \in Node, Stop(n) PROVE OK
  BY <1>2, <1>5 DEF Stop
<1>6. ASSUME NEW n \in Node, WaitForLeader(n) PROVE OK
  BY <1>2, <1>6 DEF WaitForLeader
<1>7. ASSUME NEW n \in Node, ProposeInitialText(n) PROVE OK
  <2>1. CASE leader = n
    <3>1. pending' = Append(pending, InitialEntry) /\ UNCHANGED <<doc, log>>
      BY <1>7, <2>1 DEF ProposeInitialText
    <3>2. EntryOK(InitialEntry, doc.headRev)
      BY <1>0, InitialEntryOK
    <3>3. PICK e : e = InitialEntry
      OBVIOUS
    <3>4. EntriesOK'
      BY <1>1, <3>1, <3>2, <3>3, ProposeEntry
    <3>. QED
      BY <1>3, <3>1, <3>4
  <2>2. CASE leader # n
    BY <1>2, <1>7, <2>2 DEF ProposeInitialText
  <2>. QED
    BY <2>1, <2>2
<1>8. ASSUME NEW c \in Client \ {SystemBootstrap}, NEW t \in Texts, Edit(c, t) PROVE OK
  <2>1. PICK e : e = [client |-> c, sub |-> edits[c] + 1, base |-> doc.headRev,
                      changeset |-> DiffToChangeset(doc.headText, t)]
    OBVIOUS
  <2>2. pending' = Append(pending, e) /\ UNCHANGED <<doc, log>>
    BY <1>8, <2>1 DEF Edit
  <2>3. EntryOK(e, doc.headRev)
    BY <1>1, <2>1, EditEntryOK
  <2>4. EntriesOK'
    BY <1>1, <2>2, <2>3, ProposeEntry
  <2>. QED
    BY <1>3, <2>2, <2>4
<1>9. ASSUME NEW n \in Node, NEW kept \in 0..Len(pending), Elect(n, kept) PROVE OK
  <2>1. pending' = SubSeq(pending, 1, kept) /\ UNCHANGED <<doc, log>>
    BY <1>9 DEF Elect
  <2>2. EntriesOK'
    BY <1>0, <2>1, PrefixSeq DEF EntriesOK
  <2>. QED
    BY <1>3, <2>1, <2>2
<1>10. ASSUME NEW n \in Node, Configure(n) PROVE OK
  BY <1>2, <1>10 DEF Configure
<1>11. ASSUME Commit PROVE OK
  <2>1. PICK e : e = Head(pending)
    OBVIOUS
  <2>2. /\ pending # << >> /\ pending' = Tail(pending) /\ doc' = ApplyEntry(doc, e)
        /\ log' = Append(log, e)
    BY <1>11, <2>1 DEF Commit
  <2>3. EntryOK(e, doc.headRev)
    BY <1>0, <2>1, <2>2, TailSeq DEF EntriesOK
  <2>4. RevisionsOK' /\ doc.headRev <= doc'.headRev
    BY <1>1, <2>2, <2>3, ApplyEntryOK
  <2>5. EntriesOK'
    <3>1. SUFFICES ASSUME NEW i \in DOMAIN pending' PROVE EntryOK(pending'[i], doc'.headRev)
      BY DEF EntriesOK
    <3>2. EntryOK(pending'[i], doc.headRev)
      BY <1>0, <2>2, TailSeq DEF EntriesOK
    <3>3. doc'.headRev \in Nat /\ pending'[i].base \in Nat
      BY <2>4, <3>2 DEF RevisionsOK, Sound, EntryOK, RaftLogEntry
    <3>. QED
      BY <1>0, <2>4, <3>2, <3>3 DEF EntryOK
  <2>6. IsSeq(log')
    BY <1>0, <2>2, AppendSeq
  <2>. QED
    BY <2>4, <2>5, <2>6
<1>12. ASSUME UNCHANGED vars PROVE OK
  BY <1>2, <1>12 DEF vars
<1> HIDE DEF OK
<1>13. OK
  <2>1. Next => OK
    BY <1>4, <1>5, <1>6, <1>7, <1>8, <1>9, <1>10, <1>11, Zenon DEF Next
  <2>. QED
    BY <1>1, <1>12, <2>1
<1>14. IInv'
  BY <1>1, NextOK DEF TextInv
<1>15. NodesOK'
  BY <1>1, NodesNext
<1>. QED
  BY <1>13, <1>14, <1>15 DEF TextInv, OK

\* The invariant about texts holds in every reachable state.
LEMMA TextAlways == Spec => []TextInv
BY TextInit, TextNext, PTL DEF Spec

\* Nodes, goroutines, proposals and the document are always of their types: in
\* particular only a node that was told to bootstrap has a goroutine, and no
\* entry is based on a revision that is not there.
THEOREM StartupTypes == Spec => []TypeOK
<1>1. TextInv => TypeOK
  BY DEF TextInv, NodesOK, EntriesOK, EntryOK, RevisionsOK, TypeOK
<1>. QED
  BY <1>1, TextAlways, PTL

\* The initial text, caught up with the edits before it, is still one insertion.
LEMMA InitialTextApplies ==
    ASSUME TextInv, \A r \in DOMAIN doc.revisionLog : ~Initial(doc.revisionLog[r]),
           doc' = ApplyEntry(doc, InitialEntry)
    PROVE  \E i \in 0..Len(doc.headText) :
              doc'.headText = (SubSeq(doc.headText, 1, i) \o InitText)
                                \o SubSeq(doc.headText, i + 1, Len(doc.headText))
<1> DEFINE e == InitialEntry
           C == Transformed(doc, e)
           m == Len(InitText)
           S == LongInserts(m)
<1>1. /\ Suits(<<>>, e.changeset) /\ e.base = 0 /\ e.client = SystemBootstrap
      /\ e.changeset.ops = <<Insert(InitText)>> /\ Inserted(e.changeset.ops) = InitText
  BY InitialEntryOK
<1>2. InitText \in Text /\ InitText # <<>> /\ m \in Nat
  BY StartupAssumption, TextNil
<1>3. Sound(doc) /\ doc.headRev \in Nat /\ doc.clientLastSubmission[SystemBootstrap] = Unseen
  BY DEF TextInv, RevisionsOK, Sound
<1> HIDE DEF e
<1>4. Suits(ReplayTo(doc, e.base), e.changeset) /\ e.base \in 0..doc.headRev /\ e.base \in Nat
  BY <1>1, <1>3, ReplayIs
<1>5. Suits(doc.headText, C) /\ Inserted(C.ops) = InitText
  BY <1>1, <1>3, <1>4, TransformedSuits
<1>6. Outcome(doc, e) = "applied"
  <2>1. ~IsDuplicate(doc, e)
    BY <1>1, <1>3 DEF IsDuplicate
  <2>2. Applicable(doc.headText, C)
    BY <1>5, SuitsIsValid
  <2>. QED
    BY <2>1, <2>2 DEF Outcome
<1>7. doc'.headText = ApplyChangeset(doc.headText, C)
  BY <1>6 DEF ApplyEntry, Accept, e
<1>8. e.changeset.ops \in Seq(S)
  <2> DEFINE o == Insert(InitText)
  <2>1. o \in Op /\ o.op = "insert" /\ o.chars = InitText
    BY <1>2, OpsOf DEF Insert
  <2>2. o \in S
    BY <1>2, <2>1 DEF LongInserts
  <2> HIDE DEF o, S
  <2>3. <<o>> \in Seq(S)
    BY <2>2
  <2>. QED
    BY <1>1, <2>3 DEF o
<1>9. Closed(S)
  BY <1>2, LongInsertsClosed
<1>10. C.ops \in Seq(S)
  <2> HIDE DEF S
  <2>. QED
    BY <1>3, <1>4, <1>8, <1>9, TransformedWithin
<1> HIDE DEF C
<1>11. Suits(doc.headText, C) /\ Inserted(C.ops) # <<>> /\ C.ops \in Seq(LongInserts(Len(Inserted(C.ops))))
  BY <1>2, <1>5, <1>10
<1>12. \E i \in 0..Len(doc.headText) :
          ApplyChangeset(doc.headText, C)
              = (SubSeq(doc.headText, 1, i) \o Inserted(C.ops))
                   \o SubSeq(doc.headText, i + 1, Len(doc.headText))
  BY ONLY <1>11, OneInsertion
<1>. QED
  BY <1>5, <1>7, <1>12

\* When the initial text is committed after edits, it is put into their text in
\* one piece, and takes nothing from it.
THEOREM InitialTextIsWhole == Spec => InitialTextMerges
<1>1. TextInv /\ [Next]_vars => [MergesInitialText]_vars
  <2>1. SUFFICES ASSUME TextInv, Next PROVE MergesInitialText
    OBVIOUS
  <2>2. IsSeq(log) /\ Len(log) \in Nat
    BY <2>1, AppendSeq DEF TextInv
  <2>3. ASSUME UNCHANGED log PROVE MergesInitialText
    BY <2>2, <2>3 DEF MergesInitialText
  <2>4. ASSUME Commit PROVE MergesInitialText
    <3>1. PICK e : e = Head(pending)
      OBVIOUS
    <3>2. /\ pending # << >> /\ doc' = ApplyEntry(doc, e) /\ log' = Append(log, e)
      BY <2>4, <3>1 DEF Commit
    <3>3. IsSeq(pending) /\ EntriesOK
      BY <2>1 DEF TextInv, IInv, PendingOK
    <3>4. EntryOK(e, doc.headRev)
      BY <3>1, <3>2, <3>3, TailSeq DEF EntriesOK
    <3>5. Len(log') = Len(log) + 1 /\ log'[Len(log')] = e
      BY <2>2, <3>2, AppendSeq
    <3>6. SUFFICES ASSUME e.client = SystemBootstrap,
                          \A r \in DOMAIN doc.revisionLog : ~Initial(doc.revisionLog[r])
                   PROVE  \E i \in 0..Len(doc.headText) :
                            doc'.headText = (SubSeq(doc.headText, 1, i) \o InitText)
                                   \o SubSeq(doc.headText, i + 1, Len(doc.headText))
      BY <3>5 DEF MergesInitialText
    <3>7. doc' = ApplyEntry(doc, InitialEntry)
      BY <3>2, <3>4, <3>6 DEF EntryOK
    <3>. QED
      BY <2>1, <3>6, <3>7, InitialTextApplies
  <2>5. ASSUME NEW n \in Node, NEW b \in BOOLEAN, Start(n, b) PROVE MergesInitialText
    BY <2>3, <2>5 DEF Start
  <2>6. ASSUME NEW n \in Node, Stop(n) \/ WaitForLeader(n) \/ ProposeInitialText(n) \/ Configure(n)
        PROVE  MergesInitialText
    BY <2>3, <2>6 DEF Stop, WaitForLeader, ProposeInitialText, Configure
  <2>7. ASSUME NEW c \in Client \ {SystemBootstrap}, NEW t \in Texts, Edit(c, t)
        PROVE  MergesInitialText
    BY <2>3, <2>7 DEF Edit
  <2>8. ASSUME NEW n \in Node, NEW kept \in 0..Len(pending), Elect(n, kept)
        PROVE  MergesInitialText
    BY <2>3, <2>8 DEF Elect
  <2>. QED
    BY <2>1, <2>4, <2>5, <2>6, <2>7, <2>8, Zenon DEF Next
<1>. QED
  BY <1>1, TextAlways, PTL DEF Spec, InitialTextMerges

================================================================================
