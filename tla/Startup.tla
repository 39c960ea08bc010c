------------------------------- MODULE Startup -------------------------------
(***************************************************************************)
(* How a cluster comes up and gets its initial text: main.go and SetupRaft *)
(* of cluster.go.                                                          *)
(*                                                                         *)
(* A node started with -bootstrap makes the cluster, unless there is one,  *)
(* and leaves a goroutine behind that waits for the node to lead and then  *)
(* proposes -init-text, while editors already write.  Nothing is left of   *)
(* the goroutine when the process ends.                                    *)
(*                                                                         *)
(* Raft (external) is its contract: only a node that knows the             *)
(* configuration can be elected, by a majority; the others learn the       *)
(* configuration from the leader; an entry proposed to the leader is       *)
(* committed in its turn, or lost when the leadership changes.  The        *)
(* document is that of the state machine that has applied every committed  *)
(* entry.                                                                  *)
(***************************************************************************)
EXTENDS DocumentStateMachine, FiniteSets

CONSTANTS
    Node,
    Bootstrapper,       \* the nodes that are started with -bootstrap -init-text
    SystemBootstrap,    \* the client id of the initial text
    InitText,
    Texts,              \* the texts a user may leave in an editor
    None,
    MaxEdits,           \* bound: the edits of a client
    MaxElections,       \* bound: elections
    Stops               \* bound: whether nodes stop

ASSUME StartupAssumption ==
    /\ Bootstrapper \subseteq Node /\ None \notin Node
    /\ SystemBootstrap \in Client
    /\ InitText \in Text /\ InitText # <<>> /\ Texts \subseteq Text
    /\ MaxEdits \in Nat /\ MaxElections \in Nat /\ Stops \in BOOLEAN

VARIABLES
    up,         \* the nodes that run
    members,    \* the nodes that have the configuration in their log
    leader,     \* the node that leads, or None
    starter,    \* starter[n]: how far the goroutine of n is
    pending,    \* the entries in the leader's log that are not committed
    log,        \* the entries committed
    doc,        \* the state machine that has applied them
    edits,      \* edits[c]: the edits client c has sent
    elections

vars == <<up, members, leader, starter, pending, log, doc, edits, elections>>

Init ==
    /\ up = {} /\ members = {} /\ leader = None
    /\ starter = [n \in Node |-> "none"]
    /\ pending = <<>>
    /\ log = <<>>
    /\ doc = NewDocumentStateMachine(<<>>)
    /\ edits = [c \in Client |-> 0]
    /\ elections = 0

-------------------------------------------------------------------------------
\* SetupRaft bootstraps with the peers' configuration; ErrCantBootstrap is no
\* error.  -bootstrap is for the first start (main.go:15); whoever starts the node
\* again may give it again.
Start(n, bootstrap) ==
    /\ n \notin up
    /\ bootstrap => n \in Bootstrapper
    /\ n \in Bootstrapper \ members => bootstrap
    /\ up' = up \cup {n}
    /\ members' = IF bootstrap THEN members \cup {n} ELSE members
    /\ starter' = [starter EXCEPT ![n] = IF bootstrap THEN "waiting" ELSE "none"]
    /\ UNCHANGED <<leader, pending, log, doc, edits, elections>>

\* The process is told to stop, or dies.
Stop(n) ==
    /\ Stops
    /\ n \in up
    /\ up' = up \ {n}
    /\ starter' = [starter EXCEPT ![n] = "none"]
    /\ leader' = IF leader = n THEN None ELSE leader
    /\ UNCHANGED <<members, pending, log, doc, edits, elections>>

\* IsLeader, asked every 100 ms.
\* (Mutant: asked once.)
WaitForLeaderOnce(n) ==
    /\ starter[n] = "waiting"
    /\ starter' = [starter EXCEPT ![n] = IF leader = n THEN "leading" ELSE "none"]
    /\ UNCHANGED <<up, members, leader, pending, log, doc, edits, elections>>
WaitForLeader(n) ==
    /\ starter[n] = "waiting"
    /\ leader = n
    /\ starter' = [starter EXCEPT ![n] = "leading"]
    /\ UNCHANGED <<up, members, leader, pending, log, doc, edits, elections>>

\* (Mutants: numbered by the revision it is to make; based on the head.)
InitialEntryNumbered ==
    [client |-> SystemBootstrap, sub |-> doc.headRev + 1, base |-> 0,
     changeset |-> MakeInsert(0, 0, InitText)]
InitialEntryAtHead ==
    [client |-> SystemBootstrap, sub |-> 1, base |-> doc.headRev,
     changeset |-> MakeInsert(0, 0, InitText)]
InitialEntry ==
    [client |-> SystemBootstrap, sub |-> 1, base |-> 0,
     changeset |-> MakeInsert(0, 0, InitText)]

\* The goroutine proposes, and ends without looking at the outcome: when the
\* node leads no more, nothing comes of it.
ProposeInitialText(n) ==
    /\ starter[n] = "leading"
    /\ pending' = IF leader = n THEN Append(pending, InitialEntry) ELSE pending
    /\ starter' = [starter EXCEPT ![n] = "none"]
    /\ UNCHANGED <<up, members, leader, log, doc, edits, elections>>

-------------------------------------------------------------------------------
(* Editors, as they concern the initial text.                              *)

\* A client edits the head, and the leader proposes it.
Edit(c, t) ==
    /\ leader # None
    /\ edits[c] < MaxEdits
    /\ t # doc.headText
    /\ edits' = [edits EXCEPT ![c] = @ + 1]
    /\ pending' = Append(pending,
            [client |-> c, sub |-> edits[c] + 1, base |-> doc.headRev,
             changeset |-> DiffToChangeset(doc.headText, t)])
    /\ UNCHANGED <<up, members, leader, starter, log, doc, elections>>

-------------------------------------------------------------------------------
(* Raft.                                                                   *)

Majority(S) == 2 * Cardinality(S) > Cardinality(Node)

\* Of the entries proposed to earlier leaders the new one has the first few; the
\* others are lost.
Elect(n, kept) ==
    /\ leader # n
    /\ elections < MaxElections
    /\ n \in up \cap members
    /\ Majority(up)
    /\ leader' = n
    /\ elections' = elections + 1
    /\ pending' = SubSeq(pending, 1, kept)
    /\ UNCHANGED <<up, members, starter, log, doc, edits>>

Configure(n) ==
    /\ leader # None
    /\ n \in up \ members
    /\ members' = members \cup {n}
    /\ UNCHANGED <<up, leader, starter, pending, log, doc, edits, elections>>

Commit ==
    /\ leader # None
    /\ Majority(up)
    /\ pending # <<>>
    /\ pending' = Tail(pending)
    /\ log' = Append(log, Head(pending))
    /\ doc' = ApplyEntry(doc, Head(pending))
    /\ UNCHANGED <<up, members, leader, starter, edits, elections>>

-------------------------------------------------------------------------------
Next ==
    \/ \E n \in Node, bootstrap \in BOOLEAN : Start(n, bootstrap)
    \/ \E n \in Node : Stop(n)
    \/ \E n \in Node : WaitForLeader(n)
    \/ \E n \in Node : ProposeInitialText(n)
    \/ \E c \in Client \ {SystemBootstrap}, t \in Texts : Edit(c, t)
    \/ \E n \in Node, kept \in 0..Len(pending) : Elect(n, kept)
    \/ \E n \in Node : Configure(n)
    \/ Commit

Spec == Init /\ [][Next]_vars

\* Nodes are started, with -bootstrap where that is told; one that is elected
\* while no node leads; proposals to a leader that stays are committed; and the
\* goroutine of a node that runs goes on.
FairSpec ==
    /\ Spec
    /\ \A n \in Bootstrapper : WF_vars(Start(n, TRUE))
    /\ \A n \in Node \ Bootstrapper : WF_vars(Start(n, FALSE))
    /\ WF_vars(leader = None /\ \E n \in Node, kept \in 0..Len(pending) : Elect(n, kept))
    /\ WF_vars(Commit)
    /\ \A n \in Node : WF_vars(WaitForLeader(n)) /\ WF_vars(ProposeInitialText(n))

-------------------------------------------------------------------------------
TypeOK ==
    /\ up \subseteq Node /\ members \subseteq Node
    /\ leader \in (up \cap members) \cup {None}
    /\ \A n \in Node : starter[n] # "none" => n \in Bootstrapper \cap up \cap members
    /\ \A i \in DOMAIN pending : pending[i] \in RaftLogEntry /\ pending[i].base <= doc.headRev
    /\ Len(doc.revisionLog) = doc.headRev

Initial(record) == record.source = SystemBootstrap

\* However often nodes are started with -bootstrap, and whatever becomes of the
\* proposals, the document gets the initial text once: every goroutine submits
\* the same submission (main.go:97-98).
InitialTextOnce ==
    \A r, q \in DOMAIN doc.revisionLog :
        Initial(doc.revisionLog[r]) /\ Initial(doc.revisionLog[q]) => r = q

\* The initial text is based on the empty document (main.go:95-100).  When it is
\* committed after edits, it is added to their text as a whole and takes
\* nothing from it.
MergesInitialText ==
    LET n == Len(log') IN
    n > Len(log) /\ log'[n].client = SystemBootstrap
        /\ (\A r \in DOMAIN doc.revisionLog : ~Initial(doc.revisionLog[r]))
    => \E i \in 0..Len(doc.headText) :
          doc'.headText = (SubSeq(doc.headText, 1, i) \o InitText)
                            \o SubSeq(doc.headText, i + 1, Len(doc.headText))
InitialTextMerges == [][MergesInitialText]_vars

\* "If init-text is provided, the leader will propose it as an initial log entry"
\* (main.go:68-69): no edit comes before it.
InitialTextFirst ==
    \A r \in DOMAIN doc.revisionLog : Initial(doc.revisionLog[r]) => r = 1

\* "the leader will propose it ... so it replicates correctly to followers"
\* (main.go:68-69): the document gets it at some time.
InitialTextAppears ==
    <>(\E r \in DOMAIN doc.revisionLog : Initial(doc.revisionLog[r]))

===============================================================================
