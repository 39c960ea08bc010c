----------------------------- MODULE EditorSystem -----------------------------
(***************************************************************************)
(* Browsers, WebSockets and servers together: the editor as its users see  *)
(* it.  A page is the record of EditorClient.  What its connection does on *)
(* the server is coarser here than in Hub: a callback, and the reading of  *)
(* the state for a CONNECT_ACK, are one step each.                         *)
(*                                                                         *)
(* The servers' document is one state machine, fsm, and what its Apply     *)
(* returned for each committed entry; a node has handled a prefix of the   *)
(* entries (by the agreement proved of ReplicatedDocument, each node that  *)
(* applies an entry gets that same result).  A message names a revision    *)
(* instead of carrying its changeset.                                      *)
(*                                                                         *)
(* The protocol does not survive everything that can happen.  What may     *)
(* happen out of the ordinary is listed in the constant Races.             *)
(***************************************************************************)
EXTENDS FiniteSets, EditorClient, DocumentStateMachine
LOCAL INSTANCE SequencesExt

CONSTANTS
    Node,       \* the servers
    None,       \* no server
    Letter,     \* Letter[c]: the character that the user of c types
    Writer,     \* bound: the clients whose users type
    Wide,       \* the characters that UTF-8 encodes in two bytes
    MaxTyped,   \* bound: characters each user types
    MaxErased,  \* bound: characters erased, by all users
    MaxEntries, \* bound: entries that are committed
    MaxFaults,  \* bound: disconnections, losses, retries, leader changes, ...
    Races       \* bound: which unfavourable orders of events happen

\* "slow"    a submission is sent again while the first is still under way
\* "midair"  a connection ends with edits or a submission outstanding
\* "deposed" leadership is lost or passes on while pages are connected
\* "removal" a server notices the end of a connection after the next one was made
\* "null"    two users erase all that is left of the text at once
\* "behind"  a client connects again after it missed more than one revision
\* "late"    a client connects while callbacks are outstanding
\* "lag"     a client connects to a node that has not applied all entries
\* "close"   the close event of a socket comes after the next one was made
\* "order"   callbacks run in another order than they were started in
\* "full"    a message is dropped because the send channel is full
\* "reload"  a page is loaded again with edits or a submission outstanding
RaceKinds == {"slow", "midair", "deposed", "removal", "null", "behind", "late", "lag",
              "close", "order", "full", "reload"}

ASSUME SystemAssumption ==
    /\ None \notin Node
    /\ Letter \in [Client -> Nat]
    /\ Writer \subseteq Client
    /\ Wide \subseteq Nat
    /\ {MaxTyped, MaxErased, MaxEntries, MaxFaults} \subseteq Nat
    /\ Races \subseteq RaceKinds

VARIABLES
    page,       \* page[c]: the page of client c, with its newest socket
    up,         \* up[c]: what that socket has sent and the server has not read
    down,       \* down[c]: what it has been sent and the page has not handled
    registered, \* registered[c]: "no", "connecting" (in handleConnect), "yes", or
                \* "removed": it was, but an earlier connection's end deregistered it
    leaving,    \* leaving[c]: the nodes yet to notice that a connection of c ended
    proposed,   \* the entries handed to Raft, not committed yet
    fsm,        \* the state machine after all committed entries
    results,    \* the results of Apply for the committed entries
    nulls,      \* the revisions whose Ops is a nil slice, "ops":null in JSON
    applied,    \* applied[n]: how many entries node n has applied
    pending,    \* pending[n]: the callbacks of n that have not run
    leader,     \* the leader, as every node knows it (external)
    typed,      \* typed[c]: history: characters the user of c has typed
    erased,     \* history: characters erased
    faults      \* history: faults so far

docVars == <<fsm, results, nulls, applied>>
netVars == <<up, down, registered, leaving>>
userVars == <<typed, erased>>
vars == <<page, netVars, proposed, docVars, pending, leader, userVars, faults>>

Allowed(race, orderly) == race \in Races \/ orderly

Fault == faults < MaxFaults /\ faults' = faults + 1

Init ==
    /\ leader \in Node
    /\ page = [c \in Client |-> NewPage(0, leader)]
    /\ up = [c \in Client |-> <<>>] /\ down = [c \in Client |-> <<>>]
    /\ registered = [c \in Client |-> "no"] /\ leaving = [c \in Client |-> {}]
    /\ proposed = {}
    /\ fsm = NewDocumentStateMachine(<<>>) /\ results = <<>> /\ nulls = {}
    /\ applied = [n \in Node |-> 0] /\ pending = [n \in Node |-> <<>>]
    /\ typed = [c \in Client |-> 0] /\ erased = 0 /\ faults = 0

-------------------------------------------------------------------------------
(* What a node knows, and messages.                                        *)

HeadRev(n) == IF applied[n] = 0 THEN 0 ELSE results[applied[n]].rev
TextAt(r) == ReplayTo(fsm, r)

\* A revision as a page gets it, and those of a catch-up.
Sent(r) == IF r \in nulls THEN Null ELSE fsm.revisionLog[r].changeset
RevisionsBetween(from, to) ==
    [i \in DOMAIN SubSeq(RevisionsSince(fsm, from), 1, to - from) |-> Sent(from + i)]

ConnectMsg(r) == [type |-> "CONNECT", rev |-> r]
SubmitMsg(s) == [type |-> "SUBMIT", submission |-> Submission(s)]
ConnectAckMsg(from, r) == [type |-> "CONNECT_ACK", from |-> from, rev |-> r]
RedirectMsg(n) == [type |-> "REDIRECT", to |-> n]
AckMsg(r) == [type |-> "ACK", rev |-> r]
BroadcastMsg(r) == [type |-> "BROADCAST", rev |-> r]

Reply(c, m) == down' = [down EXCEPT ![c] = Append(@, m)]
Goto(c, phase) == registered' = [registered EXCEPT ![c] = phase]
Update(c, s) == page' = [page EXCEPT ![c] = s]

\* The submission in X is on its way, or its answer is.
UnderWay(c) ==
    \/ \E m \in ToSet(up[c]) : m.type = "SUBMIT"
    \/ \E e \in proposed : e.client = c
    \/ \E i \in (applied[page[c].server] + 1)..Len(results) : results[i].client = c
    \/ \E n \in Node : \E r \in ToSet(pending[n]) : r.client = c
    \/ \E m \in ToSet(down[c]) : m.type \in {"ACK", "ERROR", "REDIRECT"}

\* Nothing of the user's is outstanding.
Idle(c) == ~page[c].waitingForAck /\ page[c].editor = page[c].baseText

\* Nor does Y, which is only computed now and then, have edits that were undone
\* or submitted since.
Settled(c) == Idle(c) /\ (page[c].A = Null \/ isIdentity(page[c].Y))

-------------------------------------------------------------------------------
(* Users.                                                                  *)

Type(c) ==
    LET s == page[c] IN
    /\ s.active /\ c \in Writer /\ typed[c] < MaxTyped
    /\ \E pos \in 0..Len(s.editor) :
          Update(c, [s EXCEPT !.editor = InsertAt(@, pos + 1, Letter[c])])
    /\ typed' = [typed EXCEPT ![c] = @ + 1]
    /\ UNCHANGED <<netVars, proposed, docVars, pending, leader, erased, faults>>

Erase(c) ==
    LET s == page[c] IN
    /\ s.active /\ erased < MaxErased
    /\ \E pos \in DOMAIN s.editor : Update(c, [s EXCEPT !.editor = RemoveAt(@, pos)])
    /\ erased' = erased + 1
    /\ UNCHANGED <<netVars, proposed, docVars, pending, leader, typed, faults>>

\* The Connect button, for any server; or the timer of handleRedirect.
Connect(c, n) ==
    LET s == page[c] IN
    /\ \/ s.socket = "none"
       \/ s.socket = "redirected" /\ n = s.server
    /\ s.closing <= IF "close" \in Races THEN 1 ELSE 0
    /\ Update(c, connectToServer([s EXCEPT !.server = n]))
    /\ UNCHANGED <<netVars, proposed, docVars, pending, leader, userVars, faults>>

-------------------------------------------------------------------------------
(* The page's events.                                                      *)

\* CONNECT is sent when the socket opens, if ws is not null then.
Open(c) ==
    LET s == page[c] IN
    /\ s.socket = "opening"
    /\ Update(c, [s EXCEPT !.socket = "open"])
    /\ up' = IF s.ws THEN [up EXCEPT ![c] = <<ConnectMsg(s.serverRev)>>] ELSE up
    /\ UNCHANGED <<down, registered, leaving, proposed, docVars, pending, leader, userVars, faults>>

\* A message is handled.  (A page whose ws is null is not followed further when
\* it is redirected: its socket would stay open beside the next.)
Handled(s, m) ==
    CASE m.type = "CONNECT_ACK" ->
            handleConnectAck(s, TextAt(m.rev), m.rev, RevisionsBetween(m.from, m.rev))
      [] m.type = "ACK" -> handleAck(s, m.rev)
      [] m.type = "BROADCAST" ->
            handleBroadcast(s, Sent(m.rev), m.rev)
      [] m.type = "ERROR" -> s

Receive(c) ==
    /\ page[c].socket = "open" /\ down[c] # <<>>
    /\ Head(down[c]).type # "REDIRECT"
    /\ Update(c, Handled(page[c], Head(down[c])))
    /\ down' = [down EXCEPT ![c] = Tail(@)]
    /\ UNCHANGED <<up, registered, leaving, proposed, docVars, pending, leader, userVars, faults>>

\* The end of a socket: what is on its way is lost, the client is deregistered, now
\* or when the server notices, and the handler of a submission under way has nobody
\* to answer.
NoticedLate(c) == "removal" \in Races /\ registered[c] # "no"
Hangup(c) ==
    /\ up' = [up EXCEPT ![c] = <<>>] /\ down' = [down EXCEPT ![c] = <<>>]
    /\ Goto(c, "no")
    /\ leaving' \in {leaving} \cup
            (IF NoticedLate(c) THEN {[leaving EXCEPT ![c] = @ \cup {page[c].server}]} ELSE {})
    /\ proposed' = {IF e.client = c THEN [e EXCEPT !.waiting = FALSE] ELSE e : e \in proposed}

ReceiveRedirect(c) ==
    LET s == page[c]
        m == Head(down[c])
    IN  /\ s.socket = "open" /\ s.ws /\ down[c] # <<>> /\ m.type = "REDIRECT"
        /\ Update(c, handleRedirect(s, IF m.to = None THEN s.server ELSE m.to))
        /\ Hangup(c)
        /\ UNCHANGED <<docVars, pending, leader, userVars, faults>>

\* submitTick, when it has something new to submit.
Tick(c) ==
    LET s == MoveToX(page[c]) IN
    /\ MayTick(page[c]) /\ ~page[c].waitingForAck
    /\ ~isIdentity(NewEdits(page[c]))
    /\ Update(c, s)
    /\ up' = [up EXCEPT ![c] = Append(@, SubmitMsg(s))]
    /\ UNCHANGED <<down, registered, leaving, proposed, docVars, pending, leader, userVars, faults>>

\* submitTick two seconds after a submission that is still unanswered.
Retry(c) ==
    LET s == page[c] IN
    /\ MayTick(s) /\ s.waitingForAck
    /\ Allowed("slow", ~UnderWay(c))
    /\ UnderWay(c) => Fault
    /\ ~UnderWay(c) => UNCHANGED faults
    /\ up' = [up EXCEPT ![c] = Append(@, SubmitMsg(s))]
    /\ UNCHANGED <<page, down, registered, leaving, proposed, docVars, pending, leader, userVars>>

\* The connection is lost, or given up by the user or the server.
Disconnect(c) ==
    LET s == page[c] IN
    /\ s.socket \in {"opening", "open"}
    /\ Allowed("midair", Settled(c))
    /\ Fault
    /\ Update(c, onWsClose([s EXCEPT !.socket = "none"]))
    /\ Hangup(c)
    /\ UNCHANGED <<docVars, pending, leader, userVars>>

\* The close event of an earlier socket.
LateClose(c) ==
    LET s == page[c] IN
    /\ s.closing > 0
    /\ Update(c, onWsClose([s EXCEPT !.closing = @ - 1]))
    /\ UNCHANGED <<netVars, proposed, docVars, pending, leader, userVars, faults>>

\* The page is loaded again: what localStorage has is kept.
Reload(c) ==
    LET s == page[c] IN
    /\ Allowed("reload", Idle(c))
    /\ Fault
    /\ Update(c, NewPage(s.nextSubmissionId, s.server))
    /\ Hangup(c)
    /\ UNCHANGED <<docVars, pending, leader, userVars>>

-------------------------------------------------------------------------------
(* The servers.                                                            *)

\* The next message of c: none is read while its last submission waits.
Reads(c, type) ==
    /\ ~\E e \in proposed : e.client = c /\ e.waiting
    /\ up[c] # <<>> /\ Head(up[c]).type = type

\* handleConnect, up to the registration.
Register(c) ==
    LET n == page[c].server IN
    /\ Reads(c, "CONNECT") /\ registered[c] = "no"
    /\ Allowed("late", pending[n] = <<>>)
    /\ Allowed("lag", applied[n] = Len(results))
    /\ Allowed("behind", Head(up[c]).rev \in {0, HeadRev(n), HeadRev(n) - 1})
    /\ Goto(c, "connecting")
    /\ UNCHANGED <<page, up, down, leaving, proposed, docVars, pending, leader, userVars, faults>>

\* handleConnect, from the leader check on.
AnswerConnect(c) ==
    LET n == page[c].server IN
    /\ registered[c] = "connecting"
    /\ Goto(c, "yes")
    /\ up' = [up EXCEPT ![c] = Tail(@)]
    /\ IF leader \notin {n, None} THEN Reply(c, RedirectMsg(leader))
       ELSE /\ Allowed("deposed", leader = n)
            /\ Reply(c, ConnectAckMsg(Head(up[c]).rev, HeadRev(n)))
    /\ UNCHANGED <<page, leaving, proposed, docVars, pending, leader, userVars, faults>>

\* removeClient for an earlier connection, which has been waiting to read from it:
\* it deletes by client id, and so the registration of the present connection, too.
\* (One that comes between the two steps of handleConnect is left out.)
Removal(c) ==
    \E n \in leaving[c] :
        /\ page[c].server = n => registered[c] # "connecting"
        /\ leaving' = [leaving EXCEPT ![c] = @ \ {n}]
        /\ IF page[c].server = n /\ registered[c] = "yes" THEN Goto(c, "removed")
           ELSE UNCHANGED registered
        /\ UNCHANGED <<page, up, down, proposed, docVars, pending, leader, userVars, faults>>

\* A changeset as the server reads it: JSON strings become UTF-8.
Bytes(chars) ==
    LET bytes[q \in Seq(Nat)] ==
          IF q = <<>> THEN <<>>
          ELSE (IF Head(q) \in Wide THEN <<Head(q), Head(q)>> ELSE <<Head(q)>>) \o bytes[Tail(q)]
    IN  bytes[chars]
Decoded(cs) ==
    [cs EXCEPT !.ops = [i \in DOMAIN cs.ops |-> [cs.ops[i] EXCEPT !.chars = Bytes(@)]]]

\* handleSubmit, up to the proposal.
Submit(c) ==
    LET n == page[c].server
        m == Head(up[c]).submission
        entry == [client |-> c, sub |-> m.sub, base |-> m.base,
                  changeset |-> Decoded(m.changeset), waiting |-> TRUE]
    IN  /\ Reads(c, "SUBMIT")
        /\ up' = [up EXCEPT ![c] = Tail(@)]
        /\ CASE leader # n -> Reply(c, RedirectMsg(leader)) /\ UNCHANGED proposed
             [] leader = n /\ ~Validate(entry.changeset) ->
                    Reply(c, [type |-> "ERROR"]) /\ UNCHANGED proposed
             [] OTHER -> proposed' = proposed \cup {entry} /\ UNCHANGED down
        /\ UNCHANGED <<page, registered, leaving, docVars, pending, leader, userVars, faults>>

\* An entry is lost with the leader that has it, or the leader only gives up
\* waiting for it.
ProposalFails(e) ==
    /\ Fault
    /\ proposed' \in {proposed \ {e}} \cup
            (IF "slow" \in Races THEN {(proposed \ {e}) \cup {[e EXCEPT !.waiting = FALSE]}} ELSE {})
    /\ UNCHANGED <<page, netVars, docVars, pending, leader, userVars>>

NoneConnecting(n) == \A c \in Client : page[c].server = n => registered[c] # "connecting"

\* The callback of a result, when an entry has one.
Started(n, res) ==
    IF res.outcome = "failed" THEN pending ELSE [pending EXCEPT ![n] = Append(@, res)]

\* Follow starts with a nil slice of operations and may append none to it; an entry
\* that is not caught up has the slice that it was read into.
NilOps(e) == e.base < fsm.headRev /\ Transformed(fsm, e).ops = <<>>

\* The leader commits an entry, and is the first to apply it.
Commit(e) ==
    LET outcome == Outcome(fsm, e)
        s == ApplyEntry(fsm, e)
        res == [client |-> e.client, rev |-> s.headRev, outcome |-> outcome]
        isNull == outcome = "applied" /\ NilOps(e)
    IN  /\ leader # None /\ applied[leader] = Len(results)
        /\ Len(results) < MaxEntries
        /\ Allowed("late", NoneConnecting(leader))
        /\ Allowed("null", ~isNull)
        /\ proposed' = proposed \ {e}
        /\ fsm' = s
        /\ results' = Append(results, res)
        /\ nulls' = IF isNull THEN nulls \cup {s.headRev} ELSE nulls
        /\ applied' = [applied EXCEPT ![leader] = @ + 1]
        /\ pending' = Started(leader, res)
        /\ UNCHANGED <<page, netVars, leader, userVars, faults>>

\* Another node applies the next entry.
ApplyNext(n) ==
    LET res == results[applied[n] + 1] IN
    /\ applied[n] < Len(results)
    /\ Allowed("late", NoneConnecting(n))
    /\ applied' = [applied EXCEPT ![n] = @ + 1]
    /\ pending' = Started(n, res)
    /\ UNCHANGED <<page, netVars, proposed, fsm, results, nulls, leader, userVars, faults>>

\* onCommit: an ACK to the author and, unless the entry was a duplicate, a
\* BROADCAST to the others, of those registered at this node.
Here(n) == {c \in Client : page[c].server = n /\ registered[c] \in {"connecting", "yes"}}
\* (Mutant: the author gets a BROADCAST too.)
DeliveryToAuthor(res, n, dropped) ==
    [c \in Client |->
        CASE c \in Here(n) \ dropped /\ c = res.client ->
                down[c] \o <<AckMsg(res.rev), BroadcastMsg(res.rev)>>
          [] c \in Here(n) \ dropped /\ c # res.client /\ res.outcome = "applied" ->
                Append(down[c], BroadcastMsg(res.rev))
          [] OTHER -> down[c]]
Delivery(res, n, dropped) ==
    [c \in Client |->
        CASE c \in Here(n) \ dropped /\ c = res.client -> Append(down[c], AckMsg(res.rev))
          [] c \in Here(n) \ dropped /\ c # res.client /\ res.outcome = "applied" ->
                Append(down[c], BroadcastMsg(res.rev))
          [] OTHER -> down[c]]

Callback(n) ==
    /\ \E i \in DOMAIN pending[n] :
          /\ Allowed("order", i = 1)
          /\ pending' = [pending EXCEPT ![n] = RemoveAt(@, i)]
          /\ \/ down' = Delivery(pending[n][i], n, {}) /\ UNCHANGED faults
             \/ /\ "full" \in Races
                /\ Fault
                /\ \E c \in Here(n) : down' = Delivery(pending[n][i], n, {c})
    /\ UNCHANGED <<page, up, registered, leaving, proposed, docVars, leader, userVars>>

\* Leadership changes: it is lost, or passes on, or a leader is elected again.
NewLeader(n) ==
    /\ n # leader
    /\ Allowed("deposed",
               leader = None \/ \A c \in Client : page[c].socket \notin {"opening", "open"})
    /\ IF leader = None THEN UNCHANGED faults ELSE Fault
    /\ leader' = n
    /\ UNCHANGED <<page, netVars, proposed, docVars, pending, userVars>>

\* A node that does not lead (a leader loses its leadership first) restarts: it
\* applies the entries after its snapshot again, and has no connections left.
Restart(n) ==
    /\ n # leader
    /\ \A c \in Client : page[c].server = n => page[c].socket \in {"none", "redirected"}
    /\ Fault
    /\ applied' \in {[applied EXCEPT ![n] = i] : i \in 0..applied[n]}
    /\ pending' = [pending EXCEPT ![n] = <<>>]
    /\ leaving' = [c \in Client |-> leaving[c] \ {n}]
    /\ UNCHANGED <<page, up, down, registered, proposed, fsm, results, nulls, leader, userVars>>

-------------------------------------------------------------------------------
Users == \E c \in Client : Type(c) \/ Erase(c) \/ \E n \in Node : Connect(c, n)
Pages == \E c \in Client : \/ Open(c) \/ Receive(c) \/ ReceiveRedirect(c) \/ LateClose(c)
                           \/ Tick(c) \/ Retry(c)
Servers == \/ \E c \in Client : Register(c) \/ AnswerConnect(c) \/ Removal(c) \/ Submit(c)
           \/ \E e \in proposed : Commit(e)
           \/ \E n \in Node : ApplyNext(n) \/ Callback(n)
Faulty == \/ \E c \in Client : Disconnect(c) \/ Reload(c)
          \/ \E e \in proposed : ProposalFails(e)
          \/ \E n \in Node : NewLeader(n) \/ Restart(n)
          \/ NewLeader(None)

Next == Users \/ Pages \/ Servers \/ Faulty

Spec == Init /\ [][Next]_vars

-------------------------------------------------------------------------------
(* Types.                                                                  *)

Char == {Letter[c] : c \in Client}

TypeOK ==
    /\ \A c \in Client :
          /\ page[c].serverRev \in Nat /\ page[c].server \in Node
          /\ page[c].editor \in Seq(Char) /\ page[c].baseText \in Seq(Char)
          /\ page[c].socket \in {"none", "redirected", "opening", "open"}
          /\ page[c].socket # "open" => down[c] = <<>> /\ registered[c] = "no"
          /\ registered[c] \in {"no", "connecting", "yes", "removed"}
          /\ typed[c] \in 0..MaxTyped
    /\ applied \in [Node -> 0..Len(results)]
    /\ fsm.headRev = Cardinality({i \in DOMAIN results : results[i].outcome = "applied"})
    /\ leader \in Node \cup {None}

-------------------------------------------------------------------------------
(* What the editor promises while events come in a favourable order.       *)

\* "A = latest server-acknowledged state": the base text of a page is the
\* servers' text at its revision, through acknowledgements, broadcasts and
\* catch-ups.
BaseIsRevision ==
    \A c \in Client : page[c].A # Null =>
        /\ page[c].baseText = TextAt(page[c].serverRev)
        /\ page[c].A = TextToChangeset(page[c].baseText)

\* X follows the base text, also after others' edits, and "X is identity when
\* we're free to submit".
PendingFits ==
    \A c \in Client : page[c].A # Null =>
        /\ ~Throws(page[c].baseText, page[c].X) /\ Validate(page[c].X)
        /\ ~page[c].waitingForAck => isIdentity(page[c].X)

\* Y follows X in the same way, and A, X and Y together make a text.
LocalFits ==
    \A c \in Client : page[c].A # Null => Merges(page[c]) /\ Validate(page[c].Y)

\* A submission on its way, the first time or again after others' edits, is valid
\* as the server reads it, and can be applied to the revision it names.
SubmissionsFit ==
    /\ \A c \in Client : \A m \in ToSet(up[c]) : m.type = "SUBMIT" =>
          /\ Validate(Decoded(m.submission.changeset))
          /\ Applicable(TextAt(m.submission.base), m.submission.changeset)
    /\ \A e \in proposed : Applicable(TextAt(e.base), e.changeset)

\* A page that has handled all it was sent, from a server that has sent all, is at
\* the newest revision, but for the last ones if they came without operations (and
\* changed nothing), and shows it if its user has nothing outstanding.
Quiet(c) ==
    LET n == page[c].server IN
    /\ page[c].active /\ registered[c] = "yes" /\ down[c] = <<>>
    /\ applied[n] = Len(results) /\ pending[n] = <<>>
QuietShowsHead ==
    \A c \in Client : Quiet(c) =>
        /\ page[c].serverRev <= fsm.headRev
        /\ (page[c].serverRev + 1)..fsm.headRev \subseteq nulls
        /\ Idle(c) => page[c].editor = fsm.headText

\* Such a page is at the newest revision.  (Not with "null": a broadcast without
\* operations is lost in an exception.)
QuietAtHead == \A c \in Client : Quiet(c) => page[c].serverRev = fsm.headRev

\* What a user types stays on his screen until it is erased, while it is local,
\* submitted, acknowledged, and over reconnections.
Shown(c) == Cardinality({i \in DOMAIN page[c].editor : page[c].editor[i] = Letter[c]})
OwnTextStays ==
    \A c \in Client : page[c].active => Shown(c) >= typed[c] - erased

\* It is there once: no submission comes back to its author as another's edit.  (Of
\* two users: the diffs of two others can both move a character, and double it.)
OwnTextOnce ==
    \A c \in Client : page[c].active => Shown(c) <= typed[c]

\* A new submission of a client is not taken for one that was applied before, and
\* none makes two revisions, whatever happens on the way; also when the page is
\* loaded again.
NewSubmissionIsNew ==
    \A c \in Client :
        LET revisions == {i \in DOMAIN fsm.revisionLog : fsm.revisionLog[i].source = c}
        IN  /\ fsm.clientLastSubmission[c] <= page[c].nextSubmissionId
            /\ Cardinality(revisions) <= page[c].nextSubmissionId

-------------------------------------------------------------------------------
(* Liveness.                                                               *)

\* A page's timers fire and its events are handled, the servers' handlers and
\* callbacks run, and Raft elects a leader, commits what it is handed and applies
\* what is committed.  Nothing is assumed of users and faults.
Fairness ==
    /\ \A c \in Client :
          /\ WF_vars(\E n \in Node : page[c].socket = "redirected" /\ Connect(c, n))
          /\ WF_vars(Open(c) \/ Receive(c) \/ ReceiveRedirect(c) \/ LateClose(c))
          /\ WF_vars(Tick(c) \/ (~UnderWay(c) /\ Retry(c)))
          /\ WF_vars(Register(c) \/ AnswerConnect(c) \/ Submit(c))
    /\ WF_vars(\E e \in proposed : Commit(e))
    /\ \A n \in Node : WF_vars(ApplyNext(n)) /\ WF_vars(Callback(n))
    /\ WF_vars(leader = None /\ \E n \in Node : NewLeader(n))

FairSpec == Spec /\ Fairness

\* "Correct convergence": in the end a page that has not lost its connection can
\* be typed into, has nothing outstanding, and shows the servers' text; also when
\* leaders change under connected pages.  (Not with "removal", which leaves a
\* settled page deregistered for good; nor with "full", "late" and "lag", which
\* lose or double a revision, "close" and "midair".)
EditorsConverge ==
    \A c \in Client : <>[](page[c].socket # "none" =>
        page[c].active /\ Idle(c) /\ page[c].editor = fsm.headText)

===============================================================================
