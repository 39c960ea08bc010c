# A TLA+ verification project for the distributed collaborative editor

The editor keeps one text document on a small cluster of Go servers. Browsers
edit it concurrently; their edits go, as submitted, into the Raft log, and every
server transforms them in the same way when they commit. These modules model
that system, TLC checks them on small instances, and TLAPS proves what holds for
all instances. File and line references are to the repository (`src/`).

## 1. The system

### Components

| Component | State | Operations | Made correct by |
|---|---|---|---|
| Changeset algebra (`internal/ot`) | none | `DiffToChangeset`, `Follow`, `Compose`, `ApplyChangeset`, `Validate`, `Identity`, `IsIdentity`, `MakeInsert`, `MakeDelete`, `TextToChangeset` | convergence of `Follow`; intention (nothing inserted or deleted but what either author did); `Compose` is one after the other; canonical form (the identity is recognised); the diff is exact and minimal |
| Document state machine (`internal/fsm`) | `headText`, `headRev`, `revisionLog`, `clientLastSubmission`, `onCommit` | `Apply`, `Snapshot`/`Persist`, `Restore`, the accessors | the three "key invariants" of `fsm.go:11-14`: text = replay of the revisions, replicas agree, a submission is applied once |
| WebSocket hub (`internal/server/websocket.go`) | registry `clients`, one `sendCh` per connection | `ServeHTTP`, `readPump`, `writePump`, `handleConnect`, `handleSubmit`, `onCommit`, `removeClient` | every revision reaches every connected client; no send on a closed channel; no callback stuck on a dead client |
| Raft set-up (`internal/server/cluster.go`) | the Raft node | `SetupRaft`, `IsLeader`, `LeaderAddr`, `Shutdown` | it hands Raft the state machine and the stores; leadership is a query with a stale answer |
| Bolt store (`internal/store`) | two buckets | log and stable store of Raft | what is stored survives, without a gap; a node votes once in a term |
| Server program (`cmd/server`) | none | wiring; proposes the initial text once | the initial text enters the log at most once |
| Browser client (`web/client.js`) | `A`, `X`, `Y`, `serverRev`, `inFlight`, ... | local edits, a submit loop, one handler per message, reconnection | the editor shows `A` followed by `X` followed by `Y`; when idle, it shows the servers' text |

### How they interact

    client.js --CONNECT, SUBMIT--> readPump --Raft.Apply--> log --> Apply (each node)
        ^                                                             | go onCommit
        +-----ACK, BROADCAST, REDIRECT, ERROR <-- writePump <-sendCh--+

* `handleSubmit` proposes the raw submission, with the revision it was made on,
  and waits for Raft; the answer does not come from it but from the callback.
* `Apply` runs on one goroutine per node, under the state machine's lock, and
  starts a **new goroutine** for each callback.
* `onCommit` takes the registry's read lock and queues an ACK for the author and
  a BROADCAST for everyone else; a channel that is full loses the message.
* A connecting client is registered first and is then told the state, which is
  read in three separate critical sections.
* Raft takes snapshots and persists them while entries go on being applied;
  a starting node restores the last one and replays the log after it.
* Raft's own goroutine and its snapshot goroutine read and write the Bolt store,
  each access in a transaction of its own.
* A node started with `-bootstrap` leaves a goroutine behind that waits to lead
  and then proposes the initial text, while editors already write.

### What is hard

Concurrent edits rebased on each other in any order and any number of times;
submissions repeated, delayed and out of order; crashes between applying and
snapshotting; snapshots written while the state changes; callbacks, handlers
and writers interleaving over the registry and the channels; old and new
connections of one client; a leader that no longer leads; acknowledgements,
broadcasts and catch-ups that reach a page in another order than they were made,
or not at all; crashes between the transactions of one vote, one bootstrap or
one replacement of log entries. `PROJECT.json` lists
each such hazard at its line, with the properties that watch it.

## 2. The modules

| Module | What it is |
|---|---|
| `Changesets` | the algebra, as operators and recursive functions |
| `ChangesetForms` | the form changesets have in the program, and when one fits a text |
| `ClientChangesets` | the browser's own port of the algebra |
| `ConcurrentEdits` | two sites that edit, commit and rebase; the properties of the algebra |
| `ChangesetProofs` | theorems about the algebra: convergence, composition, the diff; before them facts about sequences, and induction, that all the proofs share |
| `ConcurrentEditsProofs` | theorems about `ConcurrentEdits` |
| `DocumentStateMachine` | `Apply`, `Snapshot`, `Restore` as functions from state to state |
| `ReplicatedDocument` | replicas of it under Raft's contract: the core of the system |
| `SharedDocument` | what the replicas promise together; `ReplicatedDocument` implements it |
| `DocumentStateMachineProofs` | lemmas about `Apply`, from the theorems of the algebra |
| `ReplicatedDocumentProofs` | theorems about `ReplicatedDocument`, among them that it implements `SharedDocument` |
| `Hub` | one node's registry, connections, channels and callbacks |
| `HubProofs` | theorems about `Hub` |
| `EditorClient` | the browser's state and handlers as functions from record to record |
| `EditorSystem` | pages, sockets, servers and users together |
| `EditorSystemProofs` | theorems about `EditorSystem` |
| `BoltStore` | the log and stable store as functions of a bucket |
| `DurableLog` | the log Raft may count on; `NodeStorage` implements it |
| `NodeStorage` | one node's disk, as Raft uses it, through crashes |
| `NodeStorageProofs` | theorems about `NodeStorage` |
| `Startup` | bootstrapping, elections and the initial text |
| `StartupProofs` | theorems about `Startup` |
| `MCConcurrentEdits`, `MCReplicatedDocument`, `MCHub`, `MCEditorSystem`, `MCNodeStorage`, `MCStartup` | instances for TLC |

An operator marked "(Mutant: ...)" is a plausible mistake in the definition
below it. Nothing uses it; it names the error that the properties are known to
catch, and `PROJECT.json` says which property catches which.

### `Changesets`

A changeset is the record of `changeset.go`: two lengths and operations. A text
is a sequence of characters, numbered so that comparing numbers is comparing
bytes. The loops of `Follow` and `Compose` are recursive functions over a record
of the two operation lists still to be read and the list written (`FollowStep`
and `ComposeStep` are one turn of a loop). A partly read operation is a shorter
one at the head of its list, instead of the cursor and offset of `opSlice`.
`AddOp` drops empty operations and merges neighbours of one kind, like `addOp`.
`DiffToChangeset` has the table of `diff.go` as a function of two indexes, its
backtracking as another, with the same choice on ties.

The code returns an error where lengths do not match; the operators are used
only where they do, except `Applicable`, which says that `ApplyChangeset`
returns no error.

`ChangesetForms` names what the program keeps of every changeset it makes:
`Normal` operations (none empty, no two neighbours of one kind, no left-over
fields), and `Suits(text, c)`, a changeset in that form whose lengths are right
and that consumes exactly the text. The properties and the theorems are stated
with it.

### `ClientChangesets`

`client.js` has its own `compose`, `follow` and `diffToChangeset`. They are written
here the way they run, by cursors with a position and an offset (`makeSlice`,
`peek`, `consume`): each loop is a function of a record with the two cursors and
the output so far (`following`, `composing`, `merging`). Their agreement with
`Changesets`, whose cursors are shortened lists, is checked (`MirrorsGo`) and proved
(`BrowserMirrorsServer`), so that it also says that this abstraction of the same
loops in Go is right.
`applyChangeset` checks less than Go's `ApplyChangeset`, and `isIdentity` accepts
more than `IsIdentity`. Like Go's, they are used where lengths match. Strings are
compared by the order of their characters, which is that of bytes and of UTF-16
units alike for single-byte characters.

### `ConcurrentEdits`

`doc` is the committed text, `pending` an edit per site, `total` the composition
of all commits (the client's `A`). A site diffs (`Edit`) or uses a constructor
(`TypeAt`, `EraseAt`); `Commit` applies one site's edit and rebases the other's.
Changesets that only repeated rebasing makes are thus reached too. It is the
exhaustive form of `FuzzFollowEquivalence` (`ot_test.go:286`).

### `DocumentStateMachine`

A state is the record of the four fields. `Outcome` is the control of `Apply`:
the guard on the submission id, the fold of `Follow` over `revisionLog[base ..
headRev-1]`, then `ApplyChangeset`, whose error leaves the state as it was.
`Accept` makes all four assignments. `SnapshotData`, `Persisted`
and `Restore` are `Snapshot`, `Persist` and `Restore`; JSON is taken to preserve
the data. An absent key of the map is `Unseen`.

### `ReplicatedDocument`

| Variable | In the program |
|---|---|
| `log` | the committed Raft log (external) |
| `applied[n]` | Raft's last applied index on node `n` (external) |
| `fsm[n]` | the `DocumentStateMachine` of node `n` |
| `capture[n]` | the `fsmSnapshot` that Raft is persisting, or none |
| `snapshot[n]` | the newest snapshot in `n`'s snapshot store |
| `canon` | history: the states of the first node to apply each entry |

Raft is its contract and no more: one sequence of committed entries, applied in
order by each node, restarted from a snapshot. `Commit` puts any submission in
the log: any client, any submission id (thus repeated, and out of order), any
revision published so far as base (thus stale), any target text. With
`Misbased` the changeset need not fit the base it names, which a client that
mixes up its revisions can send. `Restart` is a crash at any point between two
steps. `InstallSnapshot` sends the leader's snapshot to a node that lags;
any node may be the leader.

### `Hub`

One action per critical section or channel operation of the goroutines of one
node. `pc[k]` is where the `readPump` of connection `k` is: `handleConnect` is
six steps (register, leader check, three reads, send), the deferred function
two. `queue[k]` is `sendCh`, `wire[k]` what `writePump` has written, `writer[k]`
whether it still runs. `sending` holds the `onCommit` calls under the read lock,
each with the connections it has yet to send to; `pending` the callbacks whose
goroutine has not started. The registry's write lock is the guard `WriteLock`:
no `onCommit` holds the read lock. A revision is its number; whether an entry is
applied, a duplicate or an error is a free choice, which contains every choice
that Raft and the state machine make. `leader` is what Raft answers (external).
When a connection closes, its `wire` and `queue` are emptied: what is in them
reaches nobody.

### `SharedDocument`

One list of revisions, each with its author, submission id and text, and what
each server shows of it. A submission publishes the next revision, once, in its
author's order; a server catches up or falls back. There is no log, no rebasing
and no snapshot. The refinement mapping is at the end of `ReplicatedDocument`:
the revisions are those of the history `canon`, each with the entry that made
it; a server shows its `headRev` and `headText`.

### `EditorClient`

`state`, the text area, `ws` and the sockets of a page are one record, and each
handler of `client.js` is a function from record to record. An exception that a
handler catches, or that ends it, is a condition on the record: `Throws` is the
one check of `applyChangeset`, and `Null` a changeset that is not there: one of the
page's before its first CONNECT_ACK, or one whose operations are `null` in JSON,
on which `handleBroadcast` ends before it has done anything (`client.js:479`) and
the loop over the catch-up goes on to the next record (`client.js:403`).
`applyChangeset` and `isIdentity` are those of `ClientChangesets`; for `compose`,
`follow` and `diffToChangeset` those of `Changesets` stand in, which return the
same for all operands that they are called with (`BrowserFollowsAlike`,
`BrowserDiffsAlike`) and which TLC evaluates faster.

### `EditorSystem`

| Variable | In the program |
|---|---|
| `page[c]` | the page of client `c`, with its newest socket |
| `up[c]`, `down[c]` | messages to and from the server on that socket |
| `registered[c]` | its place in the server's registry; "connecting" in `handleConnect`, "removed" when an old connection's end has deregistered it |
| `leaving[c]` | the nodes that have yet to notice the end of a connection of `c` |
| `proposed` | entries handed to Raft; `waiting` while `handleSubmit` waits for them |
| `nulls` | the revisions that `Follow` made without appending an operation, so that Go sends `"ops":null` |
| `fsm`, `results`, `applied[n]` | the state machine, what `Apply` returned, and how far node `n` is (one state machine, because the replicas agree: section 4) |
| `pending[n]` | callbacks of node `n` that have not run |
| `leader` | the leader as all nodes know it, or none (external) |

The hub is coarser than in `Hub`: `handleConnect` is two steps and a callback is
one. A message names a revision and its changeset is looked up when it is
handled, as JSON gives it (`Sent`: `Null` for those in `nulls`). A node that
restarts applies entries, and runs their callbacks, again.

The protocol of the code does not survive everything, and a model in which all
of it happens would violate every property for the same few reasons. The
unfavourable events are therefore named in `Races`, each a guard that is lifted:

| Race | Lets happen |
|---|---|
| "slow" | a submission is repeated while the first is under way |
| "midair" | a connection ends with something of its user outstanding |
| "deposed" | leadership is lost, or passes on, while pages are connected: a CONNECT is answered without a leader, a SUBMIT is redirected |
| "removal" | a server notices the end of a connection after the page has made the next one, and removes that |
| "null" | users erase at once all that is left of the text, so that a revision has no operations |
| "behind" | a page connects again more than one revision behind |
| "late" | a connection is made while callbacks are outstanding |
| "lag" | a connection is made to a node that lags |
| "close" | a close event comes after the next connection |
| "order" | callbacks run out of order |
| "full" | a channel is full and a message is dropped |
| "reload" | a page is loaded again with something outstanding |

With `Races = {}` connections still end, pages are still loaded again, nodes still
restart, entries and their proposals are still lost and users still edit at any
time. But a connection ends, and a page is left, only when nothing of its user is
outstanding (`Idle`; for a connection also no old edits in `Y`: `Settled`), and
its server notices before the next connection; **leadership is lost or passes on
only while no page has a socket**, open or opening, so that a redirect only comes
of connecting to the wrong server; a page connects only to a node that has caught
up, and misses one revision at most; no two users erase the rest of the text at
once.

Two runs divide the work. `editor` checks what users see and what they submit, with
"removal" and "null"; `editor_liveness` the revisions and the convergence, with
"behind" and "deposed". What is proved (section 4) is for `Races = {}`, for no more
than "behind" and "null", or, as `NewSubmissionIsNew`, which the servers' guard on
submission ids keeps whatever happens, for all races. What each race breaks is in
section 5, with a configuration that shows it; only "order" has none of its own
there, its run being that of the hub (`finding_order`).

### `BoltStore`, `DurableLog`, `NodeStorage`

A bucket is a function from keys to values; a key is the eight bytes of the
index, taken as two digits of four bytes (`Base` is 2^32), so that the order of
the bytes and that of the numbers are different things. `Walked` is the cursor
of `DeleteRange`. `NodeStorage` is Raft's use of the two buckets (hashicorp/raft,
external): appending entries, where those that conflict are deleted in one
transaction and replaced in another; snapshots, its own and the leader's;
`compactLogs`, which two goroutines may run; terms; votes, stored in two
transactions; bootstrapping, too. `Crash` may come between any two transactions
and keeps the disk. `lastLog` is Raft's copy of the last index. An entry is a
value; entries of different terms differ.

`DurableLog` is a snapshot and the entries after it: appended at the end, taken
back from the end, superseded at the beginning by a later snapshot. A crash is
not a step of it: that is what makes the log durable.

### `Startup`

`starter[n]` is where the goroutine of node `n` is that proposes the initial
text; `members` are the nodes whose log has the configuration. Raft is again its
contract: `Elect` needs a majority of running nodes and a member; the proposals
that a new leader does not have are lost (`kept`). `doc` is the state machine
after all committed entries. Edits are made on the head: catching them up is the
subject of `ReplicatedDocument`. Any node of `Bootstrapper` may be started with
`-bootstrap` any number of times, although `main.go:15` advises against it.

## 3. What is checked

| Run | Instance | Shows |
|---|---|---|
| `concurrent_edits` | texts over two letters, up to three long; all edits of two sites | convergence, intention, composition, validity, canonical forms, exact and minimal diffs; the browser's port computes the same |
| `editing` | one server, two clients, ids 1..2, three entries over six texts | `HeadTextIsReplay`, `AppliedOnceInOrder`, `FittingEntriesApply`, `TypedTextSurvives` |
| `replication` | two servers, two clients, three entries, snapshots after the first and second | `ReplicasAgree`, `RevisionsAgree`, `SnapshotsAreCuts` and the refinement `IsSharedDocument`, also for entries that do not fit |
| `hub_reconnect` | one client with two connections, another with one, one entry, channels of one | `NoSendOnClosedChannel` |
| `hub_liveness` | two clients, one entry, channels of one, any leader, requests; fair | `EveryRevisionSent`, `CallbacksEnd`, `DisconnectsEnd` |
| `editor` | one server, two users who type a character each and erase two, four entries, two faults, `Races = {"removal", "null"}` | `LocalFits`, `SubmissionsFit`, `QuietShowsHead`, `OwnTextStays`, `OwnTextOnce`, `NewSubmissionIsNew`, also with revisions without operations and connections whose end is noticed late |
| `editor_liveness` | two servers, a writer and a user who erases, four entries, three faults, `Races = {"behind", "deposed"}`; fair | `BaseIsRevision`, `PendingFits`, `EditorsConverge` |
| `storage` | digits of base 3, five indexes, two entries, two terms, two candidates | `LogReadable`, `OneVotePerTerm` and the refinement `IsDurableLog` |
| `startup_restarts` | three nodes, two of them bootstrapping, one editor with two edits, three elections | `InitialTextOnce`, `InitialTextMerges` |
| `finding_order`, `finding_editor_behind`, `finding_initial_lost` | small instances of the hub, the editor and the start | statements of comments that the code does not keep (section 5) |

The configurations without a run (`StartupLiveness`, and the other
`EditorFinding*`, `HubFinding*`, `StorageFindingBootstrap`,
`StartupFindingFirst`) are further instances of the same modules, to be checked
by hand: `tlc -config EditorFindingAck.cfg MCEditorSystem`. The first
holds; each of the others violates the property it names.

### The properties

* **The algebra.** `Converges` is the diamond of the two orders. `FollowIsMerge`
  says what both reach, by a definition that does not use `Follow`: gap by gap,
  both insertions in lexicographic order and the characters that neither
  deleted. `FormIsKept`: a rebased edit still passes `Validate` and fits, is in
  normal form and inserts only what was typed.
  `IdentityStaysIdentity`: a client with nothing to send still has nothing to
  send after a broadcast. `ComposeIsSequential`: composing an edit with a rebased
  one, or with any next edit of its author, is doing one after the other.
  `TotalIsOneInsert`: `A` stays the single insertion that a fresh client builds
  from the text. `DiffIsMinimal`
  compares with every set of characters that might have been kept. `MirrorsGo`:
  the browser's port returns, operation by operation, the changesets of the Go
  code, on every edit, rebased edit and text of the instance.
* **One replica.** `HeadTextIsReplay` (key invariant 1). `AppliedOnceInOrder`
  (key invariant 3, and more: a client's edits are applied in the order of their
  ids). `FittingEntriesApply`: an entry that fits the revision it names never
  ends in one of `Apply`'s error returns, whatever was committed before it;
  with those returns its author gets no answer. `TypedTextSurvives`: catching up
  loses no typed text.
* **Several replicas.** `ReplicasAgree` (key invariant 2) by whatever way a node
  got to an index. `RevisionsAgree`: a revision, once published, stays what it
  was even if all nodes crash behind it. `SnapshotsAreCuts`: a snapshot
  persisted while entries are applied is the state at its index.
* **The hub.** `EveryRevisionSent`: between registration and CONNECT_ACK no
  revision is lost. `NoSendOnClosedChannel`: such a send would panic, and end
  the server. `CallbacksEnd`, `DisconnectsEnd`: a dead peer holds up nobody.
* **The replicas together.** `IsSharedDocument`: whatever nodes apply, lose and
  restore, the servers implement `SharedDocument`.
* **The editor.** `BaseIsRevision`: what a page takes for the servers' text at its
  revision is that, through every ACK, BROADCAST and catch-up. `PendingFits`: X
  fits the base text, after any rebasing, and is empty when the page may submit.
  `LocalFits`: Y fits X. `SubmissionsFit`: what is submitted, or submitted again
  after rebasing, is valid for the server and fits the revision it names; with
  `FittingEntriesApply` it is then never skipped. `QuietShowsHead`: a page that
  has handled all it was sent, from a server that has sent all, is at the head, or
  behind it only by revisions that came without operations and changed nothing;
  and it shows the head's text when its user is idle. (`QuietAtHead`, without that
  exception, is refuted: finding 16.) `OwnTextStays`, `OwnTextOnce`: what a user
  types stays on his screen, once. `NewSubmissionIsNew`: a new submission is never
  taken for a duplicate and none makes two revisions. `EditorsConverge`: in the
  end every connected page shows the servers' text, has nothing outstanding and
  can be typed into, also when leaders change under connected pages and a page has
  missed any number of revisions. It is not claimed with the races that lose or
  double a revision or a registration ("removal", "full", "late", "lag"), nor with
  "close" and "midair": section 5.
* **Storage.** `LogReadable`: after a crash Raft finds every entry from its
  snapshot to the last index, or it would refuse to start. `IsDurableLog`: it is
  the log that was stored. `OneVotePerTerm`, although a vote is two
  transactions.
* **Starting up.** `InitialTextOnce`, `InitialTextMerges`: the initial text is in
  the document at most once, whole, and takes nothing from earlier edits.
  `InitialTextAppears` is what the code does not keep (section 5); it does while
  the first leader stays (`StartupLiveness.cfg`).

### Bounds, and why they are enough

* `MaxLen = 3` over two letters has every relation of two edits at a gap (equal,
  smaller and greater insertions, one a prefix of the other), nested and
  overlapping deletions, and operations that split the other's in three.
* Three entries are the fewest with which an entry is caught up over two
  revisions, and a duplicate comes after another client's entry. Two submission
  ids suffice for repetition and for a reversed order.
* Two servers suffice for the properties of replicas, which compare two; the
  snapshot indexes leave an entry before, between and after the snapshots. The
  theorems of section 4 need no bound at all. `SnapshotIndexes` is empty in
  `editing`, whose properties are about entries, not nodes.
* The two hub runs have one entry, which is a callback racing three connections,
  an old and a new one of one client beside another's; `finding_order` has two
  entries, whose callbacks race each other. A
  channel of one fills at once, as 256 does later. `MaxMessages` stops
  requests so that the state space is finite.
* One character per user in `editor` makes a submission and a local edit at once,
  which is what X and Y are, against the same of the other user; the second erasure
  lets both users erase the same character at once. No behaviour of these needs
  more than four entries (two characters, two erasures), and two faults are, for
  example, a lost connection and a lost proposal, or the end of a leadership, in
  one behaviour. One server is enough, as the run is about what pages make of what
  they are sent, by whichever server; for any number of servers there are the
  theorems.
  With a third client nothing new is rebased, as a page sees other users' revisions
  one by one; only `OwnTextOnce` is about two users, because two of them can move a
  character of a third (section 6). Each character tells whose it is, so that texts
  show what became of it.
* `editor_liveness` needs every behaviour to its end and has a smaller budget of
  each, but two servers, so that pages are redirected; three faults are, for
  example, a change of leaders under a connected page, a lost connection and a lost
  proposal. Four entries let a page miss more revisions than one.
* Base 3 with five indexes needs the second digit, at which another encoding
  fails; five indexes leave room for a snapshot, `TrailingLogs` and a conflict
  after it. Two entries tell a stored from a conflicting one.
* Three nodes are the fewest of which one may stop; three elections bring a
  leader back.
* `editing` and `replication` use the symmetry of clients and nodes, `hub_reconnect`
  that of the two connections of one client, `storage` that of entries and of
  candidates: no constant, action or invariant tells them apart. Symmetry is not
  used where liveness is checked, nor in `editor`, whose users' characters are
  ordered.

Deadlock checking is off in the runs of the hub and the editor in which it may
come to rest (all entries applied, all connections closed, all users done) and
in `finding_initial_lost`, which ends when all is committed. In `hub_liveness` it
is on: the leader can always change there. The other models never stop, as users
can always edit and nodes restart.

### Fairness

`FairSpec` assumes weak fairness of the callbacks together and of each
connection's handler steps: the Go scheduler runs goroutines that can run. A
handler that waits for the registry's write lock is enabled for good once the
callbacks are done, of which there are finitely many in the model; in the code
`sync.RWMutex` makes later readers wait for a waiting writer. **Nothing** is
assumed of writers, peers, Raft or leadership: a writer may hang for ever with
its channel full. A `proposed` handler waits for Raft and has no fairness either.

In `EditorSystem`, weak fairness is assumed of what runs by itself: a page's
events and timers (the submit timer repeats every 500 ms, the redirect's fires
once), the servers' handlers and callbacks, and of Raft what it promises when
enough nodes run: a leader is elected, what is proposed is committed, what is
committed is applied. Nothing is assumed of users (who need not type, nor press
Connect) nor of faults, which `MaxFaults` makes finite. A page whose connection
is lost stays so unless its user reconnects; `EditorsConverge` speaks of those
that are connected.

In `Startup`, nodes are started, a leader is elected while there is none,
committed entries are applied and the goroutine runs on. Stopping and a change of
leaders are not fair. In `StartupLiveness.cfg` they are absent and the text
appears; in `finding_initial_lost` one change of leaders is enough to lose it.

## 4. What is proved

Everything here is checked by TLAPS for every value of the constants, from the
assumptions on them that the modules name: `ConstantsAssumption` for the
replicas, `EditsAssumption` for the two sites, `HubAssumption` for the hub,
`StorageAssumption` and `BaseAssumption` (two digits hold every index in use) for
the disk, `StartupAssumption` for the start, `SystemAssumption` for the editor;
the theorems about the editor, but for the last, have two to four hypotheses
more, which are discussed there. The theorems about the algebra have
no constants: they are about all texts of characters that are numbers, and all
changesets that fit them.

| Module | Theorem | States |
|---|---|---|
| `ChangesetProofs` | `FollowSuits` | a rebased changeset is in normal form, fits, and keeps what it inserts |
| | `Convergence` | `Follow` converges (TP1) |
| | `FollowIdentity` | the rebased identity is an identity |
| | `DiffSuits` | the diff of two texts makes the one of the other |
| | `ComposeSuits` | `Compose` is one after the other |
| | `OneInsert` | a change from the empty text is one insertion |
| | `FollowKeepsCount` | a rebased change brings no fewer of a character than before |
| | `DiffInsertsFewest` | no operations insert fewer characters than the diff |
| `ConcurrentEditsProofs` | `EditsInductive` | `Spec => []EditsInv`, the inductive invariant |
| | `EditsTypeOK` | `TypeOK` |
| | `EditsKeepForm` | `FormIsKept` |
| | `PendingStaysValid` | `PendingIsValid`: a pending edit is valid and applies |
| | `SitesConverge` | `Converges` |
| | `NothingStaysNothing` | `IdentityStaysIdentity` |
| | `CompositionIsSequential` | `ComposeIsSequential` |
| | `TotalStaysOneInsert` | `TotalIsOneInsert` |
| | `NothingMoreIsKept` | no common subsequence of two texts is longer than what the diff keeps |
| | `RebasedIsTheMerge`, `FollowMerges` | `FollowIsMerge`; the merge, for any base and edits |
| | `DifferencesAreMinimal` | `DiffIsMinimal` |
| | `BrowserFollowsAlike`, `BrowserDiffsAlike` | `follow`, `compose` and `diffToChangeset` of the browser return what Go's do |
| | `BrowserMirrorsServer` | `MirrorsGo` |
| `ReplicatedDocumentProofs` | `SpecInv` | `Spec => []IInv`, the inductive invariant |
| | `TypeCorrect` | `TypeOK` |
| | `Agreement` | `ReplicasAgree` |
| | `RevisionAgreement` | `RevisionsAgree` |
| | `SnapshotConsistency` | `SnapshotsAreCuts` |
| | `ExactlyOnce` | `AppliedOnceInOrder` |
| | `TextIsReplay` | `HeadTextIsReplay` |
| | `FittingNeverFails` | `FittingEntriesApply` |
| | `NothingTypedIsLost` | `TypedTextSurvives` |
| | `DocumentInvariant` | `Spec => []DocInv` |
| | `Refinement` | `IsSharedDocument` |
| `HubProofs` | `HubTypes` | `TypeOK` |
| | `NoPanic` | `NoSendOnClosedChannel` |
| | `EveryRevisionReaches` | `EveryRevisionSent` |
| `NodeStorageProofs` | `StorageTypes` | `TypeOK` |
| | `Readable` | `LogReadable` |
| | `StorageIsDurableLog` | `IsDurableLog` |
| | `VotesOnce` | `OneVotePerTerm` |
| `StartupProofs` | `StartupTypes` | `TypeOK` |
| | `InitialTextIsOnce` | `InitialTextOnce` |
| | `InitialTextIsWhole` | `InitialTextMerges` |
| `EditorSystemProofs` | `Invariance` | `Spec => []IInv`, the inductive invariant (*) |
| | `EditorTypes` | `TypeOK` (*) |
| | `BasesAreRevisions` | `BaseIsRevision` (*) |
| | `PendingAlwaysFits` | `PendingFits` (*) |
| | `SubmissionsAlwaysFit` | `SubmissionsFit` (*) |
| | `QuietPagesShowHead` | `QuietShowsHead` (*) |
| | `LocalEditsFit` | `LocalFits`, from `Races = {}` and `OneByte` |
| | `TypedTextStays` | `OwnTextStays`, from `Races = {}` and `OneByte` |
| | `TypedTextOnce` | `OwnTextOnce`, from these, `LettersDiffer` and `TwoUsers` |
| | `NewSubmissionsAreNew` | `NewSubmissionIsNew` |

(*) from `Orderly` and `OneByte`.

None of the invariants that the runs check is inductive; the arguments follow.

### The algebra

The loops of `apply.go`, `follow.go`, `compose.go` and `diff.go` are recursive
functions of the model, and what they compute is proved by induction. The
provers instantiate no theorem that takes an operator, so induction is stated
with sets instead: a set of numbers that has 0 and with every number
the next has all (`SetInduction`); a set of sequences, of pairs of sequences, or
of members measured by a number, likewise. The recursive functions are themselves
shown to exist in this way, over operands that get shorter.

`Run(p, ops)` is the text that operations make of the text `p`. Its law is
`RunCons`: the first operation works on the part it consumes, the others on the
rest. A state of the loop of `Follow(A, B)` is described by `Rebases(p, t, s)`: `t`
is what is left of the base and suits what is left of `A` and `B`, `p` is the
text A has made so far and suits the output so far. Each of the turns (an insert
of A is retained, an insert of B copied, a part of the base consumed by both)
keeps it, and so the output fits in the end (`EveryFollowEnds`, `FollowSuits`).
For `Convergence` the loops of `Follow(A, B)` and `Follow(B, A)` are run side by
side (`Together`): a turn of one is a turn of the other, with the same operation
coming first because `LexLeq` is a total order (`LexOrder`), and both outputs make
the same text all along. When both sides insert the same text at the same place,
each keeps it, in either order. `Compose` is followed likewise (`Composes`), the
diff cell by cell of its table (`Reaches`).

What both sites reach is the merge (`RebasedIsTheMerge`): in front of each
character of the base, what either has inserted there, in the order of the texts,
and the character itself if both keep it. The turns of the loop are put beside
the gaps of the base: a turn that inserts adds to the gap it is at, one that
consumes moves on by as many gaps, and what is made so far is the merge of the
gaps passed. `DifferencesAreMinimal` is about the cells of the table: each is the
length of the longest common subsequence of the two beginnings (`TableIs`, by
`CellInduction`), of which the backtracking gives up nothing. For
`DiffInsertsFewest` any other operations that make the text are laid along the
table (`Scripts`): from the cell where they start it grows by at least what they
keep.

How often a character is in a text (`Times`) is followed through the loop of
`Follow` as well: `FollowKeepsCount` is the same argument as `FollowSuits`, turn by
turn, with a sum in place of the form (`Having`). The two theorems are what the
characters on a user's screen are counted with below.

The browser's loops are read turn by turn beside Go's: a cursor with a position
and an offset stands for the list of what is left, its first operation cut by
the offset, and `peek` and `consume` do to the one what taking the head and
shortening do to the other. The turns are then the same, and so is the output
(`BrowserFollowsAlike`); the table and its backtracking agree cell by cell
(`BrowserDiffsAlike`).

`EditsInv` is `FormIsKept` with the meaning of `total`: `ApplyChangeset(<<>>, total)
= doc`. This is what the theorems ask of their arguments, and they give it back
for the next state; all other properties of `ConcurrentEdits` follow in one step.
Validity alone would not do: `Follow` of changesets with empty operations, or with
two neighbouring inserts, is not what the theorems say of it, and only `addOp`
prevents them.

### What `Apply` does

`DocumentStateMachineProofs` carries the theorems over to the state machine. A
state is `Sound` when each entry of its revision log suits the text that the
entries before it make, and the text is what all make. An entry that suits the
text of the revision it names suits the head after it was caught up
(`TransformedSuits`: induction over the revisions in between, `FollowSuits` each),
and applying it leaves a sound state (`ApplySound`).


### The replicas

Agreement of two nodes with equal indexes
says nothing of two nodes one entry apart, nor of the snapshots a node may
return to. The proof therefore uses the history `canon`:

* `LogOK`: each entry is of a client, with an id in range;
* `CanonOK`: `canon` is the run of *one* state machine over the log;
* `ReplicasOK`: `fsm[n] = canon[applied[n] + 1]`, each replica is a point of it;
* `SnapshotsOK`, `CapturesOK`: each snapshot, stored or being written, is too;
* `LastOK`: the ids a state remembers are no smaller than any applied before.
  The guard of `Apply` sees only the last id; this turns it into a statement about
  all earlier entries;
* `PrefixOK`: along the run, revisions are only added.

`InitInv` and `NextInv` (one lemma per action) make it inductive; the theorems
follow from its parts. `Restart` and `InstallSnapshot` need `RestoreCut`: to
restore a snapshot of a point of the run is to be at that point. It rests on
`RestoreSnapshot`, that `Restore` undoes `Snapshot`, which is where a forgotten
field would break the proof. `Follow` and `ApplyChangeset` are never expanded:
agreement needs only that each replica computes the same function of the same
data.

The other three theorems are about the text, and use the algebra. `TextInv` adds
to `IInv` that every committed entry is of a changeset in normal form
(`EntriesOK`) and every state of `canon` is `Sound` (`TextsOK`). The latter needs
care where an entry does not fit: with `Misbased` a changeset may be caught up to
nonsense, which `ApplyChangeset` then refuses, or accepts; in both cases what
enters the revision log fits the head, and is in normal form because `Follow`
makes it so of any operands in that form (`TransformedFormed`).

### The shared document

`Refinement` adds to `IInv` that the published revisions and the entries that
made them go together (`HistoryOK`; the two are `DocInv`). Each step then is one
of three of the abstract specification, or none: a `Commit` whose entry is
accepted publishes (the guard on the id is what makes it once and in order, by
`LastOK`), one that is not accepted changes nothing, an `Apply`, a `Restart` or
an `InstallSnapshot` shows another point of the run.

### The hub

`HubTypes` includes that no channel ever holds more than its capacity. That no
callback sends on a closed channel is seen by following a connection: it is
`Reachable` after CONNECT and until `removeClient`. Every registered connection
is reachable and of the client it is registered for (`RegistryOK`), although a
newer connection may take its place in the registry and an older one empty it;
and every connection a callback has yet to send to is reachable (`SendingOK`),
because `removeClient` waits for the callbacks. Only what is no longer reachable
is closed.

`EveryRevisionReaches` needs to say where a revision is on its way to a
connection. From the moment `head_rev` is read for it, every later revision is
`Covered`: it has been sent, or its callback has not started and the connection
is registered, or its callback has started and has yet to send to it
(`CoveredOK`). When `head_rev` is read nothing is later and no CONNECT_ACK has
been sent (`AckOnceOK`); what is applied afterwards is pending, and since the
connection was registered before, whichever callback starts will have it among
its recipients. A full channel, the end of the writer or the loss of the
registration end the promise, which is why `Served` excludes them.

### The disk

`LogInv` has three parts. `IndexesOK`: the bucket has every index after the
snapshot up to the last, without a gap. `RaftOK`: between the transactions of a
replacement (`Replacing`) what is deleted is not below the snapshot, and what is
stored next fits. `CompactOK`: a range that a goroutine has decided to delete
(`Doomed`) is at or below the snapshot and stays so, whatever the other goroutine
does before it is deleted; this is what makes the two of them safe. The bucket is
walked in the order of its keys' bytes; `Digits` and `KeyOrder` show
that this is the order of the indexes, and `DeleteRangeExact` and
`StoreLogsExact` that the loops do what their names say. `StorageIsDurableLog` is
proved with the same invariant, step by step.

`VoteInv` says that the term stored is never behind the one voted in
(`StableOK`), that every vote granted in the last term voted in is the stored one
(`GrantedOK`), and that while a vote is half stored nothing has been granted in
its term (`VotingOK`): a crash between the two transactions forgets nothing that
was answered.

### The initial text

`PendingOK` says that every copy of the initial text that is proposed carries the
same id, and `DocOK` that the state machine remembers that id once it has applied
one of them; the guard of `Apply` does the rest.

`InitialTextIsWhole` is about the step that commits it: the entry is one insertion
on the empty text, and caught up over the edits before it stays one insertion of
the same text in one place (`TransformedWithin` with the set of inserts of that
length or more, `OneInsertion`), so that it deletes nothing and is not split.
`TextInv` there has the document sound, and the nodes in order (`NodesOK`), which
also gives `TypeOK`.

### The editor

`Orderly` is that `Races` has nothing but "behind" and "null": the order of events
that the theorems assume; pages may miss any number of revisions. It cannot be left
out: section 5 has the behaviours of the code that refute these properties with
other races. (Two races that the theorems leave out are in the runs: "removal" in
`editor`, "deposed" in `editor_liveness`.) `OneByte` is that no user types a
character of `Wide`, for the same reason (finding 15). Within these the theorems
are about any number of pages, servers, users who type, entries and faults, any
texts, and any number of missed revisions.

`IInv` has three parts. `DocumentOK`: the state machine is sound, and the entries
committed are just its revisions, of which those in `nulls` have no operations;
that no entry fails or is a duplicate is itself a consequence of all the rest.
`ServersOK`: the callbacks that have not run at a node are those of the last
entries it has applied, in order. And for each client:

* `PageOK`: the page stands at a revision. Its base text is the servers' text at
  `serverRev`, A inserts it, X suits it, and X is the identity unless a
  submission is outstanding. That this survives a broadcast, an acknowledgement
  and a catch-up over any number of revisions (`BroadcastStands`, `AckStands`,
  `CaughtUpPage`) is `FollowSuits`, `Convergence` and `ComposeSuits` of the
  algebra, together with the agreement of the browser's `applyChangeset` with
  Go's on changesets that fit (`ClientApplySame`).
* `ConnectionOK`: the page is `Away`, `Asking`, `SentAway`, `Answered` or `Working`.
  When it works, the messages on their way to it are of the revisions after its
  own up to the last that its server has called back, each once and in order
  (`IsRun`); what the server has yet to call back follows them. No revision
  is told twice, and none is missed but those that have no operations: they may
  have passed the page by (`Passed`, `Told`), and since each erases nothing and
  inserts nothing of a text that was empty before, the base text is right at the
  revisions on both sides of them (`PassedBy`). This is what `QuietShowsHead` is
  seen from.
* `SubmissionOK`: the submission in X is with the page, in the one message on its
  way, in the one proposal, or in one revision that the page has not been told of
  yet. Wherever it is, what was submitted, caught up by the servers to the
  page's revision, is X (`IsSubmission`): servers and page rebase it over the
  same revisions, at different times. Committed, it has become X caught up to
  there. Hence an ACK that says nothing of what it acknowledges may compose A
  with X, and a submission is sent again with the same meaning. `CaughtUpInParts`
  is what this rests on: catching up to a revision and from there on is catching
  up at once.

`LocalEditsFit` adds to `IInv` what is known of Y (`LInv`): while a page is
active, its Y suits the text that A and X make, and where a connection ends it is
the identity or is brought up to date before it is used again. It is stated for
`Races = {}`, where `nulls` is empty: with "behind" a page that catches up over
two revisions computes Y with the X it has just replaced, and `LocalFits` is
violated (finding 2). Over the one revision that a page misses otherwise (`Near`),
Y starts and ends as a changeset that changes nothing, and one of a wrong length
does not pass the handler's check, which then gives up Y (`ConnectAckY`).

`NewSubmissionsAreNew` needs neither hypothesis, and another invariant, `NInv`:
whatever is lost, repeated, delayed, reordered or applied again by a node, the
ids in messages and entries are among those that the client has given out;
the state machine remembers no higher one; and a client has made no more
revisions than the last id it remembers (`OwnOK`), because the guard of `Apply`
lets only higher ids pass.

TLC found no violation of `IInv` with "behind" and "null", nor of `NInv` with all
races, on instances of one and two servers with two users each.

`TypedTextStays` counts, for a user `o`, his character in the texts: the base text
of a page, what X makes of it (`Half`), and what is on the screen. `KInv` gives
numbers to what is not part of the state. Every erasure has a mark, which is in the
Y of the user who erased, then in his X, then in a revision. `W[k]` is how many of
the characters that `o` typed came with the revisions up to `k`, `x` how many are
in his X and `y` how many on his screen only, so that `W + x + y` is what he typed.
Then each text has as many of his character as came with it, but for the marks on
the way to it (`TextsKeep`, `ShowsKept`). A broadcast, an acknowledgement and a
catch-up keep this because a rebased change brings no fewer of a character than
before (`BroadcastCounts`); a commit moves `x` and the marks of X into a revision
(`MarksGained`, `KeptGained`), where X has been rebased over all between
(`OnwardKeeps`); a mark is counted twice nowhere, as a page takes over its own
revision when it gives up the X. In the end no more marks than erasures are on
the way to the screen. The numbers are existentially quantified, not variables of
the model, so that the theorem is about the specification that the run checks.

`TypedTextOnce` is the bound from above, and `SInv` another count: `I[k]` is how
many characters the revisions of `o` up to `k` insert. Together with what X and Y of
`o` insert these are no more than he typed (`OwnFew`): a rebased change inserts what
it did before, a new diff the fewest (`DiffInsertsFewest`), at most one more after a
keystroke. The texts of the servers, and the page of the other user, have no more of
his character than `I` says (`TextsFew`, `OtherFew`): a revision of `o` adds to them
no more than it inserts, and the other user adds none, not even in a commit, because
his X shows no more than that and has been rebased over revisions of `o` only. With
a third user's revisions it would not be so (section 6), hence `TwoUsers`;
`LettersDiffer` is that the two do not type the same character. Both counts use what
`IInv` says of submissions: if one came back to its author as another's edit, it
would be counted twice.

TLC checks `OwnTextStays` and `OwnTextOnce` themselves in `editor`, with "removal"
and "null" besides; `KInv` and `SInv`
quantify over functions and are left to the proof.

### Only model-checked

* Liveness, which is out of the prover's reach, as is what depends on `ENABLED`:
  `CallbacksEnd`, `DisconnectsEnd` and `EditorsConverge`.

## 5. Findings

Statements of comments and of the repository's README that the code does not
keep. The first three are runs, each with the one property that TLC refutes.

1. **Broadcasts out of order** (`finding_order`, `BroadcastsInOrder`). Each
   callback has its own goroutine (`fsm.go:187`); the comment at `fsm.go:70` says
   the Raft goroutine.
2. **The catch-up cuts off the text** (`finding_editor_behind`, `LocalFits`). The
   loop assigns `state.X` (`client.js:401`) before it computes `state.Y` with it
   (402); `handleBroadcast` uses the old `X` for both. With one missed revision
   the lengths of the two do not match and the exception handler resets `Y`. If a
   page with nothing outstanding missed a revision that shortens the text and
   then one that lengthens it, `Y` has the right length and too few operations:
   the end of the text is gone from the screen, and half a second later
   `submitTick` takes that for a deletion by the user and submits it. The comment
   at line 400 says that both are rebased against the revision.
3. **The initial text is lost** (`finding_initial_lost`, `InitialTextAppears`).
   Only the bootstrapping node proposes, once, without waiting for the outcome
   (`main.go:89-106`); `main.go:68` says the leader will propose it.

The others are configurations of the same modules. In the hub:

4. **CONNECT_ACK of three states** (`HubFindingOneState.cfg`). An entry applied
   between the reads at `websocket.go:325`, `329` and `330` gives a catch-up that
   ends before `head_rev`.
5. **CONNECT_ACK after a later BROADCAST** (`HubFindingCurrent.cfg`). A client is
   registered before its CONNECT_ACK is queued, so it may be told of a revision
   and then that an older state is the current one. (The other order would be
   worse: `EveryRevisionSent` holds because of it.)
6. **A failed submission without an answer** (`HubFindingReported.cfg`).
   `Apply` returns nil on errors and `handleSubmit` ignores the response
   (`websocket.go:402`): neither ACK nor ERROR.

In the editor, by race:

7. **One's own edit in the catch-up** (`EditorFindingOwn.cfg`,
   "midair"). The
   loop at `client.js:396` does not look at a record's author. A submission that
   was committed before a reconnection is rebased against itself and the text
   appears twice on the screen; `fsm.go:102` says that the client re-submits the
   same changeset.
8. **An ACK does not say of what** (`EditorFindingAck.cfg`, "slow"): the second
   ACK of a submission sent twice is taken for that of the next (`client.js:442`).
9. **What was typed last is overwritten on reconnection**
   (`EditorFindingLocal.cfg`, "midair"): the text area is rebuilt from a `Y` that
   is only computed at ticks and broadcasts (`client.js:420`). For the same reason
   an edit that was undone after a broadcast can come back.
10. **A revision twice** (`EditorFindingLate.cfg`, "late"): in the CONNECT_ACK and
    as a BROADCAST, whose `new_rev` is not compared with `serverRev`
    (`client.js:495`).
11. **A revision number that goes back** (`EditorFindingLag.cfg`, "lag"): a node
    that lags sends an older `head_rev`, which is assigned beside the newer text
    (`client.js:408`).
12. **A close event that closes the next connection**
    (`EditorFindingClose.cfg`, "close"): after a redirect, `onWsClose` clears the
    new socket and stops its timer (`client.js:347-353`, `543`).
13. **A dropped message** (`EditorFindingFull.cfg`, "full"): nothing tells the page,
    which does not notice the gap either (`websocket.go:140-144`).
14. **An ACK for the page before** (`EditorFindingReload.cfg`, "reload"): the client
    id outlives a reload, X does not (`client.js:287`, `455`).
15. **Bytes and UTF-16 units** (`EditorFindingWide.cfg`): a character that is not
    ASCII is counted differently on both sides; the submission is refused and
    repeated for ever (`changeset.go:153`, `client.js:368`).
16. **A revision without operations** (`EditorFindingNull.cfg`, `QuietAtHead`,
    "null"). `Follow` starts with a nil slice (`follow.go:30-35`) and appends nothing
    when two users have erased the same rest of the text; the revision is sent as
    `"ops":null`. `handleBroadcast` reads `B.ops.length` before its `try`
    (`client.js:479`) and ends in an exception; in a catch-up, `applyChangeset`
    throws on it (`client.js:50`, caught at 403). The page misses nothing of the
    text, but stays behind the head until the next broadcast, and submits on the
    older revision. This is the exception in `QuietShowsHead`.
17. **What was submitted is dropped by a redirect** (`EditorFindingRedirect.cfg`,
    `OwnTextStays`, "deposed"). A page at revision 0 that submits to a server which
    leads no more is redirected with X outstanding. If the document has a revision
    by the time it reconnects, it is taken for a first connection
    (`client.js:387-391`): X is not caught up, does not fit, and is given up
    (`client.js:421-424`).
18. **The end of an old connection removes the new one**
    (`EditorFindingRemoval.cfg`, `EditorsConverge`, "removal"). `readPump` notices a
    lost connection up to 60 seconds later (`websocket.go:243`, `249-256`) and
    `removeClient` deletes by client id (`websocket.go:235`, `458`). A page that has
    reconnected to the same server by then is deregistered: it stays connected, gets
    neither ACK nor BROADCAST and never shows what others write, whereas the
    repository's `README.md:3` promises "correct convergence of concurrent edits
    even in the face of network latency or server crashes".

On the disk and at the start:

19. **Half a bootstrap** (`StorageFindingBootstrap.cfg`). After a crash between the
    two transactions of `BootstrapCluster` a node has a term and no
    configuration; `cluster.go:136` takes the refusal at the next start to mean
    that the cluster exists.
20. **The initial text is not the first entry** (`StartupFindingFirst.cfg`).
    Editors already write while the goroutine polls (`main.go:92-94`);
    `main.go:69` calls it the initial log entry.

## 6. What is not modelled

* **Raft, gRPC and BoltDB** are libraries, taken by their contracts: one
  sequence of committed entries applied in order; transactions that are atomic
  and durable. How Raft uses the store is in `NodeStorage`, external.
* **Disk I/O errors**, which the store passes on to Raft.
* **A hub as fine as `Hub` under the editor**: a `CONNECT` in `EditorSystem` is two
  steps and a callback one; the interleavings in between are those of `Hub`, and
  what they do to a page are the races. A late `removeClient` of an earlier
  connection comes before or after the two steps of `handleConnect`, not between
  them; and what an earlier connection has sent that its `readPump` has not read
  is lost with it.
* **A page with two open sockets**, except for the late close event.
* **Three users who move each other's characters.** The diff of two texts moves a
  character where it keeps others: from `123` to `213` it erases the 1 and types
  it again behind the 2. Two users who do so at once, one from `123` to `213` and
  the other to `31`, make `131` of it, a character twice that its author typed
  once. Nothing is lost; it needs two users who move the character of a third, so
  `OwnTextOnce` is stated for the two users of the runs.
* **Texts of several-byte characters**: only that such a submission is refused.
* JSON that does not parse, unknown message types (both ignored or refused by
  the code without a change of state), a second CONNECT on one connection,
  logging, HTTP serving, command-line flags, the page's markup, the cursor.

## 7. Plan

What is left, most useful first.

1. A refinement from `Hub` to the coarse hub of `EditorSystem`, which would
   replace the argument in section 6.
