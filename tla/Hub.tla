--------------------------------- MODULE Hub ---------------------------------
(***************************************************************************)
(* The WebSocket side of one server (internal/server/websocket.go): the    *)
(* registry of connected clients under its RWMutex, the goroutine that     *)
(* reads each connection, the goroutine that writes it from a channel of   *)
(* bounded capacity, and the goroutines that the state machine starts for  *)
(* every applied entry and that call onCommit.                             *)
(*                                                                         *)
(* The document is left out: a revision is its number, and what becomes of *)
(* an entry (applied, a duplicate, or an error in Apply) is a free choice, *)
(* made by Raft and the state machine together.                            *)
(***************************************************************************)
EXTENDS Integers, Sequences, FiniteSets

CONSTANTS
    Conn,         \* the connections, each used once
    Client,       \* the client ids
    ClientOf,     \* ClientOf[k]: the client id that connection k will present
    None,         \* no connection
    Capacity,     \* the capacity of sendCh (256 in the code)
    MaxEntries,   \* bound: entries applied by the state machine
    MaxMessages,  \* bound: a connection submits no more after so many messages
    Leaders       \* bound: what Raft may say of the leader, of
                  \* "self", "other" and "unknown"

ASSUME HubAssumption ==
    /\ ClientOf \in [Conn -> Client]
    /\ None \notin Conn
    /\ Capacity \in Nat \ {0} /\ MaxEntries \in Nat /\ MaxMessages \in Nat
    /\ Leaders \subseteq {"self", "other", "unknown"}

VARIABLES
    pc,           \* pc[k]: where the readPump of k is
    ack,          \* ack[k]: what handleConnect has read for k's CONNECT_ACK
    queue,        \* queue[k]: sendCh
    wire,         \* wire[k]: the messages written to the WebSocket while it is open
    writer,       \* writer[k]: whether the writePump of k still runs
    dropped,      \* dropped[k]: history: a message to k was dropped
    clients,      \* clients[c]: the registered connection of client c
    head,         \* the head revision of the local state machine
    decided,      \* how many entries it has been given
    pending,      \* the results whose onCommit goroutine has not started
    sending,      \* the onCommit calls that hold the read lock
    leader        \* who leads, as Raft tells this node (external)

vars == <<pc, ack, queue, wire, writer, dropped, clients, head, decided,
          pending, sending, leader>>

connVars == <<pc, ack, queue, wire, writer, dropped>>
fsmVars == <<head, decided, pending, sending>>

\* Where a readPump is: before CONNECT; in handleConnect, by the next thing it
\* does; reading messages ("ready"); in handleSubmit, waiting for Raft
\* ("proposed"); or in the deferred function.
Connecting == {"checkLeader", "readCatchUp", "readText", "readRev", "sendAck"}
Live == {"open", "ready", "proposed"} \cup Connecting
Phase == {"closing", "removed", "closed"} \cup Live

NothingRead == [catchUp |-> 0, text |-> 0, rev |-> 0]

Init ==
    /\ pc = [k \in Conn |-> "open"]
    /\ ack = [k \in Conn |-> NothingRead]
    /\ queue = [k \in Conn |-> <<>>]
    /\ wire = [k \in Conn |-> <<>>]
    /\ writer = [k \in Conn |-> FALSE]
    /\ dropped = [k \in Conn |-> FALSE]
    /\ clients = [c \in Client |-> None]
    /\ head = 0 /\ decided = 0 /\ pending = {} /\ sending = {}
    /\ leader \in Leaders

-------------------------------------------------------------------------------
(* Sending.                                                                *)

Ack(r) == [type |-> "ACK", rev |-> r]
Broadcast(r) == [type |-> "BROADCAST", rev |-> r]
Redirect == [type |-> "REDIRECT", rev |-> 0]
Error == [type |-> "ERROR", rev |-> 0]
ConnectAck(a) == [type |-> "CONNECT_ACK", rev |-> a.rev]

\* send() never waits: with the channel full, the select takes its default case.
\* (Mutant: a plain send on the channel.)
MaySendWaiting(k) == Len(queue[k]) < Capacity
MaySend(k) == TRUE

\* (Mutant: the message is queued all the same.)
SendAlways(k, m) ==
    /\ MaySend(k)
    /\ queue' = [queue EXCEPT ![k] = Append(@, m)]
    /\ UNCHANGED dropped
Send(k, m) ==
    /\ MaySend(k)
    /\ IF Len(queue[k]) < Capacity
       THEN queue' = [queue EXCEPT ![k] = Append(@, m)] /\ UNCHANGED dropped
       ELSE dropped' = [dropped EXCEPT ![k] = TRUE] /\ UNCHANGED queue

Goto(k, phase) == pc' = [pc EXCEPT ![k] = phase]

\* writePump: the next message goes out, or cannot and the goroutine ends; it
\* also ends when a ping fails, and when the channel is closed and empty.
Write(k) ==
    /\ writer[k] /\ queue[k] # <<>>
    /\ wire' = [wire EXCEPT ![k] = Append(@, Head(queue[k]))]
    /\ queue' = [queue EXCEPT ![k] = Tail(@)]
    /\ UNCHANGED <<pc, ack, writer, dropped, clients, fsmVars, leader>>

WriteFails(k) ==
    /\ writer[k]
    /\ writer' = [writer EXCEPT ![k] = FALSE]
    /\ \/ queue[k] # <<>> /\ queue' = [queue EXCEPT ![k] = Tail(@)]
       \/ UNCHANGED queue
    /\ UNCHANGED <<pc, ack, wire, dropped, clients, fsmVars, leader>>

-------------------------------------------------------------------------------
(* Connections.                                                            *)

\* The registry is written under the lock: not while an onCommit holds it.
WriteLock == sending = {}

\* CONNECT: the writer is started and the client registered.
Register(k) ==
    /\ pc[k] = "open"
    /\ WriteLock
    /\ writer' = [writer EXCEPT ![k] = TRUE]
    /\ clients' = [clients EXCEPT ![ClientOf[k]] = k]
    /\ Goto(k, "checkLeader")
    /\ UNCHANGED <<ack, queue, wire, dropped, fsmVars, leader>>

\* A node that is not the leader and knows the leader redirects the client.
CheckLeader(k) ==
    /\ pc[k] = "checkLeader"
    /\ IF leader = "other"
       THEN Send(k, Redirect) /\ Goto(k, "ready")
       ELSE Goto(k, "readCatchUp") /\ UNCHANGED <<queue, dropped>>
    /\ UNCHANGED <<ack, wire, writer, clients, fsmVars, leader>>

\* RevisionsSince, HeadText and HeadRev each take and release the state
\* machine's lock.
ReadCatchUp(k) ==
    /\ pc[k] = "readCatchUp"
    /\ ack' = [ack EXCEPT ![k].catchUp = head]
    /\ Goto(k, "readText")
    /\ UNCHANGED <<queue, wire, writer, dropped, clients, fsmVars, leader>>

ReadText(k) ==
    /\ pc[k] = "readText"
    /\ ack' = [ack EXCEPT ![k].text = head]
    /\ Goto(k, "readRev")
    /\ UNCHANGED <<queue, wire, writer, dropped, clients, fsmVars, leader>>

ReadRev(k) ==
    /\ pc[k] = "readRev"
    /\ ack' = [ack EXCEPT ![k].rev = head]
    /\ Goto(k, "sendAck")
    /\ UNCHANGED <<queue, wire, writer, dropped, clients, fsmVars, leader>>

SendConnectAck(k) ==
    /\ pc[k] = "sendAck"
    /\ Send(k, ConnectAck(ack[k]))
    /\ ack' = [ack EXCEPT ![k] = NothingRead]
    /\ Goto(k, "ready")
    /\ UNCHANGED <<wire, writer, clients, fsmVars, leader>>

\* SUBMIT: redirected unless this node leads, refused if the changeset is not
\* valid, or else proposed to Raft, and the reader waits for the future.
Submit(k, valid) ==
    /\ pc[k] = "ready"
    /\ Len(wire[k]) + Len(queue[k]) < MaxMessages
    /\ IF leader = "self" /\ valid
       THEN Goto(k, "proposed") /\ UNCHANGED <<queue, dropped>>
       ELSE Send(k, IF leader = "self" THEN Error ELSE Redirect) /\ UNCHANGED pc
    /\ UNCHANGED <<ack, wire, writer, clients, fsmVars, leader>>

\* Raft.Apply fails: not started in time, or leadership lost.  The entry may
\* still be committed later.
ProposalFails(k) ==
    /\ pc[k] = "proposed"
    /\ Send(k, Error)
    /\ Goto(k, "ready")
    /\ UNCHANGED <<ack, wire, writer, clients, fsmVars, leader>>

\* ReadMessage returns an error: the peer has closed, or has sent nothing for
\* the read deadline.  Then the deferred function runs.
ReadFails(k) ==
    /\ pc[k] \in {"open", "ready"}
    /\ Goto(k, IF pc[k] = "open" THEN "closed" ELSE "closing")
    /\ UNCHANGED <<ack, queue, wire, writer, dropped, clients, fsmVars, leader>>

RemoveClient(k) ==
    /\ pc[k] = "closing"
    /\ WriteLock
    /\ clients' = [clients EXCEPT ![ClientOf[k]] = None]
    /\ Goto(k, "removed")
    /\ UNCHANGED <<ack, queue, wire, writer, dropped, fsmVars, leader>>

\* close(sendCh) and conn.Close(): the writer ends, and what it has not written,
\* or writes yet, reaches nobody.
\* (Mutant: closed without being removed from the registry.)
CloseUnremoved(k) ==
    /\ pc[k] = "closing"
    /\ Goto(k, "closed")
    /\ queue' = [queue EXCEPT ![k] = <<>>] /\ wire' = [wire EXCEPT ![k] = <<>>]
    /\ writer' = [writer EXCEPT ![k] = FALSE] /\ dropped' = [dropped EXCEPT ![k] = FALSE]
    /\ UNCHANGED <<ack, clients, fsmVars, leader>>
CloseSend(k) ==
    /\ pc[k] = "removed"
    /\ Goto(k, "closed")
    /\ queue' = [queue EXCEPT ![k] = <<>>] /\ wire' = [wire EXCEPT ![k] = <<>>]
    /\ writer' = [writer EXCEPT ![k] = FALSE] /\ dropped' = [dropped EXCEPT ![k] = FALSE]
    /\ UNCHANGED <<ack, clients, fsmVars, leader>>

-------------------------------------------------------------------------------
(* Entries and their callbacks.                                            *)

\* The state machine applies an entry of client c: a new revision, a duplicate,
\* or an error, after which Apply returns nil without starting a callback.
\* k is the connection whose handleSubmit waits for this entry, which then just
\* returns; or None, for an entry that came in elsewhere or whose wait ended.
ApplyEntry(c, k, outcome) ==
    /\ decided < MaxEntries
    /\ decided' = decided + 1
    /\ k # None => pc[k] = "proposed" /\ ClientOf[k] = c
    /\ pc' = IF k # None THEN [pc EXCEPT ![k] = "ready"] ELSE pc
    /\ head' = IF outcome = "applied" THEN head + 1 ELSE head
    /\ pending' = IF outcome = "failed" THEN pending
                  ELSE pending \cup {[id |-> decided', rev |-> head', client |-> c,
                                      dup |-> outcome = "duplicate"]}
    /\ UNCHANGED <<ack, queue, wire, writer, dropped, clients, sending, leader>>

\* The connections a result goes to: the author's, and all others unless it is
\* a duplicate.
\* (Mutant: those that are still connecting are passed over.)
RecipientsReady(res) ==
    {clients[c] : c \in IF res.dup THEN {res.client} ELSE Client}
        \cap {k \in Conn : pc[k] = "ready"}
Recipients(res) ==
    {clients[c] : c \in IF res.dup THEN {res.client} ELSE Client} \ {None}

\* A callback goroutine enters onCommit and takes the read lock.
StartCallback(res) ==
    /\ res \in pending
    /\ pending' = pending \ {res}
    /\ sending' = IF Recipients(res) = {} THEN sending
                  ELSE sending \cup {[res |-> res, todo |-> Recipients(res)]}
    /\ UNCHANGED <<connVars, clients, head, decided, leader>>

\* The callback's next send: the ACK first, then the others in the map's random
\* order.  With the last one the read lock is released.
Deliver(s, k) ==
    LET origin == clients[s.res.client]
        rest == s.todo \ {k}
    IN  /\ s \in sending
        /\ k \in s.todo
        /\ origin \in s.todo => k = origin
        /\ Send(k, IF k = origin THEN Ack(s.res.rev) ELSE Broadcast(s.res.rev))
        /\ sending' = (sending \ {s}) \cup
                (IF rest = {} THEN {} ELSE {[s EXCEPT !.todo = rest]})
        /\ UNCHANGED <<pc, ack, wire, writer, clients, head, decided, pending,
                       leader>>

\* Leadership changes (external).
NewLeader(who) ==
    /\ leader' = who
    /\ who # leader
    /\ UNCHANGED <<connVars, clients, fsmVars>>

Callbacks ==
    \/ \E res \in pending : StartCallback(res)
    \/ \E s \in sending : \E k \in s.todo : Deliver(s, k)

Handlers(k) ==
    \/ Register(k) \/ CheckLeader(k)
    \/ ReadCatchUp(k) \/ ReadText(k) \/ ReadRev(k) \/ SendConnectAck(k)
    \/ RemoveClient(k) \/ CloseSend(k)

Next ==
    \/ \E k \in Conn : Handlers(k)
    \/ \E k \in Conn : ReadFails(k) \/ ProposalFails(k)
    \/ \E k \in Conn, valid \in BOOLEAN : Submit(k, valid)
    \/ \E k \in Conn : Write(k) \/ WriteFails(k)
    \/ \E c \in Client, k \in Conn \cup {None},
          outcome \in {"applied", "duplicate", "failed"} : ApplyEntry(c, k, outcome)
    \/ Callbacks
    \/ \E who \in Leaders : NewLeader(who)

Spec == Init /\ [][Next]_vars

\* The goroutines are scheduled, and a lock is not withheld for ever from one
\* that waits for it.  Nothing is assumed of peers, of writers, or of Raft.
Fairness ==
    /\ WF_vars(Callbacks)
    /\ \A k \in Conn : WF_vars(Handlers(k))

FairSpec == Spec /\ Fairness

-------------------------------------------------------------------------------
Message == [type : {"CONNECT_ACK", "ACK", "BROADCAST", "REDIRECT", "ERROR"},
            rev : 0..MaxEntries]
Result == [id : 1..MaxEntries, rev : 0..MaxEntries, client : Client, dup : BOOLEAN]

\* The types; the channel holds no more than it can.
TypeOK ==
    /\ pc \in [Conn -> Phase]
    /\ ack \in [Conn -> [catchUp : Nat, text : Nat, rev : Nat]]
    /\ queue \in [Conn -> Seq(Message)] /\ wire \in [Conn -> Seq(Message)]
    /\ \A k \in Conn : Len(queue[k]) <= Capacity
    /\ writer \in [Conn -> BOOLEAN] /\ dropped \in [Conn -> BOOLEAN]
    /\ clients \in [Client -> Conn \cup {None}]
    /\ head \in 0..decided /\ decided \in 0..MaxEntries
    /\ pending \subseteq Result
    /\ sending \subseteq [res : Result, todo : SUBSET Conn]

\* A callback never sends on a channel that was closed, which would panic and
\* take the server down: closing removes the connection from the registry first,
\* waiting for the callbacks under way (websocket.go:234-240, 418-420), whatever
\* connections of the same client come and go meanwhile.
NoSendOnClosedChannel ==
    /\ \A s \in sending : \A k \in s.todo : pc[k] # "closed"
    /\ \A c \in Client : clients[c] # None => pc[clients[c]] # "closed"

Sent(k) == wire[k] \o queue[k]
SentTo(k) == {Sent(k)[i] : i \in DOMAIN Sent(k)}
Carries(k, type, r) == \E m \in SentTo(k) : m.type = type /\ m.rev = r

\* Because a client is registered before its CONNECT_ACK is read, no revision
\* falls between the two (handleConnect): when the callbacks are done, each one
\* is covered by the CONNECT_ACK or has a message of its own, for a connection
\* that is still registered, still written, and lost nothing to a full channel.
EveryRevisionSent ==
    \A k \in Conn :
        /\ clients[ClientOf[k]] = k /\ pc[k] \in {"ready", "proposed"}
        /\ writer[k] /\ ~dropped[k]
        /\ pending = {} /\ sending = {}
        => \A m \in SentTo(k) : m.type = "CONNECT_ACK" =>
              \A r \in m.rev + 1..head :
                  Carries(k, "ACK", r) \/ Carries(k, "BROADCAST", r)

\* A connection that stops reading cannot hold up the server: sends do not wait,
\* so every callback ends and gives its lock back (websocket.go:126-128).
CallbacksEnd ==
    pending \cup {s.res : s \in sending} # {} ~> pending = {} /\ sending = {}

\* A connection that has failed is always cleaned up: its registry entry and its
\* writer, which ends when the channel is closed.
DisconnectsEnd ==
    \A k \in Conn : pc[k] = "closing" ~> pc[k] = "closed"

-------------------------------------------------------------------------------
(* What comments of the code say and the code does not do.                 *)

\* websocket.go:64-66: CONNECT_ACK has the current HEAD state, and the catch-up
\* to it.  The three reads are of one state.
ConnectAckIsOneState ==
    \A k \in Conn : pc[k] = "sendAck" =>
        ack[k].catchUp = ack[k].text /\ ack[k].text = ack[k].rev

\* websocket.go:293-295: a connecting client is sent the current state: one not
\* older than a revision it has been sent before.
ConnectAckIsCurrent ==
    \A k \in Conn : \A i, j \in DOMAIN Sent(k) :
        i < j /\ Sent(k)[j].type = "CONNECT_ACK" => Sent(k)[i].rev <= Sent(k)[j].rev

\* fsm.go:70: the callback is called from the Raft goroutine.  Revisions then
\* reach each connection in their order, as a client that rebases them needs.
BroadcastsInOrder ==
    \A k \in Conn : \A i, j \in DOMAIN Sent(k) :
        /\ i < j
        /\ Sent(k)[i].type = "BROADCAST" /\ Sent(k)[j].type = "BROADCAST"
        => Sent(k)[i].rev < Sent(k)[j].rev

\* websocket.go:97: the client is told if its request cannot be processed.  A
\* submission ends in a message on its connection, or in a callback, which acks.
FailedSubmitIsReported ==
    [][\A k \in Conn : pc[k] = "proposed" /\ pc'[k] = "ready" =>
          \/ queue'[k] # queue[k] \/ dropped'[k]
          \/ \E res \in pending' \ pending : res.client = ClientOf[k]]_vars

===============================================================================
