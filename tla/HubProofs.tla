------------------------------- MODULE HubProofs -------------------------------
(***************************************************************************)
(* Proofs that the types of the hub are as declared, that no callback      *)
(* sends on a closed channel, and that no revision is lost between a       *)
(* CONNECT_ACK and the callbacks, for any connections, clients, capacity   *)
(* and number of entries.                                                  *)
(* What it needs of sequences is proved at the head of ChangesetProofs.    *)
(***************************************************************************)
EXTENDS Hub, ChangesetProofs

-------------------------------------------------------------------------------
(* Types.                                                                  *)

\* What a CONNECT_ACK will say is a revision number.
TypeInv == TypeOK /\ \A k \in Conn : ack[k].rev \in 0..MaxEntries

\* The part of the types that sending changes.
QueuesOK ==
    /\ queue \in [Conn -> Seq(Message)]
    /\ \A k \in Conn : Len(queue[k]) <= Capacity
    /\ dropped \in [Conn -> BOOLEAN]

\* The messages of the handlers and of the callbacks.
LEMMA Messages ==
    /\ Redirect \in Message /\ Error \in Message
    /\ \A r \in 0..MaxEntries : Ack(r) \in Message /\ Broadcast(r) \in Message
    /\ \A a : a.rev \in 0..MaxEntries => ConnectAck(a) \in Message
<1>1. 0 \in 0..MaxEntries
  BY HubAssumption
<1>. QED
  BY <1>1 DEF Redirect, Error, Ack, Broadcast, ConnectAck, Message

\* send() never queues more than the channel holds.
LEMMA SendOK ==
    ASSUME QueuesOK, NEW k \in Conn, NEW m \in Message, Send(k, m) PROVE QueuesOK'
<1>1. CASE Len(queue[k]) < Capacity
  <2>1. /\ queue' = [queue EXCEPT ![k] = Append(queue[k], m)] /\ dropped' = dropped
        /\ queue[k] \in Seq(Message)
    BY <1>1 DEF Send, QueuesOK
  <2>2. /\ Append(queue[k], m) \in Seq(Message)
        /\ Len(Append(queue[k], m)) = Len(queue[k]) + 1 /\ Len(queue[k]) \in Nat
    BY <2>1
  <2>3. Len(queue[k]) + 1 <= Capacity
    BY <1>1, <2>2, HubAssumption
  <2>. QED
    BY <2>1, <2>2, <2>3 DEF QueuesOK
<1>2. CASE ~(Len(queue[k]) < Capacity)
  BY <1>2 DEF Send, QueuesOK
<1>. QED
  BY <1>1, <1>2

\* writePump only takes messages out.
LEMMA TakeOK ==
    ASSUME QueuesOK, NEW k \in Conn, queue[k] # <<>>,
           queue' = [queue EXCEPT ![k] = Tail(@)], UNCHANGED dropped
    PROVE  QueuesOK' /\ Head(queue[k]) \in Message
<1>1. queue[k] \in Seq(Message) /\ Len(queue[k]) <= Capacity
  BY DEF QueuesOK
<1>2. /\ Tail(queue[k]) \in Seq(Message) /\ Head(queue[k]) \in Message
      /\ Len(Tail(queue[k])) = Len(queue[k]) - 1 /\ Len(queue[k]) \in Nat
  BY <1>1
<1>3. Len(Tail(queue[k])) <= Capacity
  BY <1>1, <1>2, HubAssumption
<1>. QED
  BY <1>2, <1>3 DEF QueuesOK

\* The hub starts in its types.
LEMMA InitTypes == Init => TypeInv
<1>1. SUFFICES ASSUME Init PROVE TypeInv
  OBVIOUS
<1>2. Len(<<>>) = 0 /\ << >> \in Seq(Message) /\ 0 <= Capacity /\ 0 \in 0..MaxEntries
  BY HubAssumption
<1>. QED
  BY <1>1, <1>2 DEF Init, TypeInv, TypeOK, NothingRead, Phase, Live

\* Every step that leaves the entries alone keeps them.
LEMMA FsmTypes ==
    ASSUME TypeInv, UNCHANGED fsmVars,
           pc' \in [Conn -> Phase], QueuesOK',
           ack' \in [Conn -> [catchUp : Nat, text : Nat, rev : Nat]],
           \A k \in Conn : ack'[k].rev \in 0..MaxEntries,
           wire' \in [Conn -> Seq(Message)], writer' \in [Conn -> BOOLEAN],
           clients' \in [Client -> Conn \cup {None}]
    PROVE  TypeInv'
BY DEF TypeInv, TypeOK, QueuesOK, fsmVars

\* The steps of a connection's reader goroutine keep the types.
LEMMA HandlerTypes ==
    ASSUME TypeInv, NEW k \in Conn,
           \/ Register(k) \/ CheckLeader(k) \/ ReadCatchUp(k) \/ ReadText(k)
           \/ ReadRev(k) \/ SendConnectAck(k) \/ RemoveClient(k) \/ CloseSend(k)
           \/ ReadFails(k) \/ ProposalFails(k)
           \/ \E valid \in BOOLEAN : Submit(k, valid)
    PROVE  TypeInv'
<1>1. QueuesOK /\ ClientOf[k] \in Client /\ head \in 0..MaxEntries /\ head \in Nat
  BY HubAssumption DEF TypeInv, TypeOK, QueuesOK
<1>2. UNCHANGED fsmVars
  BY DEF Register, CheckLeader, ReadCatchUp, ReadText, ReadRev, SendConnectAck,
         RemoveClient, CloseSend, ReadFails, ProposalFails, Submit
<1>3. pc' \in [Conn -> Phase]
  <2>1. \/ UNCHANGED pc
        \/ \E phase \in Phase : pc' = [pc EXCEPT ![k] = phase]
    <3>1. /\ Connecting \subseteq Phase
          /\ {"ready", "proposed", "closing", "removed", "closed"} \subseteq Phase
      BY DEF Phase, Live
    <3>. QED
      BY <3>1 DEF Register, CheckLeader, ReadCatchUp, ReadText, ReadRev, SendConnectAck,
             RemoveClient, CloseSend, ReadFails, ProposalFails, Submit, Goto, Connecting
  <2>. QED
    BY <2>1 DEF TypeInv, TypeOK
<1>4. QueuesOK'
  <2>1. \/ UNCHANGED <<queue, dropped>>
        \/ \E m \in Message : Send(k, m)
        \/ CloseSend(k)
    BY Messages DEF TypeInv, Register, CheckLeader, ReadCatchUp, ReadText, ReadRev,
           SendConnectAck, RemoveClient, ReadFails, ProposalFails, Submit
  <2>2. CASE CloseSend(k)
    <3>1. << >> \in Seq(Message) /\ Len(<<>>) = 0 /\ 0 <= Capacity
      BY HubAssumption
    <3>. QED
      BY <1>1, <2>2, <3>1 DEF CloseSend, QueuesOK
  <2>. QED
    BY <1>1, <2>1, <2>2, SendOK DEF QueuesOK
<1>5. /\ ack' \in [Conn -> [catchUp : Nat, text : Nat, rev : Nat]]
      /\ \A j \in Conn : ack'[j].rev \in 0..MaxEntries
  <2>1. 0 \in 0..MaxEntries
    BY HubAssumption
  <2>2. \/ UNCHANGED ack
        \/ ack' = [ack EXCEPT ![k].catchUp = head]
        \/ ack' = [ack EXCEPT ![k].text = head]
        \/ ack' = [ack EXCEPT ![k].rev = head]
        \/ ack' = [ack EXCEPT ![k] = NothingRead]
    BY DEF Register, CheckLeader, ReadCatchUp, ReadText, ReadRev, SendConnectAck,
           RemoveClient, CloseSend, ReadFails, ProposalFails, Submit
  <2> DEFINE Read == [catchUp : Nat, text : Nat, rev : Nat]
  <2>3. ack \in [Conn -> Read] /\ ack[k] \in Read /\ ack[k].rev \in 0..MaxEntries
    BY DEF TypeInv, TypeOK
  <2>4. PICK a : \/ ack' = ack
                    \/ /\ ack' = [ack EXCEPT ![k] = a]
                       /\ a \in Read /\ a.rev \in 0..MaxEntries
    <3>1. /\ [ack[k] EXCEPT !.catchUp = head] \in Read
          /\ [ack[k] EXCEPT !.catchUp = head].rev = ack[k].rev
          /\ [ack[k] EXCEPT !.text = head] \in Read
          /\ [ack[k] EXCEPT !.text = head].rev = ack[k].rev
          /\ [ack[k] EXCEPT !.rev = head] \in Read
          /\ [ack[k] EXCEPT !.rev = head].rev = head
          /\ NothingRead \in Read /\ NothingRead.rev = 0
      BY <1>1, <2>3 DEF NothingRead
    <3>. QED
      BY <1>1, <2>1, <2>2, <2>3, <3>1
  <2> HIDE DEF Read
  <2>5. ack' \in [Conn -> Read] /\ \A j \in Conn : ack'[j].rev \in 0..MaxEntries
    BY <2>3, <2>4 DEF TypeInv
  <2>. QED
    BY <2>5 DEF Read
<1>6. wire' \in [Conn -> Seq(Message)] /\ writer' \in [Conn -> BOOLEAN]
  <2>1. << >> \in Seq(Message)
    OBVIOUS
  <2>. QED
    BY <2>1 DEF TypeInv, TypeOK, Register, CheckLeader, ReadCatchUp, ReadText, ReadRev,
           SendConnectAck, RemoveClient, CloseSend, ReadFails, ProposalFails, Submit
<1>7. clients' \in [Client -> Conn \cup {None}]
  BY <1>1 DEF TypeInv, TypeOK, Register, CheckLeader, ReadCatchUp, ReadText, ReadRev,
         SendConnectAck, RemoveClient, CloseSend, ReadFails, ProposalFails, Submit
<1>. QED
  BY <1>2, <1>3, <1>4, <1>5, <1>6, <1>7, FsmTypes

\* The steps of a connection's writer goroutine keep the types.
LEMMA WriterTypes ==
    ASSUME TypeInv, NEW k \in Conn, Write(k) \/ WriteFails(k) PROVE TypeInv'
<1>1. QueuesOK
  BY DEF TypeInv, TypeOK, QueuesOK
<1>2. UNCHANGED <<pc, ack, clients, fsmVars, dropped>>
  BY DEF Write, WriteFails
<1>3. CASE Write(k)
  <2>1. QueuesOK' /\ Head(queue[k]) \in Message
    BY <1>1, <1>2, <1>3, TakeOK DEF Write
  <2>2. wire[k] \in Seq(Message)
    BY DEF TypeInv, TypeOK
  <2>3. Append(wire[k], Head(queue[k])) \in Seq(Message)
    BY <2>1, <2>2
  <2>4. wire' \in [Conn -> Seq(Message)] /\ writer' \in [Conn -> BOOLEAN]
    BY <1>3, <2>3 DEF Write, TypeInv, TypeOK
  <2>. QED
    BY <1>2, <2>1, <2>4, FsmTypes DEF TypeInv, TypeOK
<1>4. CASE WriteFails(k)
  <2>1. QueuesOK'
    <3>1. CASE UNCHANGED queue
      BY <1>1, <1>2, <3>1 DEF QueuesOK
    <3>2. CASE queue[k] # <<>> /\ queue' = [queue EXCEPT ![k] = Tail(@)]
      BY <1>1, <1>2, <3>2, TakeOK
    <3>. QED
      BY <1>4, <3>1, <3>2 DEF WriteFails
  <2>2. wire' \in [Conn -> Seq(Message)] /\ writer' \in [Conn -> BOOLEAN]
    BY <1>4 DEF WriteFails, TypeInv, TypeOK
  <2>. QED
    BY <1>2, <2>1, <2>2, FsmTypes DEF TypeInv, TypeOK
<1>. QED
  BY <1>3, <1>4

\* Applying an entry keeps the types.
LEMMA ApplyEntryTypes ==
    ASSUME TypeInv, NEW c \in Client, NEW k \in Conn \cup {None},
           NEW outcome \in {"applied", "duplicate", "failed"}, ApplyEntry(c, k, outcome)
    PROVE  TypeInv'
<1>1. /\ decided \in Nat /\ decided < MaxEntries /\ MaxEntries \in Nat
      /\ head \in Nat /\ head <= decided /\ decided' = decided + 1
      /\ head' = head \/ head' = head + 1
  BY HubAssumption DEF TypeInv, TypeOK, ApplyEntry
<1>2. /\ decided' \in 0..MaxEntries /\ decided' \in 1..MaxEntries
      /\ head' \in 0..decided' /\ head' \in 0..MaxEntries
  BY <1>1
<1>3. pending' \subseteq Result
  <2>1. pending \subseteq Result
    BY DEF TypeInv, TypeOK
  <2>2. [id |-> decided', rev |-> head', client |-> c, dup |-> outcome = "duplicate"]
          \in Result
    BY <1>2 DEF Result
  <2>. QED
    BY <2>1, <2>2 DEF ApplyEntry
<1>4. pc' \in [Conn -> Phase]
  BY DEF ApplyEntry, TypeInv, TypeOK, Phase, Live
<1>. QED
  BY <1>2, <1>3, <1>4 DEF ApplyEntry, TypeInv, TypeOK

\* Starting a callback goroutine keeps the types.
LEMMA StartTypes == ASSUME TypeInv, NEW res, StartCallback(res) PROVE TypeInv'
<1>1. res \in Result /\ Recipients(res) \in SUBSET Conn
  <2>1. res \in Result
    BY DEF StartCallback, TypeInv, TypeOK
  <2>2. \A c \in Client : clients[c] \in Conn \cup {None}
    BY DEF TypeInv, TypeOK
  <2>3. res.client \in Client
    BY <2>1 DEF Result
  <2>. QED
    BY <2>1, <2>2, <2>3 DEF Recipients
<1>2. sending' \subseteq [res : Result, todo : SUBSET Conn] /\ pending' \subseteq Result
  <2>1. [res |-> res, todo |-> Recipients(res)] \in [res : Result, todo : SUBSET Conn]
    BY <1>1
  <2>. QED
    BY <2>1 DEF StartCallback, TypeInv, TypeOK
<1>. QED
  BY <1>2 DEF StartCallback, TypeInv, TypeOK, connVars

\* A callback's send to one connection keeps the types.
LEMMA DeliverTypes ==
    ASSUME TypeInv, NEW s, NEW k, Deliver(s, k) PROVE TypeInv'
<1>1. /\ s \in [res : Result, todo : SUBSET Conn] /\ k \in Conn
      /\ s.res \in Result /\ s.res.rev \in 0..MaxEntries
  <2>1. s \in [res : Result, todo : SUBSET Conn] /\ k \in s.todo
    BY DEF Deliver, TypeInv, TypeOK
  <2>. QED
    BY <2>1 DEF Result
<1>2. QueuesOK'
  <2>1. \E m \in Message : Send(k, m)
    BY <1>1, Messages DEF Deliver
  <2>2. QueuesOK
    BY DEF TypeInv, TypeOK, QueuesOK
  <2>. QED
    BY <1>1, <2>1, <2>2, SendOK
<1>3. sending' \subseteq [res : Result, todo : SUBSET Conn]
  <2>1. [s EXCEPT !.todo = s.todo \ {k}] \in [res : Result, todo : SUBSET Conn]
    BY <1>1
  <2>. QED
    BY <2>1 DEF Deliver, TypeInv, TypeOK
<1>. QED
  BY <1>2, <1>3 DEF Deliver, TypeInv, TypeOK, QueuesOK

\* Every step keeps the types.
LEMMA NextTypes == ASSUME TypeInv, [Next]_vars PROVE TypeInv'
<1>1. CASE \E k \in Conn : Handlers(k)
  BY <1>1, HandlerTypes DEF Handlers
<1>2. CASE \E k \in Conn : ReadFails(k) \/ ProposalFails(k)
  BY <1>2, HandlerTypes
<1>3. CASE \E k \in Conn, valid \in BOOLEAN : Submit(k, valid)
  BY <1>3, HandlerTypes
<1>4. CASE \E k \in Conn : Write(k) \/ WriteFails(k)
  BY <1>4, WriterTypes
<1>5. CASE \E c \in Client, k \in Conn \cup {None},
             outcome \in {"applied", "duplicate", "failed"} : ApplyEntry(c, k, outcome)
  BY <1>5, ApplyEntryTypes
<1>6. CASE Callbacks
  BY <1>6, StartTypes, DeliverTypes DEF Callbacks
<1>7. CASE \E who \in Leaders : NewLeader(who)
  BY <1>7 DEF NewLeader, TypeInv, TypeOK, connVars, fsmVars
<1>8. CASE UNCHANGED vars
  BY <1>8 DEF vars, TypeInv, TypeOK, fsmVars
<1>. QED
  BY <1>1, <1>2, <1>3, <1>4, <1>5, <1>6, <1>7, <1>8 DEF Next

\* The types are as declared; in particular no channel holds more than its
\* capacity, whatever is sent (websocket.go:140-144).
THEOREM HubTypes == Spec => []TypeOK
<1>1. Spec => []TypeInv
  BY InitTypes, NextTypes, PTL DEF Spec
<1>2. TypeInv => TypeOK
  BY DEF TypeInv
<1>. QED
  BY <1>1, <1>2, PTL

-------------------------------------------------------------------------------
(* The registry and the callbacks.                                         *)

\* Where a readPump is while its connection may be in the registry or in a
\* callback that found it there: after CONNECT and before removeClient.
Reachable == (Live \ {"open"}) \cup {"closing"}

\* A registered connection is of the client it is registered for.
RegistryOK ==
    \A c \in Client : clients[c] # None =>
        ClientOf[clients[c]] = c /\ pc[clients[c]] \in Reachable

\* A callback under the read lock sends only to such connections.
SendingOK == \A s \in sending : \A k \in s.todo : pc[k] \in Reachable

\* The inductive invariant.
IInv == TypeOK /\ RegistryOK /\ SendingOK

\* At the start no connection is registered and no callback is sending.
LEMMA InitOK == Init => RegistryOK /\ SendingOK
BY DEF Init, RegistryOK, SendingOK

\* Where connections stay reachable, and the registry and the callbacks are left
\* alone, nothing is at risk.
LEMMA StayOK ==
    ASSUME IInv, \A k \in Conn : pc[k] \in Reachable => pc'[k] \in Reachable,
           UNCHANGED <<clients, sending>>
    PROVE  RegistryOK' /\ SendingOK'
<1>1. \A c \in Client : clients[c] \in Conn \cup {None}
  BY DEF IInv, TypeOK
<1>2. \A s \in sending : \A k \in s.todo : k \in Conn
  BY DEF IInv, TypeOK
<1>. QED
  BY <1>1, <1>2 DEF IInv, RegistryOK, SendingOK

\* Most steps of a handler keep its connection reachable, or come before it is.
LEMMA MoveOK ==
    ASSUME IInv, NEW k \in Conn,
           \/ CheckLeader(k) \/ ReadCatchUp(k) \/ ReadText(k) \/ ReadRev(k)
           \/ SendConnectAck(k) \/ ReadFails(k) \/ ProposalFails(k) \/ CloseSend(k)
           \/ \E valid \in BOOLEAN : Submit(k, valid)
    PROVE  RegistryOK' /\ SendingOK'
<1>1. UNCHANGED <<clients, sending>>
  BY DEF CheckLeader, ReadCatchUp, ReadText, ReadRev, SendConnectAck, ReadFails,
         ProposalFails, CloseSend, Submit, fsmVars
<1>2. \/ UNCHANGED pc
      \/ pc[k] \notin Reachable /\ \E phase : pc' = [pc EXCEPT ![k] = phase]
      \/ \E phase \in Reachable : pc' = [pc EXCEPT ![k] = phase]
  <2>1. /\ Connecting \subseteq Reachable /\ {"ready", "proposed", "closing"} \subseteq Reachable
        /\ "open" \notin Reachable /\ "removed" \notin Reachable
    BY DEF Reachable, Live, Connecting
  <2>. QED
    BY <2>1 DEF CheckLeader, ReadCatchUp, ReadText, ReadRev, SendConnectAck, ReadFails,
           ProposalFails, CloseSend, Submit, Goto, Connecting
<1>3. \A j \in Conn : pc[j] \in Reachable => pc'[j] \in Reachable
  BY <1>2 DEF IInv, TypeOK
<1>. QED
  BY <1>1, <1>3, StayOK

\* Registration waits for the callbacks, and takes the place of another
\* connection of the same client.
LEMMA RegisterOK ==
    ASSUME IInv, NEW k \in Conn, Register(k) PROVE RegistryOK' /\ SendingOK'
<1>1. /\ pc' = [pc EXCEPT ![k] = "checkLeader"]
      /\ clients' = [clients EXCEPT ![ClientOf[k]] = k]
      /\ sending' = {}
  BY DEF Register, WriteLock, Goto, fsmVars
<1>2. "checkLeader" \in Reachable
  BY DEF Live, Connecting, Reachable
<1>3. pc \in [Conn -> Phase] /\ clients \in [Client -> Conn \cup {None}]
  BY DEF IInv, TypeOK
<1>4. ASSUME NEW c \in Client, clients'[c] # None
      PROVE  ClientOf[clients'[c]] = c /\ pc'[clients'[c]] \in Reachable
  <2>1. CASE c = ClientOf[k]
    BY <1>1, <1>2, <1>3, <2>1
  <2>2. CASE c # ClientOf[k]
    <3>1. clients'[c] = clients[c] /\ clients[c] \in Conn
      BY <1>1, <1>3, <1>4, <2>2
    <3>2. ClientOf[clients[c]] = c /\ pc[clients[c]] \in Reachable
      BY <1>4, <3>1 DEF IInv, RegistryOK
    <3>. QED
      BY <1>1, <1>2, <1>3, <3>1, <3>2
  <2>. QED
    BY <2>1, <2>2
<1>. QED
  BY <1>1, <1>4 DEF RegistryOK, SendingOK

\* removeClient waits for the callbacks, so none can still find the connection;
\* it takes out whatever is registered for the client, itself included.
LEMMA RemoveOK ==
    ASSUME IInv, NEW k \in Conn, RemoveClient(k) PROVE RegistryOK' /\ SendingOK'
<1>1. /\ pc' = [pc EXCEPT ![k] = "removed"]
      /\ clients' = [clients EXCEPT ![ClientOf[k]] = None]
      /\ sending' = {}
  BY DEF RemoveClient, WriteLock, Goto, fsmVars
<1>2. pc \in [Conn -> Phase] /\ clients \in [Client -> Conn \cup {None}]
  BY DEF IInv, TypeOK
<1>3. ASSUME NEW c \in Client, clients'[c] # None
      PROVE  ClientOf[clients'[c]] = c /\ pc'[clients'[c]] \in Reachable
  <2>1. c # ClientOf[k] /\ clients'[c] = clients[c] /\ clients[c] \in Conn
    BY <1>1, <1>2, <1>3
  <2>2. ClientOf[clients[c]] = c /\ pc[clients[c]] \in Reachable
    BY <1>3, <2>1 DEF IInv, RegistryOK
  <2>3. clients[c] # k
    BY <2>1, <2>2
  <2>. QED
    BY <1>1, <1>2, <2>1, <2>2, <2>3
<1>. QED
  BY <1>1, <1>3 DEF RegistryOK, SendingOK

\* An entry that was waited for lets its handler go on.
LEMMA ApplyEntryOK ==
    ASSUME IInv, NEW c \in Client, NEW k \in Conn \cup {None},
           NEW outcome \in {"applied", "duplicate", "failed"}, ApplyEntry(c, k, outcome)
    PROVE  RegistryOK' /\ SendingOK'
<1>1. "ready" \in Reachable /\ pc \in [Conn -> Phase]
  BY DEF Live, Reachable, IInv, TypeOK
<1>2. UNCHANGED <<clients, sending>>
  BY DEF ApplyEntry
<1>3. \A j \in Conn : pc[j] \in Reachable => pc'[j] \in Reachable
  BY <1>1 DEF ApplyEntry
<1>. QED
  BY <1>2, <1>3, StayOK

\* A callback takes its recipients from the registry.
LEMMA StartOK ==
    ASSUME IInv, NEW res, StartCallback(res) PROVE RegistryOK' /\ SendingOK'
<1>1. UNCHANGED <<pc, clients>>
  BY DEF StartCallback, connVars
<1>2. res.client \in Client
  BY DEF StartCallback, IInv, TypeOK, Result
<1>3. \A k \in Recipients(res) : pc[k] \in Reachable
  BY <1>2 DEF Recipients, IInv, RegistryOK
<1>4. \A s \in sending' : s \in sending \/ s.todo = Recipients(res)
  BY DEF StartCallback
<1>. QED
  BY <1>1, <1>3, <1>4 DEF IInv, RegistryOK, SendingOK

\* A callback has one connection less to send to.
LEMMA DeliverOK ==
    ASSUME IInv, NEW s, NEW k, Deliver(s, k) PROVE RegistryOK' /\ SendingOK'
<1>1. UNCHANGED <<pc, clients>> /\ s \in sending
  BY DEF Deliver
<1>2. [s EXCEPT !.todo = s.todo \ {k}].todo = s.todo \ {k}
  BY <1>1 DEF IInv, TypeOK
<1>3. \A t \in sending' : t \in sending \/ t.todo = s.todo \ {k}
  BY <1>2 DEF Deliver
<1>. QED
  BY <1>1, <1>3 DEF IInv, RegistryOK, SendingOK

\* Every step keeps the registry and the sending callbacks in order.
LEMMA NextOK == ASSUME IInv, [Next]_vars PROVE RegistryOK' /\ SendingOK'
<1>1. CASE \E k \in Conn : Handlers(k)
  BY <1>1, MoveOK, RegisterOK, RemoveOK DEF Handlers
<1>2. CASE \E k \in Conn : ReadFails(k) \/ ProposalFails(k)
  BY <1>2, MoveOK
<1>3. CASE \E k \in Conn, valid \in BOOLEAN : Submit(k, valid)
  BY <1>3, MoveOK
<1>4. CASE \E k \in Conn : Write(k) \/ WriteFails(k)
  BY <1>4, StayOK DEF Write, WriteFails, fsmVars
<1>5. CASE \E c \in Client, k \in Conn \cup {None},
             outcome \in {"applied", "duplicate", "failed"} : ApplyEntry(c, k, outcome)
  BY <1>5, ApplyEntryOK
<1>6. CASE Callbacks
  BY <1>6, StartOK, DeliverOK DEF Callbacks
<1>7. CASE \E who \in Leaders : NewLeader(who)
  BY <1>7, StayOK DEF NewLeader, connVars, fsmVars
<1>8. CASE UNCHANGED vars
  BY <1>8, StayOK DEF vars
<1>. QED
  BY <1>1, <1>2, <1>3, <1>4, <1>5, <1>6, <1>7, <1>8 DEF Next

\* No onCommit sends on a channel that is closed, whatever connections of a
\* client come and go (websocket.go:234-240, 418-420).
THEOREM NoPanic == Spec => []NoSendOnClosedChannel
<1>1. Spec => []TypeOK
  BY HubTypes
<1>2. IInv /\ TypeOK' /\ [Next]_vars => IInv'
  BY NextOK DEF IInv
<1>3. Init /\ TypeOK => IInv
  BY InitOK DEF IInv
<1>4. IInv => NoSendOnClosedChannel
  <2>1. "closed" \notin Reachable
    BY DEF Reachable, Live, Connecting
  <2>. QED
    BY <2>1 DEF IInv, RegistryOK, SendingOK, NoSendOnClosedChannel
<1>. QED
  BY <1>1, <1>2, <1>3, <1>4, PTL DEF Spec

-------------------------------------------------------------------------------
(* Every revision reaches every connection.                                *)

Told(k, r) == Carries(k, "ACK", r) \/ Carries(k, "BROADCAST", r)

\* Connection k has been told of revision r, or a callback is about to tell it.
Covered(k, r) ==
    \/ Told(k, r)
    \/ \E res \in pending : res.rev = r /\ ~res.dup
    \/ \E s \in sending : s.res.rev = r /\ k \in s.todo

\* The connections the promise is about, from the moment head_rev is read.
Served(k) ==
    /\ clients[ClientOf[k]] = k /\ pc[k] \in {"sendAck", "ready", "proposed"}
    /\ writer[k] /\ ~dropped[k]

HasAck(k) == \E m \in SentTo(k) : m.type = "CONNECT_ACK"

\* Before the CONNECT_ACK is sent.
Before == {"open"} \cup Connecting

\* The CONNECT_ACK is sent once, after the reads.
AckOnceOK(k) == pc[k] \in Before => ~HasAck(k)

\* What is after the revision that was read, or sent, is covered.
CoveredOK(k) ==
    Served(k) =>
        /\ pc[k] = "sendAck" => \A r \in ack[k].rev + 1..head : Covered(k, r)
        /\ \A m \in SentTo(k) : m.type = "CONNECT_ACK" =>
              \A r \in m.rev + 1..head : Covered(k, r)

RevOK == \A k \in Conn : AckOnceOK(k) /\ CoveredOK(k)

RevInv == TypeOK /\ RevOK

\* What a sequence contains.
Elems(q) == {q[i] : i \in DOMAIN q}

\* Appending a message adds it to the elements of a channel.
LEMMA ElemsAppend ==
    ASSUME NEW q, IsSeq(q), NEW m PROVE Elems(Append(q, m)) = Elems(q) \cup {m}
<1> DEFINE r == Append(q, m)
<1>1. /\ Len(q) \in Nat /\ DOMAIN q = 1..Len(q) /\ DOMAIN r = 1..Len(q) + 1
      /\ \A i \in 1..Len(q) : r[i] = q[i]
      /\ r[Len(q) + 1] = m
  BY AppendSeq
<1> HIDE DEF r
<1>2. \A i \in 1..Len(q) + 1 : i \in 1..Len(q) \/ i = Len(q) + 1
  BY <1>1
<1>3. Len(q) + 1 \in 1..Len(q) + 1 /\ \A i \in 1..Len(q) : i \in 1..Len(q) + 1
  BY <1>1
<1>4. Elems(r) = Elems(q) \cup {m}
  BY <1>1, <1>2, <1>3 DEF Elems
<1>. QED
  BY <1>4 DEF r

\* The elements of joined sequences.
LEMMA ElemsConcat ==
    ASSUME NEW S, NEW w \in Seq(S), NEW q \in Seq(S)
    PROVE  Elems(w \o q) = Elems(w) \cup Elems(q)
<1> DEFINE r == w \o q
<1>1. /\ Len(w) \in Nat /\ Len(q) \in Nat /\ DOMAIN w = 1..Len(w) /\ DOMAIN q = 1..Len(q)
      /\ DOMAIN r = 1..Len(w) + Len(q)
      /\ \A i \in 1..Len(w) + Len(q) :
            r[i] = IF i <= Len(w) THEN w[i] ELSE q[i - Len(w)]
  BY ConcatProperties, LenProperties
<1> HIDE DEF r
<1>2. ASSUME NEW x \in Elems(r) PROVE x \in Elems(w) \cup Elems(q)
  <2>1. PICK i \in 1..Len(w) + Len(q) : x = r[i]
    BY <1>1, <1>2 DEF Elems
  <2>2. i \in 1..Len(w) \/ (~(i <= Len(w)) /\ i - Len(w) \in 1..Len(q))
    BY <1>1, <2>1
  <2>3. (i \in 1..Len(w) /\ x = w[i]) \/ (i - Len(w) \in 1..Len(q) /\ x = q[i - Len(w)])
    BY <1>1, <2>1, <2>2
  <2>. QED
    BY <1>1, <2>3 DEF Elems
<1>3. ASSUME NEW x \in Elems(w) PROVE x \in Elems(r)
  <2>1. PICK i \in 1..Len(w) : x = w[i]
    BY <1>1, <1>3 DEF Elems
  <2>2. i \in 1..Len(w) + Len(q) /\ i <= Len(w)
    BY <1>1, <2>1
  <2>3. r[i] = x
    BY <1>1, <2>1, <2>2
  <2>. QED
    BY <1>1, <2>2, <2>3 DEF Elems
<1>4. ASSUME NEW x \in Elems(q) PROVE x \in Elems(r)
  <2>1. PICK i \in 1..Len(q) : x = q[i]
    BY <1>1, <1>4 DEF Elems
  <2>2. /\ i + Len(w) \in 1..Len(w) + Len(q) /\ ~(i + Len(w) <= Len(w))
        /\ i + Len(w) - Len(w) = i
    BY <1>1, <2>1
  <2>3. r[i + Len(w)] = x
    BY <1>1, <2>1, <2>2
  <2>. QED
    BY <1>1, <2>2, <2>3 DEF Elems
<1>5. Elems(r) = Elems(w) \cup Elems(q)
  BY <1>2, <1>3, <1>4
<1>. QED
  BY <1>5 DEF r

\* Receiving takes the first message from a channel.
LEMMA ElemsTail ==
    ASSUME NEW q, IsSeq(q), q # << >>
    PROVE  Elems(q) = {Head(q)} \cup Elems(Tail(q))
<1>1. q = <<Head(q)>> \o Tail(q) /\ <<Head(q)>> \in Seq(Elems(q)) /\ Tail(q) \in Seq(Elems(q))
  BY DEF IsSeq, Elems
<1>2. Elems(<<Head(q)>>) = {Head(q)}
  BY DEF Elems
<1>3. Elems(<<Head(q)>> \o Tail(q)) = Elems(<<Head(q)>>) \cup Elems(Tail(q))
  BY <1>1, ElemsConcat, ZenonT(40)
<1>. QED
  BY <1>1, <1>2, <1>3

\* What has been sent is what was written and what is queued.
LEMMA SentIs ==
    ASSUME NEW k, wire[k] \in Seq(Message), queue[k] \in Seq(Message)
    PROVE  SentTo(k) = Elems(wire[k]) \cup Elems(queue[k])
<1>1. SentTo(k) = Elems(wire[k] \o queue[k])
  BY DEF SentTo, Sent, Elems
<1>. QED
  BY <1>1, ElemsConcat

\* A message that is queued is sent; one that is dropped leaves all as it was.
LEMMA SendSent ==
    ASSUME TypeOK, NEW k \in Conn, NEW m \in Message, Send(k, m), UNCHANGED wire
    PROVE  /\ \A j \in Conn \ {k} : SentTo(j)' = SentTo(j) /\ dropped'[j] = dropped[j]
           /\ dropped[k] => dropped'[k]
           /\ ~dropped'[k] => SentTo(k)' = SentTo(k) \cup {m}
           /\ SentTo(k)' \subseteq SentTo(k) \cup {m}
<1>1. /\ queue \in [Conn -> Seq(Message)] /\ wire[k] \in Seq(Message)
      /\ queue[k] \in Seq(Message) /\ dropped \in [Conn -> BOOLEAN]
  BY DEF TypeOK
<1>2. \A j \in Conn \ {k} : queue'[j] = queue[j] /\ dropped'[j] = dropped[j]
  BY <1>1 DEF Send
<1>3. \A j \in Conn \ {k} : SentTo(j)' = SentTo(j)
  BY <1>2 DEF SentTo, Sent
<1>4. CASE Len(queue[k]) < Capacity
  <2>1. queue'[k] = Append(queue[k], m) /\ UNCHANGED dropped
    BY <1>1, <1>4 DEF Send
  <2>2. Append(queue[k], m) \in Seq(Message) /\ wire' = wire
    BY <1>1
  <2>3. SentTo(k)' = SentTo(k) \cup {m}
    <3>1. SentTo(k) = Elems(wire[k]) \cup Elems(queue[k])
      BY <1>1, SentIs
    <3>2. SentTo(k)' = Elems(wire'[k] \o queue'[k])
      BY DEF SentTo, Sent, Elems
    <3>3. SentTo(k)' = Elems(wire[k]) \cup Elems(Append(queue[k], m))
      <4>1. Elems(wire[k] \o Append(queue[k], m)) = Elems(wire[k]) \cup Elems(Append(queue[k], m))
        BY <1>1, <2>2, ElemsConcat, ZenonT(40)
      <4>2. wire'[k] = wire[k]
        BY <2>2
      <4>. QED
        BY <2>1, <3>2, <4>1, <4>2
    <3>4. Elems(Append(queue[k], m)) = Elems(queue[k]) \cup {m}
      BY <1>1, OfSet, ElemsAppend
    <3>. QED
      BY <3>1, <3>3, <3>4
  <2>. QED
    BY <1>2, <1>3, <2>1, <2>3
<1>5. CASE ~(Len(queue[k]) < Capacity)
  <2>1. dropped'[k] = TRUE /\ UNCHANGED queue
    BY <1>1, <1>5 DEF Send
  <2>2. SentTo(k)' = SentTo(k)
    BY <2>1 DEF SentTo, Sent
  <2>. QED
    BY <1>2, <1>3, <2>1, <2>2
<1>. QED
  BY <1>4, <1>5

\* The types that the lemmas below need.
LEMMA HubFacts ==
    ASSUME TypeOK
    PROVE  /\ pc \in [Conn -> Phase] /\ writer \in [Conn -> BOOLEAN]
           /\ dropped \in [Conn -> BOOLEAN] /\ clients \in [Client -> Conn \cup {None}]
           /\ head \in Nat /\ \A k \in Conn : SentTo(k) \subseteq Message
           /\ \A m \in Message : m.rev \in Nat
<1>1. \A k \in Conn : SentTo(k) \subseteq Message
  <2>1. SUFFICES ASSUME NEW k \in Conn PROVE SentTo(k) \subseteq Message
    OBVIOUS
  <2>2. wire[k] \in Seq(Message) /\ queue[k] \in Seq(Message)
    BY DEF TypeOK
  <2>3. Elems(wire[k]) \subseteq Message /\ Elems(queue[k]) \subseteq Message
    BY <2>2, ElementOfSeq DEF Elems
  <2>. QED
    BY <2>2, <2>3, SentIs
<1>2. head \in Nat /\ \A m \in Message : m.rev \in Nat
  BY HubAssumption DEF TypeOK, Message
<1>. QED
  BY <1>1, <1>2 DEF TypeOK

\* A connection to which nothing new is promised keeps what it was promised.
LEMMA KeepOK ==
    ASSUME RevInv, TypeOK', NEW k \in Conn,
           \A m \in SentTo(k)' : m.type = "CONNECT_ACK" => m \in SentTo(k),
           pc'[k] \in Before => pc[k] \in Before,
           Served(k)' => Served(k) \/ (pc[k] \in Before /\ pc'[k] # "sendAck"),
           pc'[k] = "sendAck" => ack'[k].rev = ack[k].rev /\ pc[k] = "sendAck",
           Served(k)' => \A r : Covered(k, r) => Covered(k, r)',
           Served(k)' => \A r \in head + 1..head' : Covered(k, r)'
    PROVE  AckOnceOK(k)' /\ CoveredOK(k)'
<1>1. AckOnceOK(k) /\ CoveredOK(k) /\ TypeOK
  BY DEF RevInv, RevOK
<1>2. AckOnceOK(k)'
  BY <1>1 DEF AckOnceOK, HasAck
<1>3. head \in Nat /\ head' \in Nat
  <2>1. head \in Nat
    BY <1>1, HubFacts
  <2>2. head' \in 0..decided' /\ decided' \in 0..MaxEntries
    BY DEF TypeOK
  <2>. QED
    BY <2>1, <2>2, HubAssumption
<1>4. ASSUME Served(k)', NEW n \in Nat, \A r \in n + 1..head : Covered(k, r)
      PROVE  \A r \in n + 1..head' : Covered(k, r)'
  <2>1. SUFFICES ASSUME NEW r \in n + 1..head' PROVE Covered(k, r)'
    OBVIOUS
  <2>2. r \in n + 1..head \/ r \in head + 1..head'
    BY <1>3, <2>1
  <2>. QED
    BY <1>4, <2>2
<1>5. ASSUME Served(k)', pc'[k] = "sendAck"
      PROVE  \A r \in ack'[k].rev + 1..head' : Covered(k, r)'
  <2>1. ack[k].rev \in Nat
    BY <1>1 DEF TypeOK
  <2>2. \A r \in ack[k].rev + 1..head : Covered(k, r)
    BY <1>1, <1>5 DEF CoveredOK
  <2>3. \A r \in ack[k].rev + 1..head' : Covered(k, r)'
    BY <1>4, <1>5, <2>1, <2>2
  <2>. QED
    BY <1>5, <2>3
<1>6. ASSUME Served(k)', NEW m \in SentTo(k)', m.type = "CONNECT_ACK"
      PROVE  \A r \in m.rev + 1..head' : Covered(k, r)'
  <2>1. m \in SentTo(k)
    BY <1>6
  <2>a. m.rev \in Nat
    BY <1>1, <2>1, HubFacts
  <2>2. Served(k)
    BY <1>1, <1>6, <2>1 DEF AckOnceOK, HasAck
  <2>3. \A r \in m.rev + 1..head : Covered(k, r)
    BY <1>1, <1>6, <2>1, <2>2 DEF CoveredOK
  <2>. QED
    BY <1>4, <1>6, <2>a, <2>3
<1>7. CoveredOK(k)'
  BY <1>5, <1>6 DEF CoveredOK
<1>. QED
  BY <1>2, <1>7

\* A connection that a step does not touch, while no entry is applied.
LEMMA OthersOK ==
    ASSUME RevInv, TypeOK', NEW j \in Conn,
           SentTo(j)' = SentTo(j), pc'[j] = pc[j], ack'[j] = ack[j], writer'[j] = writer[j],
           dropped'[j] = dropped[j], clients'[ClientOf[j]] = j => clients[ClientOf[j]] = j,
           UNCHANGED <<head, pending, sending>>
    PROVE  AckOnceOK(j)' /\ CoveredOK(j)'
<1>1. Served(j)' => Served(j)
  BY DEF Served
<1>2. \A r : Covered(j, r) => Covered(j, r)'
  BY DEF Covered, Told, Carries
<1>3. head' = head /\ head \in Nat
  BY HubFacts DEF RevInv
<1>4. \A r \in head + 1..head' : Covered(j, r)'
  BY <1>3
<1>5. \A m \in SentTo(j)' : m.type = "CONNECT_ACK" => m \in SentTo(j)
  OBVIOUS
<1>6. pc'[j] \in Before => pc[j] \in Before
  OBVIOUS
<1>7. pc'[j] = "sendAck" => ack'[j].rev = ack[j].rev /\ pc[j] = "sendAck"
  OBVIOUS
<1>8. Served(j)' => Served(j) \/ (pc[j] \in Before /\ pc'[j] # "sendAck")
  BY <1>1
<1>9. Served(j)' => \A r : Covered(j, r) => Covered(j, r)'
  BY <1>2
<1>10. Served(j)' => \A r \in head + 1..head' : Covered(j, r)'
  BY <1>4
<1>. QED
  BY <1>5, <1>6, <1>7, <1>8, <1>9, <1>10, KeepOK

\* A connection to which nothing more is sent is promised nothing.
LEMMA GoneOK ==
    ASSUME NEW k \in Conn, pc'[k] \notin Before \cup {"ready", "proposed"}
    PROVE  AckOnceOK(k)' /\ CoveredOK(k)'
BY DEF AckOnceOK, CoveredOK, Served, Before, Connecting

\* One that is still connecting.
LEMMA ConnectingOK ==
    ASSUME RevInv, NEW k \in Conn, pc[k] \in Before, UNCHANGED <<wire, queue>>,
           pc'[k] \notin {"sendAck", "ready", "proposed"}
    PROVE  AckOnceOK(k)' /\ CoveredOK(k)'
<1>1. SentTo(k)' = SentTo(k) /\ ~HasAck(k)
  BY DEF SentTo, Sent, RevInv, RevOK, AckOnceOK
<1>2. ~HasAck(k)'
  BY <1>1 DEF HasAck
<1>. QED
  BY <1>2 DEF AckOnceOK, CoveredOK, Served

\* A message that is no CONNECT_ACK takes nothing back.
LEMMA SendOtherOK ==
    ASSUME RevInv, TypeOK', NEW k \in Conn, NEW m \in Message, m.type # "CONNECT_ACK",
           Send(k, m), pc[k] # "sendAck", NEW phase \in {"ready", "proposed"},
           pc' = [pc EXCEPT ![k] = phase],
           pc[k] \in Before \cup {"ready", "proposed"},
           UNCHANGED <<wire, ack, writer, clients, head, pending, sending>>
    PROVE  RevOK'
<1>1. TypeOK /\ pc \in [Conn -> Phase]
  BY DEF RevInv, TypeOK
<1>2. /\ \A j \in Conn \ {k} : SentTo(j)' = SentTo(j) /\ dropped'[j] = dropped[j]
      /\ dropped[k] => dropped'[k]
      /\ ~dropped'[k] => SentTo(k)' = SentTo(k) \cup {m}
      /\ SentTo(k)' \subseteq SentTo(k) \cup {m}
  BY <1>1, SendSent
<1>3. ASSUME NEW j \in Conn, j # k PROVE AckOnceOK(j)' /\ CoveredOK(j)'
  BY <1>1, <1>2, <1>3, OthersOK
<1>4. AckOnceOK(k)' /\ CoveredOK(k)'
  <2>1. pc'[k] = phase
    BY <1>1
  <2>2. \A x \in SentTo(k)' : x.type = "CONNECT_ACK" => x \in SentTo(k)
    BY <1>2
  <2>3. pc'[k] \in Before => pc[k] \in Before
    BY <2>1 DEF Before, Connecting
  <2>4. Served(k)' => Served(k) \/ (pc[k] \in Before /\ pc'[k] # "sendAck")
    BY <1>2, <2>1 DEF Served
  <2>5. pc'[k] = "sendAck" => ack'[k].rev = ack[k].rev /\ pc[k] = "sendAck"
    BY <2>1
  <2>6. Served(k)' => \A r : Covered(k, r) => Covered(k, r)'
    <3>1. Served(k)' => SentTo(k) \subseteq SentTo(k)'
      BY <1>2 DEF Served
    <3>. QED
      BY <3>1 DEF Covered, Told, Carries
  <2>7. Served(k)' => \A r \in head + 1..head' : Covered(k, r)'
    <3>1. head' = head /\ head \in Nat
      BY <1>1, HubFacts
    <3>. QED
      BY <3>1
  <2>. QED
    BY <2>2, <2>3, <2>4, <2>5, <2>6, <2>7, KeepOK
<1>. QED
  BY <1>3, <1>4 DEF RevOK

\* What the readPump does before anything can be promised, and after.
LEMMA EdgesOK ==
    ASSUME RevInv, TypeOK', NEW k \in Conn,
           \/ Register(k) \/ ReadCatchUp(k) \/ ReadText(k)
           \/ RemoveClient(k) \/ CloseSend(k) \/ ReadFails(k)
    PROVE  RevOK'
<1>1. /\ TypeOK /\ pc \in [Conn -> Phase] /\ clients \in [Client -> Conn \cup {None}]
      /\ ClientOf \in [Conn -> Client] /\ None \notin Conn
  BY HubAssumption DEF RevInv, TypeOK
<1>2. ASSUME NEW j \in Conn, j # k PROVE AckOnceOK(j)' /\ CoveredOK(j)'
  <2>1. /\ queue'[j] = queue[j] /\ wire'[j] = wire[j] /\ ack'[j] = ack[j]
        /\ writer'[j] = writer[j] /\ dropped'[j] = dropped[j]
    BY <1>1, <1>2 DEF TypeOK, Register, ReadCatchUp, ReadText, RemoveClient, CloseSend,
                      ReadFails
  <2>2. SentTo(j)' = SentTo(j)
    BY <2>1 DEF SentTo, Sent
  <2>3. pc'[j] = pc[j]
    BY <1>1, <1>2 DEF Register, ReadCatchUp, ReadText, RemoveClient, CloseSend,
                      ReadFails, Goto
  <2>4. clients'[ClientOf[j]] = j => clients[ClientOf[j]] = j
    BY <1>1, <1>2 DEF Register, ReadCatchUp, ReadText, RemoveClient, CloseSend, ReadFails
  <2>5. UNCHANGED <<head, pending, sending>>
    BY DEF Register, ReadCatchUp, ReadText, RemoveClient, CloseSend, ReadFails, fsmVars
  <2>. QED
    BY <2>1, <2>2, <2>3, <2>4, <2>5, OthersOK
<1>3. AckOnceOK(k)' /\ CoveredOK(k)'
  <2>1. CASE Register(k) \/ ReadCatchUp(k) \/ ReadText(k)
    <3>1. /\ pc[k] \in Before /\ UNCHANGED <<wire, queue>>
          /\ pc'[k] \in {"checkLeader", "readText", "readRev"}
      BY <1>1, <2>1 DEF Register, ReadCatchUp, ReadText, Goto, Before, Connecting
    <3>. QED
      BY <3>1, ConnectingOK
  <2>2. CASE RemoveClient(k) \/ CloseSend(k) \/ ReadFails(k)
    <3>1. pc'[k] \in {"removed", "closed", "closing"}
      BY <1>1, <2>2 DEF RemoveClient, CloseSend, ReadFails, Goto
    <3>2. pc'[k] \notin Before \cup {"ready", "proposed"}
      BY <3>1 DEF Before, Connecting
    <3>. QED
      BY <3>2, GoneOK
  <2>. QED
    BY <2>1, <2>2
<1>. QED
  BY <1>2, <1>3 DEF RevOK

\* The handlers that may send something else than a CONNECT_ACK.
LEMMA AnswersOK ==
    ASSUME RevInv, TypeOK', NEW k \in Conn,
           \/ CheckLeader(k) \/ ProposalFails(k) \/ \E valid \in BOOLEAN : Submit(k, valid)
    PROVE  RevOK'
<1>1. TypeOK /\ pc \in [Conn -> Phase]
  BY DEF RevInv, TypeOK
<1>2. /\ Redirect \in Message /\ Redirect.type # "CONNECT_ACK"
      /\ Error \in Message /\ Error.type # "CONNECT_ACK"
  BY Messages DEF Redirect, Error
<1>3. UNCHANGED <<wire, ack, writer, clients, head, pending, sending>>
  BY DEF CheckLeader, ProposalFails, Submit, fsmVars
<1>4. CASE \E m \in {Redirect, Error}, phase \in {"ready", "proposed"} :
              /\ Send(k, m) /\ pc' = [pc EXCEPT ![k] = phase] /\ pc[k] # "sendAck"
              /\ pc[k] \in Before \cup {"ready", "proposed"}
  BY <1>2, <1>3, <1>4, SendOtherOK
<1>5. CASE /\ UNCHANGED <<queue, dropped>>
           /\ \/ pc[k] = "checkLeader" /\ pc' = [pc EXCEPT ![k] = "readCatchUp"]
              \/ pc[k] = "ready" /\ pc' = [pc EXCEPT ![k] = "proposed"]
  <2>1. \A j \in Conn : SentTo(j)' = SentTo(j)
    BY <1>3, <1>5 DEF SentTo, Sent
  <2>2. ASSUME NEW j \in Conn, j # k PROVE AckOnceOK(j)' /\ CoveredOK(j)'
    BY <1>1, <1>3, <1>5, <2>1, <2>2, OthersOK
  <2>3. CASE pc[k] = "checkLeader" /\ pc' = [pc EXCEPT ![k] = "readCatchUp"]
    <3>1. pc'[k] = "readCatchUp" /\ pc[k] \in Before
      BY <1>1, <2>3 DEF Before, Connecting
    <3>. QED
      BY <1>3, <1>5, <2>2, <3>1, ConnectingOK DEF RevOK
  <2>4. CASE pc[k] = "ready" /\ pc' = [pc EXCEPT ![k] = "proposed"]
    <3>1. pc'[k] = "proposed" /\ pc'[k] \notin Before
      BY <1>1, <2>4 DEF Before, Connecting
    <3>2. CoveredOK(k)'
      <4>1. CoveredOK(k) /\ (Served(k)' => Served(k))
        BY <1>3, <1>5, <2>4 DEF RevInv, RevOK, Served
      <4>2. \A r : Covered(k, r) => Covered(k, r)'
        BY <1>3, <2>1 DEF Covered, Told, Carries
      <4>. QED
        BY <1>3, <2>1, <3>1, <4>1, <4>2 DEF CoveredOK
    <3>. QED
      BY <2>2, <3>1, <3>2 DEF AckOnceOK, RevOK
  <2>. QED
    BY <1>5, <2>3, <2>4
<1>6. CASE CheckLeader(k)
  <2>1. /\ pc[k] = "checkLeader" /\ "checkLeader" \in Before
        /\ \/ Send(k, Redirect) /\ pc' = [pc EXCEPT ![k] = "ready"]
           \/ UNCHANGED <<queue, dropped>> /\ pc' = [pc EXCEPT ![k] = "readCatchUp"]
    BY <1>6 DEF CheckLeader, Goto, Before, Connecting
  <2>. QED
    BY <1>4, <1>5, <2>1
<1>7. CASE ProposalFails(k)
  <2>1. pc[k] = "proposed" /\ Send(k, Error) /\ pc' = [pc EXCEPT ![k] = "ready"]
    BY <1>7 DEF ProposalFails, Goto
  <2>. QED
    BY <1>4, <2>1
<1>8. CASE \E valid \in BOOLEAN : Submit(k, valid)
  <2>1. /\ pc[k] = "ready"
        /\ \/ UNCHANGED <<queue, dropped>> /\ pc' = [pc EXCEPT ![k] = "proposed"]
           \/ (Send(k, Redirect) \/ Send(k, Error)) /\ UNCHANGED pc
    BY <1>8 DEF Submit, Goto
  <2>2. UNCHANGED pc => pc' = [pc EXCEPT ![k] = "ready"]
    BY <1>1, <2>1
  <2>. QED
    BY <1>4, <1>5, <2>1, <2>2
<1>. QED
  BY <1>6, <1>7, <1>8

\* There is no revision above the newest.
LEMMA NoneAbove == ASSUME NEW a, NEW b \in Nat, a = b PROVE \A r \in a + 1..b : FALSE
OBVIOUS

\* When head_rev is read nothing is promised yet, and nothing has been sent.
LEMMA ReadRevOK ==
    ASSUME RevInv, TypeOK', NEW k \in Conn, ReadRev(k) PROVE RevOK'
<1>1. /\ TypeOK /\ pc \in [Conn -> Phase] /\ head \in Nat
      /\ ack \in [Conn -> [catchUp : Nat, text : Nat, rev : Nat]]
  BY HubFacts DEF RevInv, TypeOK
<1>2. /\ pc[k] = "readRev" /\ pc' = [pc EXCEPT ![k] = "sendAck"]
      /\ ack' = [ack EXCEPT ![k].rev = head]
      /\ UNCHANGED <<queue, wire, writer, dropped, clients, head, pending, sending>>
  BY DEF ReadRev, Goto, fsmVars
<1>3. \A j \in Conn : SentTo(j)' = SentTo(j)
  BY <1>2 DEF SentTo, Sent
<1>4. ASSUME NEW j \in Conn, j # k PROVE AckOnceOK(j)' /\ CoveredOK(j)'
  BY <1>1, <1>2, <1>3, <1>4, OthersOK
<1>5. ~HasAck(k)'
  <2>1. pc[k] \in Before
    BY <1>2 DEF Before, Connecting
  <2>2. ~HasAck(k)
    BY <2>1 DEF RevInv, RevOK, AckOnceOK
  <2>. QED
    BY <1>3, <2>2 DEF HasAck
<1>6. ack'[k].rev = head'
  BY <1>1, <1>2
<1>7. \A r \in ack'[k].rev + 1..head' : Covered(k, r)'
  <2>1. head' \in Nat
    BY <1>1, <1>2
  <2>. QED
    BY <1>6, <2>1, NoneAbove
<1>8. AckOnceOK(k)' /\ CoveredOK(k)'
  BY <1>5, <1>7 DEF AckOnceOK, CoveredOK, HasAck
<1>. QED
  BY <1>4, <1>8 DEF RevOK

\* The CONNECT_ACK names the revision that was read.
LEMMA SendConnectAckOK ==
    ASSUME RevInv, TypeInv, TypeOK', NEW k \in Conn, SendConnectAck(k) PROVE RevOK'
<1> DEFINE m == ConnectAck(ack[k])
<1>1. /\ TypeOK /\ pc \in [Conn -> Phase]
      /\ ack \in [Conn -> [catchUp : Nat, text : Nat, rev : Nat]]
      /\ m \in Message /\ m.rev = ack[k].rev
  BY Messages DEF TypeInv, TypeOK, ConnectAck
<1>2. /\ pc[k] = "sendAck" /\ pc' = [pc EXCEPT ![k] = "ready"] /\ Send(k, m)
      /\ ack' = [ack EXCEPT ![k] = NothingRead]
      /\ UNCHANGED <<wire, writer, clients, head, pending, sending>>
  BY DEF SendConnectAck, Goto, fsmVars
<1> HIDE DEF m
<1>3. /\ \A j \in Conn \ {k} : SentTo(j)' = SentTo(j) /\ dropped'[j] = dropped[j]
      /\ dropped[k] => dropped'[k]
      /\ ~dropped'[k] => SentTo(k)' = SentTo(k) \cup {m}
      /\ SentTo(k)' \subseteq SentTo(k) \cup {m}
  BY <1>1, <1>2, SendSent
<1>4. ASSUME NEW j \in Conn, j # k PROVE AckOnceOK(j)' /\ CoveredOK(j)'
  BY <1>1, <1>2, <1>3, <1>4, OthersOK
<1>5. pc'[k] = "ready" /\ "ready" \notin Before /\ pc[k] \in Before
  BY <1>1, <1>2 DEF Before, Connecting
<1>6. CoveredOK(k)'
  <2>1. CoveredOK(k) /\ ~HasAck(k)
    BY <1>5 DEF RevInv, RevOK, AckOnceOK
  <2>2. SUFFICES ASSUME Served(k)', NEW x \in SentTo(k)', x.type = "CONNECT_ACK",
                        NEW r \in x.rev + 1..head'
                 PROVE  Covered(k, r)'
    BY <1>5 DEF CoveredOK
  <2>3. Served(k) /\ SentTo(k)' = SentTo(k) \cup {m}
    BY <1>2, <1>3, <2>2 DEF Served
  <2>4. x = m
    BY <2>1, <2>2, <2>3 DEF HasAck
  <2>5. r \in ack[k].rev + 1..head
    BY <1>1, <1>2, <2>2, <2>4
  <2>6. Covered(k, r)
    BY <1>2, <2>1, <2>3, <2>5 DEF CoveredOK
  <2>. QED
    BY <1>2, <2>3, <2>6 DEF Covered, Told, Carries
<1>. QED
  BY <1>4, <1>5, <1>6 DEF AckOnceOK, RevOK

\* Writing moves a message from the channel to the wire.
LEMMA WriteOK ==
    ASSUME RevInv, TypeOK', NEW k \in Conn, Write(k) PROVE RevOK'
<1>1. /\ queue \in [Conn -> Seq(Message)] /\ wire \in [Conn -> Seq(Message)]
      /\ queue[k] # << >>
      /\ wire' = [wire EXCEPT ![k] = Append(wire[k], Head(queue[k]))]
      /\ queue' = [queue EXCEPT ![k] = Tail(queue[k])]
      /\ UNCHANGED <<pc, ack, writer, dropped, clients, head, pending, sending>>
  BY DEF RevInv, TypeOK, Write, fsmVars
<1>2. SentTo(k)' = SentTo(k)
  <2>1. /\ wire[k] \in Seq(Message) /\ queue[k] \in Seq(Message)
        /\ wire'[k] = Append(wire[k], Head(queue[k])) /\ queue'[k] = Tail(queue[k])
    BY <1>1
  <2>2. wire'[k] \in Seq(Message) /\ queue'[k] \in Seq(Message)
    BY <1>1, <2>1
  <2>3. SentTo(k) = Elems(wire[k]) \cup Elems(queue[k])
    BY <2>1, SentIs
  <2>4. SentTo(k)' = Elems(wire'[k]) \cup Elems(queue'[k])
    <3>1. SentTo(k)' = Elems(wire'[k] \o queue'[k])
      BY DEF SentTo, Sent, Elems
    <3>. QED
      BY <2>2, <3>1, ElemsConcat
  <2>5. Elems(wire'[k]) = Elems(wire[k]) \cup {Head(queue[k])}
    BY <2>1, OfSet, ElemsAppend
  <2>6. Elems(queue[k]) = {Head(queue[k])} \cup Elems(queue'[k])
    BY <1>1, <2>1, OfSet, ElemsTail
  <2>. QED
    BY <2>3, <2>4, <2>5, <2>6
<1>3. \A j \in Conn : SentTo(j)' = SentTo(j)
  <2>1. ASSUME NEW j \in Conn, j # k PROVE SentTo(j)' = SentTo(j)
    BY <1>1, <2>1 DEF SentTo, Sent
  <2>. QED
    BY <1>2, <2>1
<1>4. ASSUME NEW j \in Conn PROVE AckOnceOK(j)' /\ CoveredOK(j)'
  BY <1>1, <1>3, <1>4, OthersOK
<1>. QED
  BY <1>4 DEF RevOK

\* A writer that has ended serves nobody.
LEMMA WriteFailsOK ==
    ASSUME RevInv, TypeOK', NEW k \in Conn, WriteFails(k) PROVE RevOK'
<1>1. /\ queue \in [Conn -> Seq(Message)] /\ wire \in [Conn -> Seq(Message)]
      /\ writer \in [Conn -> BOOLEAN] /\ writer' = [writer EXCEPT ![k] = FALSE]
      /\ \/ queue[k] # << >> /\ queue' = [queue EXCEPT ![k] = Tail(queue[k])]
         \/ UNCHANGED queue
      /\ UNCHANGED <<pc, ack, wire, dropped, clients, head, pending, sending>>
  BY DEF RevInv, TypeOK, WriteFails, fsmVars
<1>2. ASSUME NEW j \in Conn, j # k PROVE AckOnceOK(j)' /\ CoveredOK(j)'
  <2>1. queue'[j] = queue[j] /\ writer'[j] = writer[j]
    BY <1>1, <1>2
  <2>2. SentTo(j)' = SentTo(j)
    BY <1>1, <2>1 DEF SentTo, Sent
  <2>. QED
    BY <1>1, <2>1, <2>2, OthersOK
<1>3. ~writer'[k] /\ ~Served(k)'
  BY <1>1 DEF Served
<1>4. SentTo(k)' \subseteq SentTo(k)
  <2>1. CASE queue[k] # << >> /\ queue' = [queue EXCEPT ![k] = Tail(queue[k])]
    <3>1. /\ wire[k] \in Seq(Message) /\ queue[k] \in Seq(Message)
          /\ queue'[k] = Tail(queue[k]) /\ queue'[k] \in Seq(Message)
      BY <1>1, <2>1
    <3>2. SentTo(k)' = Elems(wire'[k] \o queue'[k]) /\ wire'[k] = wire[k]
      BY <1>1 DEF SentTo, Sent, Elems
    <3>3. SentTo(k)' = Elems(wire[k]) \cup Elems(queue'[k])
      <4>1. Elems(wire[k] \o queue'[k]) = Elems(wire[k]) \cup Elems(queue'[k])
        BY <3>1, ElemsConcat, ZenonT(40)
      <4>. QED
        BY <3>2, <4>1
    <3>4. Elems(queue[k]) = {Head(queue[k])} \cup Elems(queue'[k])
      BY <2>1, <3>1, OfSet, ElemsTail
    <3>. QED
      BY <3>1, <3>3, <3>4, SentIs
  <2>2. CASE UNCHANGED queue
    BY <1>1, <2>2 DEF SentTo, Sent
  <2>. QED
    BY <1>1, <2>1, <2>2
<1>5. AckOnceOK(k)' /\ CoveredOK(k)'
  <2>1. AckOnceOK(k)
    BY DEF RevInv, RevOK
  <2>2. AckOnceOK(k)'
    BY <1>1, <1>4, <2>1 DEF AckOnceOK, HasAck
  <2>3. CoveredOK(k)'
    BY <1>3 DEF CoveredOK
  <2>. QED
    BY <2>2, <2>3
<1>. QED
  BY <1>2, <1>5 DEF RevOK

\* The state machine hands a revision over to its callback as it makes it.
LEMMA ApplyRevOK ==
    ASSUME RevInv, TypeOK', NEW c \in Client, NEW k \in Conn \cup {None},
           NEW outcome \in {"applied", "duplicate", "failed"}, ApplyEntry(c, k, outcome)
    PROVE  RevOK'
<1>1. TypeOK /\ pc \in [Conn -> Phase] /\ head \in Nat /\ None \notin Conn
  BY HubFacts, HubAssumption DEF RevInv, TypeOK
<1>2. /\ UNCHANGED <<ack, queue, wire, writer, dropped, clients, sending>>
      /\ pending \subseteq pending'
  BY DEF ApplyEntry
<1>3. \A r \in head + 1..head' : \E res \in pending' : res.rev = r /\ ~res.dup
  <2>1. CASE outcome = "applied"
    <3>1. /\ head' = head + 1
          /\ [id |-> decided', rev |-> head', client |-> c, dup |-> FALSE] \in pending'
      BY <2>1 DEF ApplyEntry
    <3>2. \A r \in head + 1..head' : r = head'
      BY <1>1, <3>1
    <3>. QED
      BY <3>1, <3>2
  <2>2. CASE outcome # "applied"
    BY <1>1, <2>2 DEF ApplyEntry
  <2>. QED
    BY <2>1, <2>2
<1>4. ASSUME NEW j \in Conn PROVE AckOnceOK(j)' /\ CoveredOK(j)'
  <2>1. pc'[j] = pc[j] \/ (pc[j] = "proposed" /\ pc'[j] = "ready")
    BY <1>1 DEF ApplyEntry
  <2>2. SentTo(j)' = SentTo(j)
    BY <1>2 DEF SentTo, Sent
  <2>3. \A m \in SentTo(j)' : m.type = "CONNECT_ACK" => m \in SentTo(j)
    BY <2>2
  <2>4. pc'[j] \in Before => pc[j] \in Before
    BY <2>1 DEF Before, Connecting
  <2>5. Served(j)' => Served(j) \/ (pc[j] \in Before /\ pc'[j] # "sendAck")
    BY <1>2, <2>1 DEF Served
  <2>6. pc'[j] = "sendAck" => ack'[j].rev = ack[j].rev /\ pc[j] = "sendAck"
    BY <1>2, <2>1
  <2>7. Served(j)' => \A r : Covered(j, r) => Covered(j, r)'
    BY <1>2, <2>2 DEF Covered, Told, Carries
  <2>8. Served(j)' => \A r \in head + 1..head' : Covered(j, r)'
    BY <1>3 DEF Covered
  <2>. QED
    BY <2>3, <2>4, <2>5, <2>6, <2>7, <2>8, KeepOK
<1>. QED
  BY <1>4 DEF RevOK

\* A callback that starts has every registered connection to tell.
LEMMA StartRevOK ==
    ASSUME RevInv, TypeOK', NEW res, StartCallback(res) PROVE RevOK'
<1>1. TypeOK /\ head \in Nat /\ ClientOf \in [Conn -> Client] /\ None \notin Conn
  BY HubFacts, HubAssumption DEF RevInv, TypeOK
<1>2. /\ UNCHANGED <<pc, ack, queue, wire, writer, dropped, clients, head>>
      /\ pending' = pending \ {res} /\ sending \subseteq sending'
  BY DEF StartCallback, connVars
<1>3. ASSUME NEW j \in Conn PROVE AckOnceOK(j)' /\ CoveredOK(j)'
  <2>1. SentTo(j)' = SentTo(j)
    BY <1>2 DEF SentTo, Sent
  <2>2. Served(j)' => Served(j)
    BY <1>2 DEF Served
  <2>3. ASSUME Served(j)', NEW r, Covered(j, r) PROVE Covered(j, r)'
    <3>1. CASE Told(j, r) \/ \E s \in sending : s.res.rev = r /\ j \in s.todo
      BY <1>2, <2>1, <3>1 DEF Covered, Told, Carries
    <3>2. CASE \E x \in pending : x.rev = r /\ ~x.dup
      <4>1. PICK x \in pending : x.rev = r /\ ~x.dup
        BY <3>2
      <4>2. CASE x # res
        BY <1>2, <4>1, <4>2 DEF Covered
      <4>3. CASE x = res
        <5>1. clients[ClientOf[j]] = j /\ ClientOf[j] \in Client /\ j # None
          BY <1>1, <1>2, <2>3 DEF Served
        <5>2. j \in Recipients(res)
          BY <4>1, <4>3, <5>1 DEF Recipients
        <5>3. [res |-> res, todo |-> Recipients(res)] \in sending'
          BY <5>2 DEF StartCallback
        <5>. QED
          BY <4>1, <4>3, <5>2, <5>3 DEF Covered
      <4>. QED
        BY <4>2, <4>3
    <3>. QED
      BY <2>3, <3>1, <3>2 DEF Covered
  <2>4. \A m \in SentTo(j)' : m.type = "CONNECT_ACK" => m \in SentTo(j)
    BY <2>1
  <2>5. pc'[j] \in Before => pc[j] \in Before
    BY <1>2
  <2>6. pc'[j] = "sendAck" => ack'[j].rev = ack[j].rev /\ pc[j] = "sendAck"
    BY <1>2
  <2>7. Served(j)' => Served(j) \/ (pc[j] \in Before /\ pc'[j] # "sendAck")
    BY <2>2
  <2>8. Served(j)' => \A r : Covered(j, r) => Covered(j, r)'
    BY <2>3
  <2>9. Served(j)' => \A r \in head + 1..head' : Covered(j, r)'
    BY <1>1, <1>2
  <2>. QED
    BY <2>4, <2>5, <2>6, <2>7, <2>8, <2>9, KeepOK
<1>. QED
  BY <1>3 DEF RevOK

\* Telling one connection leaves the others to be told.
LEMMA DeliverRevOK ==
    ASSUME RevInv, TypeOK', NEW s \in sending, NEW k \in Conn, Deliver(s, k) PROVE RevOK'
<1> DEFINE m == IF k = clients[s.res.client] THEN Ack(s.res.rev) ELSE Broadcast(s.res.rev)
           rest == s.todo \ {k}
<1>1. /\ TypeOK /\ head \in Nat /\ s \in [res : Result, todo : SUBSET Conn]
      /\ s.res.rev \in 0..MaxEntries
  BY HubFacts DEF RevInv, TypeOK, Result
<1>2. /\ m \in Message /\ m.type \in {"ACK", "BROADCAST"} /\ m.rev = s.res.rev
  BY <1>1, Messages DEF Ack, Broadcast
<1>3. /\ Send(k, m)
      /\ UNCHANGED <<pc, ack, wire, writer, clients, head, pending>>
      /\ sending' = (sending \ {s}) \cup
             (IF rest = {} THEN {} ELSE {[s EXCEPT !.todo = rest]})
  BY DEF Deliver
<1> HIDE DEF m
<1>4. /\ \A j \in Conn \ {k} : SentTo(j)' = SentTo(j) /\ dropped'[j] = dropped[j]
      /\ dropped[k] => dropped'[k]
      /\ ~dropped'[k] => SentTo(k)' = SentTo(k) \cup {m}
      /\ SentTo(k)' \subseteq SentTo(k) \cup {m}
  BY <1>1, <1>2, <1>3, SendSent
<1>5. [s EXCEPT !.todo = rest].res = s.res /\ [s EXCEPT !.todo = rest].todo = rest
  BY <1>1
<1>6. ASSUME NEW j \in Conn PROVE AckOnceOK(j)' /\ CoveredOK(j)'
  <2>1. Served(j)' => Served(j)
    BY <1>3, <1>4 DEF Served
  <2>2. Served(j)' => SentTo(j) \subseteq SentTo(j)'
    BY <1>4 DEF Served
  <2>3. ASSUME Served(j)', NEW r, Covered(j, r) PROVE Covered(j, r)'
    <3>1. CASE Told(j, r) \/ \E res \in pending : res.rev = r /\ ~res.dup
      BY <1>3, <2>2, <2>3, <3>1 DEF Covered, Told, Carries
    <3>2. CASE \E t \in sending : t.res.rev = r /\ j \in t.todo
      <4>1. PICK t \in sending : t.res.rev = r /\ j \in t.todo
        BY <3>2
      <4>2. CASE t # s
        BY <1>3, <4>1, <4>2 DEF Covered
      <4>3. CASE t = s /\ j # k
        <5>1. j \in rest /\ [s EXCEPT !.todo = rest] \in sending'
          BY <1>3, <4>1, <4>3
        <5>. QED
          BY <1>5, <4>1, <4>3, <5>1 DEF Covered
      <4>4. CASE t = s /\ j = k
        <5>1. m \in SentTo(k)' /\ m.rev = r
          BY <1>2, <1>4, <2>3, <4>1, <4>4 DEF Served
        <5>. QED
          BY <1>2, <4>4, <5>1 DEF Covered, Told, Carries
      <4>. QED
        BY <4>2, <4>3, <4>4
    <3>. QED
      BY <2>3, <3>1, <3>2 DEF Covered
  <2>4. \A x \in SentTo(j)' : x.type = "CONNECT_ACK" => x \in SentTo(j)
    BY <1>2, <1>4
  <2>5. pc'[j] \in Before => pc[j] \in Before
    BY <1>3
  <2>6. pc'[j] = "sendAck" => ack'[j].rev = ack[j].rev /\ pc[j] = "sendAck"
    BY <1>3
  <2>7. Served(j)' => Served(j) \/ (pc[j] \in Before /\ pc'[j] # "sendAck")
    BY <2>1
  <2>8. Served(j)' => \A r : Covered(j, r) => Covered(j, r)'
    BY <2>3
  <2>9. Served(j)' => \A r \in head + 1..head' : Covered(j, r)'
    BY <1>1, <1>3
  <2>. QED
    BY <2>4, <2>5, <2>6, <2>7, <2>8, <2>9, KeepOK
<1>. QED
  BY <1>6 DEF RevOK

\* The revision invariant holds at the start.
LEMMA InitRevOK == ASSUME Init, TypeOK PROVE RevOK
<1>1. ASSUME NEW k \in Conn PROVE AckOnceOK(k) /\ CoveredOK(k)
  <2>1. wire[k] = << >> /\ queue[k] = << >> /\ pc[k] = "open"
    BY DEF Init
  <2>2. SentTo(k) = {}
    <3>1. << >> \o << >> = << >>
      OBVIOUS
    <3>2. DOMAIN << >> = {}
      OBVIOUS
    <3>. QED
      BY <2>1, <3>1, <3>2 DEF SentTo, Sent
  <2>. QED
    BY <2>1, <2>2 DEF AckOnceOK, CoveredOK, HasAck, Served
<1>. QED
  BY <1>1 DEF RevOK

\* Every step keeps the revision invariant.
LEMMA NextRevOK == ASSUME RevInv, TypeInv, TypeOK', [Next]_vars PROVE RevOK'
<1>1. CASE \E k \in Conn : Handlers(k)
  BY <1>1, EdgesOK, AnswersOK, ReadRevOK, SendConnectAckOK DEF Handlers
<1>2. CASE \E k \in Conn : ReadFails(k) \/ ProposalFails(k)
  BY <1>2, EdgesOK, AnswersOK
<1>3. CASE \E k \in Conn, valid \in BOOLEAN : Submit(k, valid)
  BY <1>3, AnswersOK
<1>4. CASE \E k \in Conn : Write(k) \/ WriteFails(k)
  BY <1>4, WriteOK, WriteFailsOK
<1>5. CASE \E c \in Client, k \in Conn \cup {None},
             outcome \in {"applied", "duplicate", "failed"} : ApplyEntry(c, k, outcome)
  BY <1>5, ApplyRevOK
<1>6. CASE Callbacks
  <2>1. \A s \in sending : s.todo \subseteq Conn
    BY DEF TypeInv, TypeOK
  <2>. QED
    BY <1>6, <2>1, StartRevOK, DeliverRevOK DEF Callbacks
<1>7. CASE UNCHANGED <<pc, ack, queue, wire, writer, dropped, clients, head, pending,
                       sending>>
  <2>1. \A j \in Conn : SentTo(j)' = SentTo(j)
    BY <1>7 DEF SentTo, Sent
  <2>2. ASSUME NEW j \in Conn PROVE AckOnceOK(j)' /\ CoveredOK(j)'
    BY <1>7, <2>1, OthersOK
  <2>. QED
    BY <2>2 DEF RevOK
<1>8. CASE \E who \in Leaders : NewLeader(who)
  BY <1>7, <1>8 DEF NewLeader, connVars, fsmVars
<1>9. CASE UNCHANGED vars
  BY <1>7, <1>9 DEF vars
<1>. QED
  BY <1>1, <1>2, <1>3, <1>4, <1>5, <1>6, <1>8, <1>9 DEF Next

\* No revision falls between the CONNECT_ACK of a connection and the messages of
\* the callbacks: each is in one of the two, for a connection that is registered,
\* written, and lost nothing to a full channel (websocket.go:293-295, 404-433).
THEOREM EveryRevisionReaches == Spec => []EveryRevisionSent
<1>1. Spec => []TypeInv
  BY InitTypes, NextTypes, PTL DEF Spec
<1>2. TypeInv => TypeOK
  BY DEF TypeInv
<1>3. Init /\ TypeInv => RevInv
  BY InitRevOK DEF RevInv, TypeInv
<1>4. RevInv /\ TypeInv /\ TypeInv' /\ [Next]_vars => RevInv'
  BY NextRevOK DEF RevInv, TypeInv
<1>5. RevInv => EveryRevisionSent
  BY DEF RevInv, RevOK, CoveredOK, Served, Covered, Told, EveryRevisionSent
<1>. QED
  BY <1>1, <1>3, <1>4, <1>5, PTL DEF Spec

===============================================================================
