-------------------------- MODULE EditorSystemProofs --------------------------
(***************************************************************************)
(* Proofs about the editor as its users see it, for any users, servers and *)
(* bounds. The first part, for the runs whose events come in a favourable  *)
(* order (Races has at most "behind" and "null"): a page's base text is a  *)
(* revision, what it has pending and what it submits fit, and a quiet page *)
(* shows the head. The second, where also no page misses two revisions and *)
(* no revision comes without operations (Races = {}): local edits fit, and *)
(* what a user types stays on his screen and, of two users, is there once. *)
(* The third, for runs with any races: a new submission is never taken for *)
(* an old one, and none is applied twice.                                  *)
(***************************************************************************)
EXTENDS EditorSystem, DocumentStateMachineProofs, FiniteSetTheorems
LOCAL INSTANCE SequencesExt

-------------------------------------------------------------------------------
(* The inductive invariant of the orderly runs.                            *)

\* Connections end when nothing is outstanding, and the server notices; leaders
\* change while no page is connected; messages come in their order; no submission
\* is repeated without need.  A page may miss any number of revisions, and users
\* may erase all of the text at once.
Orderly == Races \subseteq {"behind", "null"}

\* No character takes two bytes.
OneByte == Wide \cap Char = {}

\* Changesets that insert only what users type.
CharChangeset == {cs \in Changeset : cs.ops \in Seq(OpsOver(Char))}

\* The result of Apply for revision r, which was the r-th entry.
Result(r) == [client |-> fsm.revisionLog[r].source, rev |-> r, outcome |-> "applied"]

\* q is what belongs to the revisions after k up to m, which f gives for each.
IsRun(q, f, k, m) ==
    /\ IsSeq(q) /\ k + Len(q) = m
    /\ \A i \in 1..Len(q) : q[i] = f[k + i]

\* Every entry that was committed has made a revision.
DocumentOK ==
    /\ Sound(fsm)
    /\ nulls \subseteq 1..fsm.headRev /\ ("null" \notin Races => nulls = {})
    /\ \A r \in nulls : fsm.revisionLog[r].changeset.ops = <<>>
    /\ IsSeq(fsm.revisionLog) /\ Len(fsm.revisionLog) = fsm.headRev
    /\ \A r \in 1..fsm.headRev : /\ fsm.revisionLog[r].changeset \in CharChangeset
                                 /\ fsm.revisionLog[r].source \in Client
    /\ IsRun(results, [r \in 1..fsm.headRev |-> Result(r)], 0, fsm.headRev)
    /\ fsm.clientLastSubmission \in [Client -> Int]

\* The revisions whose callbacks have run at node n.
Called(n) == applied[n] - Len(pending[n])

ServersOK ==
    /\ applied \in [Node -> 0..fsm.headRev]
    /\ leader \in Node \cup {None}
    /\ \A n \in Node : /\ Called(n) \in Nat
                       /\ IsRun(pending[n], results, Called(n), applied[n])
    /\ DOMAIN pending = Node
    /\ \A e \in proposed : e.client \in Client
    /\ typed \in [Client -> 0..MaxTyped]
    /\ DOMAIN page = Client /\ DOMAIN up = Client
    /\ DOMAIN down = Client /\ DOMAIN registered = Client

-------------------------------------------------------------------------------
(* A page c, with the record s, the messages u and d on their way from and to  *)
(* it, and its place g in the registry.                                    *)

PageType ==
    [A : Changeset \cup {Null}, X : CharChangeset \cup {Null}, Y : CharChangeset \cup {Null},
     serverRev : Nat, nextSubmissionId : Nat, waitingForAck : BOOLEAN,
     baseText : Seq(Char), editor : Seq(Char), active : BOOLEAN, server : Node,
     socket : {"none", "redirected", "opening", "open"}, ws : BOOLEAN, closing : Nat]

\* A page that had a CONNECT_ACK stands at a revision; only a page that is
\* connected has anything outstanding.
PageOK(s) ==
    /\ s \in PageType
    /\ IF s.A = Null THEN s.serverRev = 0 /\ s.X = Null
       ELSE /\ s.serverRev <= fsm.headRev
            /\ s.baseText = TextAt(s.serverRev)
            /\ s.A = TextToChangeset(s.baseText)
            /\ Suits(s.baseText, s.X) /\ s.X # Null /\ s.Y # Null
            /\ ~s.waitingForAck => isIdentity(s.X)
    /\ ~s.active => ~s.waitingForAck /\ s.editor = s.baseText
    /\ s.socket = "none" => s.closing = 0

\* What c is told of revision r.
News(c, r) == IF fsm.revisionLog[r].source = c THEN AckMsg(r) ELSE BroadcastMsg(r)
AllNews(c) == [r \in 1..fsm.headRev |-> News(c, r)]

NoneOwn(c, k) == \A r \in k + 1..fsm.headRev : fsm.revisionLog[r].source # c

\* The page is not behind revision r, or by one; or it takes the text of r over.
Near(s, r) == "behind" \in Races \/ s.serverRev = 0 \/ r <= s.serverRev + 1

\* The socket is not open.
Away(s, u, d, g) ==
    /\ s.socket # "open" /\ ~s.active
    /\ u = <<>> /\ d = <<>> /\ g = "no"
    /\ s.socket = "opening" => s.ws /\ s.closing = 0

\* A socket is open that is the only one.
OneSocket(s) == s.socket = "open" /\ s.ws /\ s.closing = 0

\* The CONNECT is not answered.
Asking(s, u, d, g) ==
    /\ OneSocket(s) /\ ~s.active
    /\ u = <<ConnectMsg(s.serverRev)>> /\ d = <<>> /\ g \in {"no", "connecting"}
    /\ g = "connecting" =>
          /\ pending[s.server] = <<>>
          /\ leader \in {s.server, None} =>
                applied[s.server] = fsm.headRev /\ Near(s, fsm.headRev)

\* It was answered by a REDIRECT.
SentAway(s, u, d, g) ==
    /\ OneSocket(s) /\ ~s.active
    /\ u = <<>> /\ g = "yes"
    /\ IsSeq(d) /\ d # <<>> /\ Head(d).type = "REDIRECT" /\ Head(d).to \in Node

\* The page gets its messages from the leader.
AtLeader(s, g) ==
    /\ OneSocket(s) /\ g = "yes"
    /\ leader = s.server /\ applied[s.server] = fsm.headRev

\* It was answered by a CONNECT_ACK of revision r.
Answered(c, s, u, d, g) ==
    /\ AtLeader(s, g) /\ ~s.active
    /\ u = <<>>
    /\ IsSeq(d) /\ d # <<>>
    /\ \E r \in s.serverRev..fsm.headRev :
          /\ Head(d) = ConnectAckMsg(s.serverRev, r)
          /\ IsRun(Tail(d), AllNews(c), r, Called(s.server))
          /\ NoneOwn(c, r) /\ Near(s, r)

\* The revisions after k up to p come from others, and without operations.
Passed(c, k, p) == \A r \in k + 1..p : r \in nulls /\ fsm.revisionLog[r].source # c

\* What the page was told of, it knows up to revision p: some of the last revisions
\* may have passed it by.
Told(c, s, d, p) ==
    /\ p \in s.serverRev..fsm.headRev /\ Passed(c, s.serverRev, p)
    /\ IsRun(d, AllNews(c), p, Called(s.server))

\* The page has handled it.
Working(c, s, u, d, g) ==
    /\ AtLeader(s, g) /\ s.active /\ s.A # Null
    /\ \E p \in Nat : Told(c, s, d, p)
    /\ u # <<>> => s.waitingForAck

ConnectionOK(c, s, u, d, g) ==
    \/ Away(s, u, d, g)
    \/ Asking(s, u, d, g)
    \/ SentAway(s, u, d, g)
    \/ Answered(c, s, u, d, g)
    \/ Working(c, s, u, d, g)

\* The changeset cs of revision b, caught up to revision r of the servers' document.
CaughtUp(cs, b, r) == CaughtUpBy(fsm, cs, b, r)

\* A submission is X as it was at revision b.
IsSubmission(s, sub, b, cs) ==
    /\ sub = s.nextSubmissionId
    /\ b \in 0..s.serverRev
    /\ cs \in CharChangeset /\ Suits(TextAt(b), cs)
    /\ CaughtUp(cs, b, s.serverRev) = s.X

Proposals(c) == {e \in proposed : e.client = c}

\* Where the submission in X is: with the page or lost, on its way, proposed (the
\* page's proposals are p), or committed.
Unsent(c, s, u, p) ==
    u = <<>> /\ p = {} /\ NoneOwn(c, s.serverRev)
OnItsWay(c, s, u, p) ==
    /\ p = {} /\ NoneOwn(c, s.serverRev)
    /\ Len(u) = 1
    /\ \E m \in {u[1].submission} :
          /\ u = <<[type |-> "SUBMIT", submission |-> m]>>
          /\ IsSubmission(s, m.sub, m.base, m.changeset)
Proposed(c, s, u, p) ==
    /\ u = <<>> /\ NoneOwn(c, s.serverRev)
    /\ \E e \in p : p = {e} /\ IsSubmission(s, e.sub, e.base, e.changeset)
Committed(c, s, u, p) ==
    /\ u = <<>> /\ p = {}
    /\ \E r \in s.serverRev + 1..fsm.headRev :
          /\ fsm.revisionLog[r].source = c
          /\ \A q \in s.serverRev + 1..fsm.headRev : fsm.revisionLog[q].source = c => q = r
          /\ fsm.revisionLog[r].changeset = CaughtUp(s.X, s.serverRev, r - 1)

Waiting(c, s, u, p) ==
    \/ /\ fsm.clientLastSubmission[c] < s.nextSubmissionId
       /\ Unsent(c, s, u, p) \/ OnItsWay(c, s, u, p) \/ Proposed(c, s, u, p)
    \/ Committed(c, s, u, p)

SubmissionOK(c, s, u, p) ==
    /\ fsm.clientLastSubmission[c] <= s.nextSubmissionId
    /\ IF s.waitingForAck THEN Waiting(c, s, u, p)
       ELSE p = {} /\ (s.A # Null => NoneOwn(c, s.serverRev))

ClientOK(c, s, u, d, g, p) ==
    /\ PageOK(s) /\ ConnectionOK(c, s, u, d, g) /\ SubmissionOK(c, s, u, p)

ThisClientOK(c) == ClientOK(c, page[c], up[c], down[c], registered[c], Proposals(c))

IInv ==
    /\ DocumentOK
    /\ ServersOK
    /\ \A c \in Client : ThisClientOK(c)

-------------------------------------------------------------------------------
(* Changesets of what users type.                                          *)

\* What users type are characters, and makes texts and operations.
LEMMA CharIs == Char \subseteq Nat /\ Seq(Char) \subseteq Text /\ OpsOver(Char) \subseteq Op
<1>1. Char \subseteq Nat
  BY SystemAssumption DEF Char
<1>. QED
  BY <1>1, SeqMonotonic DEF Text, OpsOver

\* Rebasing, also by what does not fit, makes no other characters.
LEMMA FollowChar ==
    ASSUME NEW A \in Changeset, NEW B \in Changeset
    PROVE  /\ Follow(A, B) \in Changeset
           /\ B \in CharChangeset => Follow(A, B) \in CharChangeset
<1> DEFINE ops == FollowLoop[Pair(A.ops, B.ops, <<>>)]
<1>1. A.ops \in Seq(Op) /\ B.ops \in Seq(Op) /\ A.new_len \in Nat /\ <<>> \in Seq(Op)
  BY EmptySeq DEF Changeset
<1>2. Pair(A.ops, B.ops, <<>>) \in Cursors
  BY <1>1 DEF Cursors, Pair
<1>3. ops \in Seq(Op) /\ Produced(ops) \in Nat
  BY <1>2, FollowLoopIs, ProducedIs
<1>4. Follow(A, B) = [old_len |-> A.new_len, new_len |-> Produced(ops), ops |-> ops]
  BY DEF Follow, Pair
<1>5. ASSUME B \in CharChangeset PROVE ops \in Seq(OpsOver(Char))
  <2>1. Closed(OpsOver(Char)) /\ B.ops \in Seq(OpsOver(Char))
    BY <1>5, CharIs, OverClosed DEF CharChangeset
  <2>. QED
    BY <1>1, <2>1, FollowWithin
<1> HIDE DEF ops
<1>. QED
  BY <1>1, <1>3, <1>4, <1>5 DEF Changeset, CharChangeset

\* A text made by applyChangeset, whether the changeset fits or not.
LEMMA ApplyChar ==
    ASSUME NEW text \in Seq(Char), NEW c \in CharChangeset
    PROVE  applyChangeset(text, c) \in Seq(Char)
BY CharIs, ClientApplyOver DEF CharChangeset

\* The empty changeset.
LEMMA IdentityChar ==
    ASSUME NEW text \in Seq(Char)
    PROVE  /\ Identity(Len(text)) \in CharChangeset
           /\ Suits(text, Identity(Len(text)))
           /\ isIdentity(Identity(Len(text)))
<1>1. text \in Text /\ Len(text) \in Nat
  BY CharIs, LenProperties
<1>2. Suits(text, Identity(Len(text)))
  BY <1>1, IdentitySuits
<1>3. Identity(Len(text)).ops \in Seq(OpsOver(Char))
  <2>1. Whole(Len(text)) \in Seq(OpsOver(Char))
    BY <1>1, WholeSuits
  <2>2. Identity(Len(text)).ops = Whole(Len(text))
    BY <1>1 DEF Identity, Whole
  <2>. QED
    BY <2>1, <2>2
<1>4. isIdentity(Identity(Len(text)))
  BY <1>1 DEF isIdentity, Identity, Retain
<1>. QED
  BY <1>2, <1>3, <1>4 DEF CharChangeset, Suits

\* JSON strings of one-byte characters reach the server as they are.
LEMMA BytesAre ==
    ASSUME OneByte, NEW chars \in Seq(Char)
    PROVE  Bytes(chars) = chars
<1> DEFINE step == [x \in Nat \X Seq(Nat) |->
                      (IF x[1] \in Wide THEN <<x[1], x[1]>> ELSE <<x[1]>>) \o x[2]]
           next(f, q) == IF q = <<>> THEN <<>>
                         ELSE (IF Head(q) \in Wide THEN <<Head(q), Head(q)>> ELSE <<Head(q)>>) \o f[Tail(q)]
           bytes == CHOOSE f : f = [q \in Seq(Nat) |-> next(f, q)]
<1>1. step \in [Nat \X Seq(Nat) -> Seq(Nat)]
  <2>1. ASSUME NEW k \in Nat, NEW q \in Seq(Nat)
        PROVE  (IF k \in Wide THEN <<k, k>> ELSE <<k>>) \o q \in Seq(Nat)
    <3>1. <<k, k>> \in Seq(Nat) /\ <<k>> \in Seq(Nat)
      OBVIOUS
    <3>. QED
      BY <3>1, ConcatProperties
  <2>. QED
    BY <2>1
<1>2. PICK f : IsFold(f, Nat, Seq(Nat), <<>>, step)
  <2> HIDE DEF step
  <2>1. <<>> \in Seq(Nat)
    BY EmptySeq
  <2>. QED
    BY <1>1, <2>1, ListRecursion
<1>3. f \in [Seq(Nat) -> Seq(Nat)] /\ \A q \in Seq(Nat) : f[q] = next(f, q)
  <2>1. f \in [Seq(Nat) -> Seq(Nat)]
    BY <1>2 DEF IsFold
  <2>2. ASSUME NEW q \in Seq(Nat) PROVE f[q] = next(f, q)
    <3>1. CASE q = <<>>
      BY <1>2, <3>1 DEF IsFold
    <3>2. CASE q # <<>>
      <4>1. Head(q) \in Nat /\ Tail(q) \in Seq(Nat)
        BY <3>2, HeadTailProperties
      <4>2. f[Tail(q)] \in Seq(Nat)
        BY <2>1, <4>1
      <4>3. f[q] = step[<<Head(q), f[Tail(q)]>>]
        BY <1>2, <3>2 DEF IsFold
      <4>. QED
        BY <3>2, <4>1, <4>2, <4>3
    <3>. QED
      BY <3>1, <3>2
  <2>. QED
    BY <2>1, <2>2
<1>4. f = [q \in Seq(Nat) |-> next(f, q)]
  <2> HIDE DEF next
  <2>. QED
    BY <1>3
<1>5. bytes = [q \in Seq(Nat) |-> next(bytes, q)]
  <2> HIDE DEF next
  <2>. QED
    BY <1>4
<1>6. \A q : Bytes(q) = bytes[q]
  BY DEF Bytes
<1>7. \A q \in Seq(Nat) : bytes[q] = next(bytes, q)
  <2> HIDE DEF next
  <2>. QED
    BY <1>5
<1> HIDE DEF bytes
<1> DEFINE T == {q \in Seq(Char) : bytes[q] = q}
<1>8. Seq(Char) \subseteq Seq(Nat) /\ \A a \in Char : a \notin Wide
  BY CharIs DEF OneByte, Text
<1>9. \A q \in Seq(Char) : q \in T
  <2>1. <<>> \in T
    <3>1. <<>> \in Seq(Char)
      BY EmptySeq
    <3>. QED
      BY <1>7, <1>8, <3>1
  <2>2. ASSUME NEW q \in Seq(Char), q # <<>>, Tail(q) \in T PROVE q \in T
    <3>1. Head(q) \in Char /\ q = <<Head(q)>> \o Tail(q)
      BY <2>2, HeadAndTail
    <3>2. bytes[q] = <<Head(q)>> \o bytes[Tail(q)]
      BY <1>7, <1>8, <2>2, <3>1
    <3>. QED
      BY <2>2, <3>1, <3>2
  <2> HIDE DEF T
  <2>. QED
    BY <2>1, <2>2, ListInduction
<1>. QED
  BY <1>6, <1>9

\* A changeset of them is read by the server as it was sent.
LEMMA DecodedIs ==
    ASSUME OneByte, NEW cs \in CharChangeset
    PROVE  Decoded(cs) = cs
<1>1. cs \in Changeset /\ cs.ops \in Seq(OpsOver(Char))
  BY DEF CharChangeset
<1>2. ASSUME NEW i \in DOMAIN cs.ops
      PROVE  [cs.ops[i] EXCEPT !.chars = Bytes(@)] = cs.ops[i]
  <2>1. cs.ops[i] \in OpsOver(Char)
    BY <1>1, ElementOfSeq
  <2>2. cs.ops[i] \in Op /\ Bytes(cs.ops[i].chars) = cs.ops[i].chars
    BY <2>1, BytesAre DEF OpsOver
  <2>. QED
    BY <2>2 DEF Op
<1>3. [i \in DOMAIN cs.ops |-> [cs.ops[i] EXCEPT !.chars = Bytes(@)]] = cs.ops
  <2>1. cs.ops = [i \in DOMAIN cs.ops |-> cs.ops[i]]
    BY <1>1
  <2>. QED
    BY <1>2, <2>1, Zenon
<1>4. Decoded(cs) = [cs EXCEPT !.ops = cs.ops]
  BY <1>3 DEF Decoded
<1>. QED
  BY <1>1, <1>4 DEF Changeset

-------------------------------------------------------------------------------
(* The handlers of a page.                                                 *)

\* The page stands at a revision with this text.
Stands(s, text) ==
    /\ s \in PageType
    /\ s.baseText = text /\ s.A = TextToChangeset(text)
    /\ Suits(text, s.X) /\ s.Y \in CharChangeset

\* What a handler leaves alone.
SameSocket(t, s) ==
    /\ t.server = s.server /\ t.socket = s.socket /\ t.ws = s.ws /\ t.closing = s.closing

\* A page has its A, or null.
LEMMA NullIs == Null \notin Changeset /\ \A text : TextToChangeset(text) # Null
BY DEF Null, Changeset, TextToChangeset

\* What is known of a page that stands at a text.
LEMMA StandsIs ==
    ASSUME NEW s, NEW text, Stands(s, text)
    PROVE  /\ text \in Seq(Char) /\ text \in Text /\ Len(text) \in Nat
           /\ s.X \in CharChangeset /\ s.X \in Changeset /\ s.Y \in Changeset
           /\ s.A \in Changeset /\ s.A # Null /\ s.X # Null /\ s.Y # Null
           /\ s.editor \in Seq(Char) /\ s.editor \in Text
           /\ ~Throws(text, s.X)
           /\ Suits(<<>>, s.A) /\ ApplyChangeset(<<>>, s.A) = text
<1>1. /\ text \in Seq(Char) /\ s.X \in Changeset /\ s.editor \in Seq(Char)
      /\ s.X \in CharChangeset \cup {Null}
  BY DEF Stands, PageType, Suits
<1>2. text \in Text /\ s.editor \in Text /\ Len(text) \in Nat
  BY <1>1, CharIs, LenProperties
<1>3. Suits(<<>>, s.A) /\ ApplyChangeset(<<>>, s.A) = text
  BY <1>2, TextSuits DEF Stands
<1>4. s.A \in Changeset
  BY <1>3 DEF Suits
<1>. QED
  BY <1>1, <1>2, <1>3, <1>4, NullIs DEF Stands, Suits, Throws, CharChangeset

\* Both implementations of ApplyChangeset, on a changeset that suits the text.
LEMMA ApplySame ==
    ASSUME NEW text, NEW c, Suits(text, c)
    PROVE  /\ applyChangeset(text, c) = ApplyChangeset(text, c)
           /\ text \in Seq(Char) /\ c \in CharChangeset => ApplyChangeset(text, c) \in Seq(Char)
<1>1. applyChangeset(text, c) = ApplyChangeset(text, c)
  BY ClientApplySame DEF Suits
<1>. QED
  BY <1>1, ApplyChar

\* submitTick's and handleBroadcast's Y.
LEMMA DiffChar ==
    ASSUME NEW old \in Seq(Char), NEW new \in Seq(Char)
    PROVE  /\ DiffToChangeset(old, new) \in CharChangeset
           /\ Suits(old, DiffToChangeset(old, new))
           /\ ApplyChangeset(old, DiffToChangeset(old, new)) = new
<1>1. old \in Text /\ new \in Text
  BY CharIs
<1>2. DiffToChangeset(old, new).ops \in Seq(OpsOver(Char))
  BY <1>1, DiffOver
<1>. QED
  BY <1>1, <1>2, DiffSuits DEF CharChangeset, Suits

\* A after X, or after another's B, is the insertion of the text after it.
LEMMA ComposeText ==
    ASSUME NEW text \in Seq(Char), NEW A, Suits(<<>>, A), ApplyChangeset(<<>>, A) = text,
           NEW B \in CharChangeset, Suits(text, B)
    PROVE  /\ ApplyChangeset(text, B) \in Seq(Char)
           /\ Compose(A, B) = TextToChangeset(ApplyChangeset(text, B))
           /\ Compose(A, B) \in Changeset
           /\ Compose(A, B).new_len = Len(ApplyChangeset(text, B))
           /\ applyChangeset(<<>>, Compose(A, B)) = ApplyChangeset(text, B)
<1> DEFINE C == Compose(A, B)
           new == ApplyChangeset(text, B)
<1>1. Suits(<<>>, C) /\ ApplyChangeset(<<>>, C) = new
  BY ComposeSuits
<1>2. new \in Seq(Char)
  BY ApplySame
<1> HIDE DEF C, new
<1>3. C = TextToChangeset(new)
  BY <1>1, OneInsert
<1>4. applyChangeset(<<>>, C) = new
  BY <1>1, ApplySame
<1>. QED
  BY <1>1, <1>2, <1>3, <1>4 DEF C, new, TextToChangeset, Suits

\* An acknowledgement makes X part of the text.
LEMMA AckStands ==
    ASSUME NEW s, NEW text, Stands(s, text), NEW r \in Nat
    PROVE  /\ Stands(handleAck(s, r), ApplyChangeset(text, s.X))
           /\ isIdentity(handleAck(s, r).X) /\ ~handleAck(s, r).waitingForAck
           /\ handleAck(s, r).serverRev = r
           /\ handleAck(s, r).nextSubmissionId = s.nextSubmissionId
           /\ handleAck(s, r).active = s.active
           /\ SameSocket(handleAck(s, r), s)
<1> DEFINE A == Compose(s.A, s.X)
           new == ApplyChangeset(text, s.X)
<1>1. /\ text \in Seq(Char) /\ s.X \in CharChangeset /\ s.A # Null /\ s \in PageType
      /\ Suits(<<>>, s.A) /\ ApplyChangeset(<<>>, s.A) = text /\ Suits(text, s.X)
      /\ s.Y \in CharChangeset
  BY StandsIs DEF Stands
<1>2. /\ new \in Seq(Char) /\ A = TextToChangeset(new) /\ A \in Changeset
      /\ A.new_len = Len(new) /\ applyChangeset(<<>>, A) = new
  BY <1>1, ComposeText
<1>3. /\ Identity(Len(new)) \in CharChangeset /\ Suits(new, Identity(Len(new)))
      /\ isIdentity(Identity(Len(new)))
  BY <1>2, IdentityChar
<1>4. handleAck(s, r) = [s EXCEPT !.A = A, !.X = Identity(Len(new)), !.serverRev = r,
                                  !.waitingForAck = FALSE, !.baseText = new]
  <2> HIDE DEF new
  <2>. QED
    BY <1>1, <1>2 DEF handleAck
<1> HIDE DEF A, new
<1>5. handleAck(s, r) \in PageType
  BY <1>1, <1>2, <1>3, <1>4 DEF PageType
<1>6. Stands(handleAck(s, r), new)
  BY <1>1, <1>2, <1>3, <1>4, <1>5 DEF Stands, PageType
<1>. QED
  BY <1>1, <1>3, <1>4, <1>6 DEF new, PageType, SameSocket

\* A broadcast rebases X.
LEMMA BroadcastStands ==
    ASSUME NEW s, NEW text, Stands(s, text), NEW B \in CharChangeset, Suits(text, B), NEW r \in Nat
    PROVE  /\ Stands(handleBroadcast(s, B, r), ApplyChangeset(text, B))
           /\ handleBroadcast(s, B, r).X = Follow(B, s.X)
           /\ handleBroadcast(s, B, r).waitingForAck = s.waitingForAck
           /\ handleBroadcast(s, B, r).serverRev = r
           /\ handleBroadcast(s, B, r).nextSubmissionId = s.nextSubmissionId
           /\ handleBroadcast(s, B, r).active = s.active
           /\ SameSocket(handleBroadcast(s, B, r), s)
<1> DEFINE A == Compose(s.A, B)
           Y == LocalEdits(s)
           over == Follow(s.X, B)
           new == ApplyChangeset(text, B)
           t == handleBroadcast(s, B, r)
<1>1. /\ text \in Seq(Char) /\ s.X \in CharChangeset /\ s.A # Null /\ s \in PageType
      /\ Suits(<<>>, s.A) /\ ApplyChangeset(<<>>, s.A) = text /\ Suits(text, s.X)
      /\ s.editor \in Seq(Char) /\ s.baseText = text /\ ~Throws(text, s.X)
      /\ s.X \in Changeset /\ B \in Changeset
  BY StandsIs DEF Stands, CharChangeset
<1>2. /\ new \in Seq(Char) /\ A = TextToChangeset(new) /\ A \in Changeset
      /\ applyChangeset(<<>>, A) = new
  BY <1>1, ComposeText
<1>3. Y \in CharChangeset /\ Y \in Changeset
  <2>1. applyChangeset(text, s.X) \in Seq(Char)
    BY <1>1, ApplyChar
  <2>. QED
    BY <1>1, <2>1, DiffChar DEF LocalEdits, CharChangeset
<1>4. over \in CharChangeset /\ over \in Changeset /\ Follow(B, s.X) \in CharChangeset
  BY <1>1, FollowChar DEF CharChangeset
<1>5. Follow(over, Y) \in CharChangeset /\ Follow(Y, over) \in CharChangeset
  <2> HIDE DEF Y, over
  <2>. QED
    BY <1>3, <1>4, FollowChar
<1>6. applyChangeset(s.editor, Follow(Y, over)) \in Seq(Char)
  BY <1>1, <1>5, ApplyChar
<1>7. Suits(new, Follow(B, s.X))
  BY <1>1, FollowSuits
<1>8. t = [s EXCEPT !.X = Follow(B, s.X), !.Y = Follow(over, Y), !.A = A, !.serverRev = r,
                    !.editor = applyChangeset(s.editor, Follow(Y, over)), !.baseText = new]
  <2>1. t = [BroadcastRebase(s, B, Y, over) EXCEPT
                !.A = A, !.serverRev = r,
                !.editor = applyChangeset(s.editor, Follow(Y, over)), !.baseText = new]
    <3>1. BroadcastRebase(s, B, Y, over).editor = s.editor
      BY <1>1 DEF BroadcastRebase, PageType
    <3> HIDE DEF new, A, Y, over
    <3>. QED
      BY <1>1, <1>2, <3>1, NullIs DEF handleBroadcast, A, Y, over
  <2> HIDE DEF new, A, Y, over, t
  <2>. QED
    BY <1>1, <2>1 DEF BroadcastRebase, PageType
<1> HIDE DEF A, new, Y, over, t
<1>9. t \in PageType
  BY <1>1, <1>2, <1>4, <1>5, <1>6, <1>8 DEF PageType
<1>10. Stands(t, new)
  BY <1>1, <1>2, <1>5, <1>7, <1>8, <1>9 DEF Stands, PageType
<1>. QED
  BY <1>1, <1>8, <1>10 DEF new, t, PageType, SameSocket

\* submitTick moves what is new to X.
LEMMA MoveStands ==
    ASSUME NEW s, NEW text, Stands(s, text), isIdentity(s.X)
    PROVE  /\ Stands(MoveToX(s), text)
           /\ MoveToX(s).waitingForAck
           /\ MoveToX(s).serverRev = s.serverRev
           /\ MoveToX(s).nextSubmissionId = s.nextSubmissionId + 1
           /\ MoveToX(s).active = s.active
           /\ MoveToX(s).editor = s.editor
           /\ SameSocket(MoveToX(s), s)
           /\ ApplyChangeset(text, MoveToX(s).X) = s.editor
<1>1. /\ text \in Seq(Char) /\ s.editor \in Seq(Char) /\ s \in PageType
      /\ s.baseText = text /\ s.A = TextToChangeset(text)
  BY StandsIs DEF Stands
<1>2. NewEdits(s) = DiffToChangeset(text, s.editor)
  BY <1>1 DEF NewEdits
<1>3. /\ NewEdits(s) \in CharChangeset /\ Suits(text, NewEdits(s))
      /\ ApplyChangeset(text, NewEdits(s)) = s.editor
  BY <1>1, <1>2, DiffChar
<1>4. Identity(Len(s.editor)) \in CharChangeset
  BY <1>1, IdentityChar
<1>5. MoveToX(s) = [s EXCEPT !.X = NewEdits(s), !.Y = Identity(Len(s.editor)),
                             !.waitingForAck = TRUE, !.nextSubmissionId = s.nextSubmissionId + 1]
  BY <1>1 DEF MoveToX
<1>6. s.nextSubmissionId + 1 \in Nat
  BY <1>1 DEF PageType
<1>7. MoveToX(s) \in PageType
  BY <1>1, <1>3, <1>4, <1>5, <1>6 DEF PageType
<1>. QED
  BY <1>1, <1>3, <1>4, <1>5, <1>7 DEF Stands, PageType, SameSocket

-------------------------------------------------------------------------------
(* The catch-up of a page.                                                 *)

\* The texts of the revisions are of what users type.
LEMMA RevisionIs ==
    ASSUME DocumentOK, NEW r \in Nat, r + 1 <= fsm.headRev
    PROVE  /\ fsm.revisionLog[r + 1].changeset \in CharChangeset
           /\ Suits(TextAt(r), fsm.revisionLog[r + 1].changeset)
           /\ TextAt(r + 1) = ApplyChangeset(TextAt(r), fsm.revisionLog[r + 1].changeset)
<1>1. fsm.headRev \in Nat /\ r + 1 \in 1..fsm.headRev /\ (r + 1) - 1 = r
  BY DEF DocumentOK, Sound
<1>2. Suits(ReplayTo(fsm, (r + 1) - 1), fsm.revisionLog[r + 1].changeset)
  BY <1>1 DEF DocumentOK, Sound
<1>. QED
  BY <1>1, <1>2, ReplayIs DEF DocumentOK, TextAt

\* The text of each revision is of what users type.
LEMMA TextChar ==
    ASSUME DocumentOK
    PROVE  \A r \in 0..fsm.headRev : TextAt(r) \in Seq(Char)
<1> DEFINE T == {r \in Nat : r <= fsm.headRev => TextAt(r) \in Seq(Char)}
<1>1. 0 \in T
  BY ReplayIs, EmptySeq DEF TextAt
<1>2. ASSUME NEW r \in T PROVE r + 1 \in T
  <2>1. SUFFICES ASSUME r + 1 <= fsm.headRev PROVE TextAt(r + 1) \in Seq(Char)
    OBVIOUS
  <2>2. r \in Nat /\ TextAt(r) \in Seq(Char)
    BY <2>1 DEF DocumentOK, Sound
  <2>. QED
    BY <2>1, <2>2, RevisionIs, ApplySame
<1> HIDE DEF T
<1>3. \A r \in Nat : r \in T
  <2>1. T \subseteq Nat
    BY DEF T
  <2>. QED
    BY <1>1, <1>2, <2>1, SetInduction
<1>. QED
  BY <1>3 DEF T, DocumentOK, Sound

\* "No change" changes nothing.
LEMMA NothingApplied ==
    ASSUME NEW text, NEW c, Suits(text, c), isIdentity(c)
    PROVE  ApplyChangeset(text, c) = text /\ applyChangeset(text, c) = text
<1>1. text \in Text /\ Len(text) \in Nat
  BY LenProperties DEF Suits, Fits, Text
<1>2. c = Identity(Len(text))
  BY IsTheIdentity
<1>3. c.ops = Whole(Len(text))
  BY <1>1, <1>2 DEF Identity, Whole
<1>4. Run(text, Whole(Len(text))) = text
  BY <1>1, WholeSuits
<1>. QED
  BY <1>3, <1>4, ApplyIsRun, ApplySame

\* A revision without operations leaves the empty text as it is.
LEMMA EmptyRevision ==
    ASSUME DocumentOK, NEW r \in Nat, r + 1 \in nulls
    PROVE  /\ r + 1 <= fsm.headRev
           /\ isIdentity(fsm.revisionLog[r + 1].changeset)
           /\ TextAt(r) = <<>> /\ TextAt(r + 1) = <<>>
<1> DEFINE C == fsm.revisionLog[r + 1].changeset
<1>1. r + 1 <= fsm.headRev /\ C.ops = <<>> /\ fsm.headRev \in Nat
  BY DEF DocumentOK, Sound
<1>2. /\ C \in CharChangeset /\ Suits(TextAt(r), C) /\ TextAt(r + 1) = ApplyChangeset(TextAt(r), C)
      /\ TextAt(r) \in Seq(Char)
  BY <1>1, RevisionIs, TextChar
<1> HIDE DEF C
<1>3. Consumed(<<>>) = 0 /\ Produced(<<>>) = 0
  BY ConsumedIs, ProducedIs, EmptySeq
<1>4. C.old_len = Len(TextAt(r)) /\ C.new_len = 0 /\ Len(TextAt(r)) = 0
  BY <1>1, <1>2, <1>3 DEF Suits, Fits
<1>5. TextAt(r) = <<>>
  BY <1>2, <1>4, EmptySeq
<1>6. isIdentity(C)
  BY <1>4 DEF isIdentity
<1>7. ApplyChangeset(TextAt(r), C) = TextAt(r)
  BY <1>2, <1>6, NothingApplied
<1>. QED
  BY <1>1, <1>2, <1>5, <1>6, <1>7 DEF C

\* Nothing is rebased over it.
LEMMA EmptyFollow ==
    ASSUME NEW N, NEW X, Suits(<<>>, N), isIdentity(N), Suits(<<>>, X)
    PROVE  Follow(N, X) = X
<1>1. <<>> \in Seq(Char)
  BY EmptySeq
<1>2. ApplyChangeset(<<>>, N) = <<>>
  BY <1>1, NothingApplied
<1> DEFINE Y == Follow(N, X)
           new == ApplyChangeset(<<>>, X)
<1>3. Suits(<<>>, Y) /\ Suits(new, Follow(X, N))
  BY <1>2, FollowSuits
<1>4. ApplyChangeset(new, Follow(X, N)) = ApplyChangeset(<<>>, Y)
  BY <1>2, Convergence
<1>5. isIdentity(Follow(X, N))
  BY FollowKeepsIdentity
<1> HIDE DEF Y
<1>6. ApplyChangeset(new, Follow(X, N)) = new
  <2> HIDE DEF new
  <2>. QED
    BY <1>3, <1>5, NothingApplied
<1>. QED
  BY <1>3, <1>4, <1>6, OneInsert DEF Y, new

\* The changesets that a CONNECT_ACK brings.
LEMMA RevisionsBetweenAre ==
    ASSUME DocumentOK, NEW m \in Nat, NEW n \in Nat, m <= n, n <= fsm.headRev
    PROVE  /\ Len(RevisionsBetween(m, n)) = n - m
           /\ \A i \in 1..n - m : RevisionsBetween(m, n)[i] = Sent(m + i)
<1> DEFINE q == RevisionsSince(fsm, m)
<1>1. fsm.headRev \in Nat
  BY DEF DocumentOK, Sound
<1> DEFINE S == {fsm.revisionLog[m + i].changeset : i \in 1..fsm.headRev - m}
<1>2. /\ fsm.headRev - m \in Nat
      /\ q = [i \in 1..fsm.headRev - m |-> fsm.revisionLog[m + i].changeset]
  BY <1>1 DEF RevisionsSince
<1>3. q \in [1..fsm.headRev - m -> S]
  BY <1>2
<1> HIDE DEF q, S
<1>9. q \in Seq(S)
  BY <1>2, <1>3, SeqDef
<1>4. q \in Seq(S) /\ Len(q) = fsm.headRev - m
  BY <1>2, <1>9, LenProperties
<1>5. n - m \in 0..Len(q) /\ n - m \in Nat
  BY <1>1, <1>2, <1>4
<1>6. Len(SubSeq(q, 1, n - m)) = n - m /\ \A i \in 1..n - m : SubSeq(q, 1, n - m)[i] = q[i]
  BY <1>4, <1>5
<1>7. \A i \in 1..n - m : i \in 1..fsm.headRev - m
  BY <1>1
<1>8. DOMAIN SubSeq(q, 1, n - m) = 1..n - m
  BY <1>4, <1>5
<1>10. RevisionsBetween(m, n) = [i \in 1..n - m |-> Sent(m + i)]
  BY <1>8 DEF RevisionsBetween, q
<1>11. Len([i \in 1..n - m |-> Sent(m + i)]) = n - m
  BY <1>5
<1>. QED
  BY <1>10, <1>11

CaughtStep(f, s, q, i) == IF i = 0 THEN s ELSE CatchUpOne(f[i - 1], q[i])

IsCaught(f, s, q, n) == f = [i \in 0..n |-> CaughtStep(f, s, q, i)]

\* The pages of a catch-up exist, ...
LEMMA CaughtExists ==
    ASSUME NEW s, NEW q
    PROVE  \A n \in Nat : \E f : IsCaught(f, s, q, n)
<1> DEFINE T == {n \in Nat : \E f : IsCaught(f, s, q, n)}
<1>1. 0 \in T
  <2> DEFINE f == [i \in 0..0 |-> s]
  <2>1. IsCaught(f, s, q, 0)
    BY DEF IsCaught, CaughtStep
  <2>. QED
    BY <2>1
<1>2. ASSUME NEW n \in T PROVE n + 1 \in T
  <2>1. PICK f : IsCaught(f, s, q, n)
    OBVIOUS
  <2> DEFINE g == [i \in 0..n + 1 |-> IF i = n + 1 THEN CaughtStep(f, s, q, i) ELSE f[i]]
  <2>2. n \in Nat /\ \A i \in 0..n : f[i] = CaughtStep(f, s, q, i)
    BY <2>1 DEF IsCaught
  <2>3. \A i \in 0..n : g[i] = f[i]
    BY <2>2
  <2>4. \A i \in 0..n + 1 : i # 0 => i - 1 \in 0..n /\ g[i - 1] = f[i - 1]
    BY <2>2, <2>3
  <2>5. \A i \in 0..n + 1 : CaughtStep(g, s, q, i) = CaughtStep(f, s, q, i)
    BY <2>4 DEF CaughtStep
  <2>6. \A i \in 0..n + 1 : g[i] = CaughtStep(f, s, q, i)
    BY <2>2, <2>3
  <2>7. IsCaught(g, s, q, n + 1)
    BY <2>5, <2>6 DEF IsCaught
  <2>. QED
    BY <2>2, <2>7
<1> HIDE DEF T
<1>3. \A n \in Nat : n \in T
  <2>1. T \subseteq Nat
    BY DEF T
  <2>. QED
    BY <1>1, <1>2, <2>1, SetInduction
<1>. QED
  BY <1>3 DEF T

\* ... and the last of them is what handleConnectAck goes on with.
LEMMA ReconnectedIs ==
    ASSUME NEW s, s.serverRev # 0, NEW headText, NEW headRev, NEW q, Len(q) \in Nat
    PROVE  \E f : /\ Reconnected(s, headText, headRev, q) = [f[Len(q)] EXCEPT !.serverRev = headRev]
                  /\ \A i \in 0..Len(q) : f[i] = CaughtStep(f, s, q, i)
<1> DEFINE caught == CHOOSE f : IsCaught(f, s, q, Len(q))
<1>1. IsCaught(caught, s, q, Len(q))
  BY CaughtExists
<1>2. Reconnected(s, headText, headRev, q) = [caught[Len(q)] EXCEPT !.serverRev = headRev]
  BY DEF Reconnected, IsCaught, CaughtStep
<1> HIDE DEF caught
<1>. QED
  BY <1>1, <1>2 DEF IsCaught

\* It is s, or s after the one revision it missed.
LEMMA ReconnectedShort ==
    ASSUME NEW s, s.serverRev # 0, NEW headText, NEW headRev, NEW q
    PROVE  LET t == Reconnected(s, headText, headRev, q) IN
           /\ Len(q) = 0 => t = [s EXCEPT !.serverRev = headRev]
           /\ Len(q) = 1 => t = [CatchUpOne(s, q[1]) EXCEPT !.serverRev = headRev]
<1> DEFINE t == Reconnected(s, headText, headRev, q)
<1>1. ASSUME Len(q) \in {0, 1}
      PROVE  /\ Len(q) = 0 => t = [s EXCEPT !.serverRev = headRev]
             /\ Len(q) = 1 => t = [CatchUpOne(s, q[1]) EXCEPT !.serverRev = headRev]
  <2>1. PICK f : /\ t = [f[Len(q)] EXCEPT !.serverRev = headRev]
                 /\ \A i \in 0..Len(q) : f[i] = CaughtStep(f, s, q, i)
    <3>1. Len(q) \in Nat
      BY <1>1
    <3>. QED
      BY <3>1, ReconnectedIs
  <2> HIDE DEF t
  <2>2. f[0] = s
    BY <1>1, <2>1 DEF CaughtStep
  <2>3. ASSUME Len(q) = 1 PROVE f[1] = CatchUpOne(f[0], q[1])
    BY <2>1, <2>3 DEF CaughtStep
  <2>. QED
    BY <1>1, <2>1, <2>2, <2>3
<1>. QED
  BY <1>1

\* The page t that s has become when it is caught up to this text.
Catching(t, s, text) ==
    /\ t \in PageType
    /\ t.baseText = text /\ Suits(text, t.X) /\ isIdentity(t.X) /\ t.Y \in CharChangeset
    /\ t.waitingForAck = s.waitingForAck /\ t.nextSubmissionId = s.nextSubmissionId
    /\ SameSocket(t, s)

\* One revision more is caught up with.
LEMMA CatchUpOneIs ==
    ASSUME NEW s, NEW t, NEW text, Catching(t, s, text), NEW C \in CharChangeset, Suits(text, C)
    PROVE  Catching(CatchUpOne(t, C), s, ApplyChangeset(text, C))
<1> DEFINE X == Follow(C, t.X)
           Y == Follow(Follow(X, C), t.Y)
           new == ApplyChangeset(text, C)
<1>1. /\ t \in PageType /\ t.baseText = text /\ text \in Seq(Char)
      /\ t.X \in CharChangeset /\ t.X \in Changeset /\ t.Y \in CharChangeset /\ t.Y \in Changeset
      /\ C \in Changeset
  BY NullIs DEF Catching, PageType, Suits, CharChangeset
<1>2. X \in CharChangeset /\ X \in Changeset /\ Suits(new, X) /\ isIdentity(X)
  BY <1>1, FollowChar, FollowSuits, FollowKeepsIdentity DEF Catching, CharChangeset
<1>3. Y \in CharChangeset
  <2> HIDE DEF X
  <2>1. Follow(X, C) \in Changeset
    BY <1>1, <1>2, FollowChar
  <2>. QED
    BY <1>1, <2>1, FollowChar
<1>4. new \in Seq(Char) /\ applyChangeset(text, C) = new
  BY <1>1, ApplySame
<1>5. CatchUpOne(t, C) = [t EXCEPT !.baseText = new, !.X = X, !.Y = Y]
  <2>1. ~Throws(text, C)
    BY DEF Throws, Suits
  <2> HIDE DEF new
  <2>. QED
    BY <1>1, <1>4, <2>1, NullIs DEF CatchUpOne
<1> HIDE DEF X, Y, new
<1>6. CatchUpOne(t, C) \in PageType
  BY <1>1, <1>2, <1>3, <1>4, <1>5 DEF PageType
<1>7. Catching(CatchUpOne(t, C), s, new)
  BY <1>1, <1>2, <1>3, <1>5, <1>6 DEF Catching, PageType, SameSocket
<1>. QED
  BY <1>7 DEF new

\* What handleConnectAck makes of a page that is caught up.
LEMMA ShownStands ==
    ASSUME NEW s, NEW headText, NEW n, NEW q, NEW t \in PageType, t = Reconnected(s, headText, n, q),
           NEW text \in Seq(Char), t.baseText = text,
           ~Throws(text, t.X) => Suits(text, t.X) /\ isIdentity(t.X) /\ t.Y \in CharChangeset
    PROVE  /\ Stands(handleConnectAck(s, headText, n, q), text)
           /\ isIdentity(handleConnectAck(s, headText, n, q).X)
           /\ handleConnectAck(s, headText, n, q).active
           /\ handleConnectAck(s, headText, n, q).serverRev = t.serverRev
           /\ handleConnectAck(s, headText, n, q).waitingForAck = t.waitingForAck
           /\ handleConnectAck(s, headText, n, q).nextSubmissionId = t.nextSubmissionId
           /\ SameSocket(handleConnectAck(s, headText, n, q), t)
<1> DEFINE u == handleConnectAck(s, headText, n, q)
           A == TextToChangeset(text)
           none == Identity(Len(text))
           shown == Merged(t)
<1>1. A \in Changeset
  BY CharIs, TextSuits DEF Suits
<1>2. none \in CharChangeset /\ Suits(text, none) /\ isIdentity(none)
  BY IdentityChar
<1>3. u = IF Merges(t) THEN [[t EXCEPT !.editor = shown] EXCEPT !.A = A, !.active = TRUE]
          ELSE [[t EXCEPT !.editor = text, !.X = none, !.Y = none] EXCEPT !.A = A, !.active = TRUE]
  BY DEF handleConnectAck
<1>4. CASE Merges(t)
  <2>1. Suits(text, t.X) /\ isIdentity(t.X) /\ t.X \in CharChangeset /\ t.Y \in CharChangeset
    <3>1. ~Throws(text, t.X)
      BY <1>4 DEF Merges
    <3>. QED
      BY <3>1, NullIs DEF PageType, Suits
  <2>2. shown \in Seq(Char)
    <3>1. applyChangeset(text, t.X) \in Seq(Char)
      BY <2>1, ApplyChar
    <3>. QED
      BY <2>1, <3>1, ApplyChar DEF Merged
  <2>3. u = [[t EXCEPT !.editor = shown] EXCEPT !.A = A, !.active = TRUE]
    BY <1>3, <1>4
  <2> HIDE DEF u, A, none, shown
  <2>4. u \in PageType
    BY <1>1, <2>2, <2>3 DEF PageType
  <2>5. Stands(u, text)
    BY <2>1, <2>3, <2>4 DEF Stands, PageType, A
  <2>. QED
    BY <2>1, <2>3, <2>5 DEF PageType, SameSocket, u
<1>5. CASE ~Merges(t)
  <2>1. u = [[t EXCEPT !.editor = text, !.X = none, !.Y = none] EXCEPT !.A = A, !.active = TRUE]
    BY <1>3, <1>5
  <2> HIDE DEF u, A, none, shown
  <2>2. u \in PageType
    BY <1>1, <1>2, <2>1 DEF PageType
  <2>3. Stands(u, text)
    BY <1>2, <2>1, <2>2 DEF Stands, PageType, A
  <2>. QED
    BY <1>2, <2>1, <2>3 DEF PageType, SameSocket, u
<1>. QED
  BY <1>4, <1>5

\* A page that was at revision m is caught up to revision r.
LEMMA CaughtUpPage ==
    ASSUME DocumentOK, NEW m \in Nat, NEW r \in Nat, m <= r, r <= fsm.headRev, m # 0,
           NEW s, s.serverRev = m, Catching(s, s, TextAt(m)), NEW headText
    PROVE  LET t == Reconnected(s, headText, r, RevisionsBetween(m, r)) IN
           Catching(t, s, TextAt(r)) /\ t.serverRev = r
<1> DEFINE q == RevisionsBetween(m, r)
<1>1. Len(q) = r - m /\ Len(q) \in Nat
      /\ \A i \in 1..Len(q) : q[i] = Sent(m + i)
  <2>1. r - m \in Nat
    OBVIOUS
  <2>2. Len(q) = r - m /\ \A i \in 1..r - m : q[i] = Sent(m + i)
    BY RevisionsBetweenAre
  <2> HIDE DEF q
  <2>. QED
    BY <2>1, <2>2
<1> HIDE DEF q
<1>0. Len(q) \in Nat /\ s.serverRev # 0
  BY <1>1
<1>2. PICK f : /\ Reconnected(s, headText, r, q) = [f[Len(q)] EXCEPT !.serverRev = r]
               /\ \A i \in 0..Len(q) : f[i] = CaughtStep(f, s, q, i)
  BY ONLY <1>0, ReconnectedIs
<1> DEFINE T == {i \in Nat : i <= Len(q) => Catching(f[i], s, TextAt(m + i))}
<1>3. 0 \in T
  <2>1. f[0] = s
    BY <1>1, <1>2 DEF CaughtStep
  <2>. QED
    BY <2>1
<1>4. ASSUME NEW i \in T PROVE i + 1 \in T
  <2>1. SUFFICES ASSUME i + 1 <= Len(q) PROVE Catching(f[i + 1], s, TextAt(m + (i + 1)))
    OBVIOUS
  <2>2. /\ i \in Nat /\ i + 1 \in 0..Len(q) /\ i + 1 \in 1..Len(q) /\ (i + 1) - 1 = i /\ i + 1 # 0
        /\ Catching(f[i], s, TextAt(m + i))
    BY <1>1, <2>1
  <2>3. f[i + 1] = CatchUpOne(f[i], q[i + 1])
    BY <1>2, <2>2 DEF CaughtStep
  <2>4. m + i \in Nat /\ (m + i) + 1 <= fsm.headRev /\ m + (i + 1) = (m + i) + 1
    BY <1>1, <2>1, <2>2 DEF DocumentOK, Sound
  <2>5. q[i + 1] = Sent((m + i) + 1)
    BY <1>1, <2>2, <2>4
  <2>6. CASE (m + i) + 1 \in nulls
    <3>1. TextAt(m + i) = TextAt((m + i) + 1)
      BY <2>4, <2>6, EmptyRevision
    <3>2. f[i + 1] = f[i]
      BY <2>3, <2>5, <2>6 DEF Sent, CatchUpOne
    <3>. QED
      BY <2>2, <2>4, <3>1, <3>2
  <2>7. CASE (m + i) + 1 \notin nulls
    <3>1. q[i + 1] = fsm.revisionLog[(m + i) + 1].changeset
      BY <2>5, <2>7 DEF Sent
    <3>. QED
      BY <2>2, <2>3, <2>4, <3>1, RevisionIs, CatchUpOneIs
  <2>. QED
    BY <2>6, <2>7
<1> HIDE DEF T
<1>5. \A i \in Nat : i \in T
  <2>1. T \subseteq Nat
    BY DEF T
  <2>. QED
    BY <1>3, <1>4, <2>1, SetInduction
<1>6. Catching(f[Len(q)], s, TextAt(r))
  <2>1. m + Len(q) = r
    BY <1>1
  <2>. QED
    BY <1>1, <1>5, <2>1 DEF T
<1> DEFINE g == f[Len(q)]
           t == [g EXCEPT !.serverRev = r]
<1>7. Catching(g, s, TextAt(r))
  BY <1>6
<1> HIDE DEF g
<1>8. t \in PageType /\ t.serverRev = r
  BY <1>7 DEF Catching, PageType
<1>9. Catching(t, s, TextAt(r))
  BY <1>7, <1>8 DEF Catching, PageType, SameSocket
<1>. QED
  BY <1>2, <1>8, <1>9 DEF q, g

\* A CONNECT_ACK makes a page stand at its revision, with nothing submitted.
LEMMA ConnectAckStands ==
    ASSUME DocumentOK, NEW s, PageOK(s), ~s.active,
           NEW r \in Nat, s.serverRev <= r, r <= fsm.headRev
    PROVE  LET t == handleConnectAck(s, TextAt(r), r, RevisionsBetween(s.serverRev, r)) IN
           /\ Stands(t, TextAt(r)) /\ isIdentity(t.X) /\ t.active /\ t.serverRev = r
           /\ t.waitingForAck = s.waitingForAck /\ t.nextSubmissionId = s.nextSubmissionId
           /\ SameSocket(t, s)
<1> DEFINE q == RevisionsBetween(s.serverRev, r)
           t == Reconnected(s, TextAt(r), r, q)
<1>1. /\ s \in PageType /\ s.serverRev \in Nat /\ TextAt(r) \in Seq(Char)
      /\ ~s.waitingForAck
  BY TextChar DEF PageOK, PageType, DocumentOK, Sound
<1>2. /\ t \in PageType /\ t.serverRev = r /\ t.baseText = TextAt(r)
      /\ t.waitingForAck = s.waitingForAck /\ t.nextSubmissionId = s.nextSubmissionId
      /\ SameSocket(t, s)
      /\ ~Throws(TextAt(r), t.X) => Suits(TextAt(r), t.X) /\ isIdentity(t.X) /\ t.Y \in CharChangeset
  <2>1. CASE s.serverRev = 0
    <3>1. t = [s EXCEPT !.baseText = TextAt(r), !.serverRev = r]
      BY <2>1 DEF Reconnected
    <3>2. t \in PageType /\ t.X = s.X /\ t.Y = s.Y /\ t.baseText = TextAt(r)
      BY <1>1, <3>1 DEF PageType
    <3>3. ~Throws(TextAt(r), s.X) =>
             Suits(TextAt(r), s.X) /\ isIdentity(s.X) /\ s.Y \in CharChangeset
      <4>1. SUFFICES ASSUME ~Throws(TextAt(r), s.X)
                     PROVE  Suits(TextAt(r), s.X) /\ isIdentity(s.X) /\ s.Y \in CharChangeset
        OBVIOUS
      <4>2. s.X # Null
        BY <1>1, <4>1, LenProperties DEF Throws, Null
      <4>3. Suits(TextAt(0), s.X) /\ isIdentity(s.X) /\ s.Y \in CharChangeset
        BY <1>1, <2>1, <4>2 DEF PageOK, PageType
      <4>4. TextAt(0) = <<>>
        BY ReplayIs DEF TextAt
      <4>5. TextAt(r) = <<>>
        <5>1. s.X.old_len = 0
          BY <4>3, <4>4, TextNil DEF Suits
        <5>. QED
          BY <1>1, <4>1, <5>1, CharIs, TextNil DEF Throws
      <4>. QED
        BY <4>3, <4>4, <4>5
    <3> HIDE DEF t
    <3>. QED
      BY <1>1, <3>1, <3>2, <3>3 DEF PageType, SameSocket
  <2>2. CASE s.serverRev # 0
    <3>1. Catching(s, s, TextAt(s.serverRev))
      BY <1>1, <2>2 DEF PageOK, Catching, PageType, SameSocket
    <3>2. Catching(t, s, TextAt(r)) /\ t.serverRev = r
      BY <1>1, <2>2, <3>1, CaughtUpPage
    <3> HIDE DEF t
    <3>. QED
      BY <3>2 DEF Catching
  <2>. QED
    BY <2>1, <2>2
<1> HIDE DEF t, q
<1> DEFINE u == handleConnectAck(s, TextAt(r), r, q)
<1>3. /\ Stands(u, TextAt(r)) /\ isIdentity(u.X) /\ u.active /\ u.serverRev = t.serverRev
      /\ u.waitingForAck = t.waitingForAck /\ u.nextSubmissionId = t.nextSubmissionId
      /\ SameSocket(u, t)
  BY <1>1, <1>2, ShownStands DEF t
<1>. QED
  BY <1>2, <1>3 DEF q, SameSocket

-------------------------------------------------------------------------------
(* What is on the user's screen: Y.                                        *)

\* Y suits the text that A and X make.
YSuits(s) == Suits(applyChangeset(s.baseText, s.X), s.Y)

\* handleBroadcast rebases Y along with X.
LEMMA BroadcastY ==
    ASSUME NEW s, NEW text, Stands(s, text), NEW B \in CharChangeset, Suits(text, B), NEW r \in Nat
    PROVE  YSuits(handleBroadcast(s, B, r))
<1> DEFINE t == handleBroadcast(s, B, r)
           Y == LocalEdits(s)
           over == Follow(s.X, B)
           mid == ApplyChangeset(text, s.X)
           new == ApplyChangeset(text, B)
<1>1. /\ text \in Seq(Char) /\ s.X \in CharChangeset /\ s \in PageType /\ s.baseText = text
      /\ Suits(text, s.X) /\ s.editor \in Seq(Char) /\ ~Throws(text, s.X)
  BY StandsIs DEF Stands
<1>2. mid \in Seq(Char) /\ applyChangeset(text, s.X) = mid
  BY <1>1, ApplySame
<1>3. Suits(mid, Y)
  <2>1. Y = DiffToChangeset(mid, s.editor)
    BY <1>1, <1>2 DEF LocalEdits
  <2> HIDE DEF mid, Y
  <2>. QED
    BY <1>1, <1>2, <2>1, DiffChar
<1>4. Suits(mid, over) /\ Suits(new, Follow(B, s.X))
  BY <1>1, FollowSuits
<1>5. ApplyChangeset(new, Follow(B, s.X)) = ApplyChangeset(mid, over)
  BY <1>1, Convergence
<1>6. Stands(t, new) /\ t.X = Follow(B, s.X)
  BY BroadcastStands
<1>7. t.baseText = new
  BY <1>6 DEF Stands
<1>8. t.Y = Follow(over, Y)
  <2>1. BroadcastRebase(s, B, Y, over).Y = Follow(over, Y)
    <3> HIDE DEF Y, over
    <3>. QED
      BY <1>1 DEF BroadcastRebase, PageType
  <2>2. t.Y = BroadcastRebase(s, B, Y, over).Y
    BY <1>1, NullIs DEF handleBroadcast, CharChangeset
  <2>. QED
    BY <2>1, <2>2
<1> HIDE DEF t, Y, over, mid, new
<1>9. Suits(ApplyChangeset(mid, over), Follow(over, Y))
  BY <1>3, <1>4, FollowSuits
<1>10. applyChangeset(new, Follow(B, s.X)) = ApplyChangeset(mid, over)
  BY <1>4, <1>5, ApplySame
<1>. QED
  BY <1>6, <1>7, <1>8, <1>9, <1>10 DEF YSuits, t

\* The acknowledged X is in the text that Y suits, before and after.
LEMMA AckY ==
    ASSUME NEW s, NEW text, Stands(s, text), NEW r \in Nat, YSuits(s)
    PROVE  YSuits(handleAck(s, r))
<1> DEFINE t == handleAck(s, r)
           new == ApplyChangeset(text, s.X)
<1>1. text \in Seq(Char) /\ s.X \in CharChangeset /\ Suits(text, s.X) /\ s.baseText = text /\ s \in PageType
  BY StandsIs DEF Stands
<1>2. new \in Seq(Char) /\ applyChangeset(text, s.X) = new
  BY <1>1, ApplySame
<1>3. Stands(t, new) /\ isIdentity(t.X)
  BY AckStands
<1>4. t.Y = s.Y
  BY <1>1 DEF handleAck, PageType
<1> HIDE DEF t, new
<1>5. t.baseText = new /\ Suits(new, t.X)
  BY <1>3 DEF Stands
<1>6. applyChangeset(new, t.X) = new
  BY <1>2, <1>3, <1>5, NothingApplied
<1>. QED
  BY <1>1, <1>2, <1>4, <1>5, <1>6 DEF YSuits, t

\* submitTick leaves nothing in Y.
LEMMA MoveY ==
    ASSUME NEW s, NEW text, Stands(s, text), isIdentity(s.X)
    PROVE  YSuits(MoveToX(s))
<1> DEFINE t == MoveToX(s)
<1>1. Stands(t, text) /\ ApplyChangeset(text, t.X) = s.editor
  BY MoveStands
<1>2. s.editor \in Seq(Char) /\ s \in PageType
  BY StandsIs DEF Stands
<1>3. t.Y = Identity(Len(s.editor))
  BY <1>2 DEF MoveToX, PageType
<1> HIDE DEF t
<1>4. applyChangeset(t.baseText, t.X) = s.editor
  BY <1>1, ApplySame DEF Stands
<1>. QED
  BY <1>2, <1>3, <1>4, IdentityChar DEF YSuits, t

\* handleConnectAck keeps a Y that merges, or empties it.
LEMMA ShownY ==
    ASSUME NEW s, NEW headText, NEW n, NEW q, NEW t \in PageType, t = Reconnected(s, headText, n, q),
           Merges(t) => YSuits(t)
    PROVE  YSuits(handleConnectAck(s, headText, n, q))
<1> DEFINE u == handleConnectAck(s, headText, n, q)
           text == t.baseText
           A == TextToChangeset(text)
           none == Identity(Len(text))
           shown == Merged(t)
<1>1. text \in Seq(Char)
  BY DEF PageType
<1>2. u = IF Merges(t) THEN [[t EXCEPT !.editor = shown] EXCEPT !.A = A, !.active = TRUE]
          ELSE [[t EXCEPT !.editor = text, !.X = none, !.Y = none] EXCEPT !.A = A, !.active = TRUE]
  BY DEF handleConnectAck
<1> HIDE DEF u, A, shown
<1>3. CASE Merges(t)
  <2>1. u.baseText = text /\ u.X = t.X /\ u.Y = t.Y
    BY <1>2, <1>3 DEF PageType
  <2>. QED
    BY <1>3, <2>1 DEF YSuits, u
<1>4. CASE ~Merges(t)
  <2>1. Suits(text, none) /\ isIdentity(none)
    BY <1>1, IdentityChar
  <2>2. applyChangeset(text, none) = text
    BY <1>1, <2>1, NothingApplied
  <2> HIDE DEF none
  <2>3. u.baseText = text /\ u.X = none /\ u.Y = none
    BY <1>2, <1>4 DEF PageType
  <2>. QED
    BY <2>1, <2>2, <2>3 DEF YSuits, u
<1>. QED
  BY <1>3, <1>4

\* A page with nothing of its own that missed one revision: its Y merges only if
\* it suits the text.
LEMMA CaughtUpY ==
    ASSUME NEW s \in PageType, NEW text, s.baseText = text, Suits(text, s.X), isIdentity(s.X),
           Suits(text, s.Y), isIdentity(s.Y), NEW C \in CharChangeset, Suits(text, C),
           NEW t, t.baseText = CatchUpOne(s, C).baseText, t.X = CatchUpOne(s, C).X,
           t.Y = CatchUpOne(s, C).Y, Merges(t)
    PROVE  YSuits(t)
<1> DEFINE X == Follow(C, s.X)
           Y == Follow(Follow(X, C), s.Y)
           new == ApplyChangeset(text, C)
<1>1. text \in Seq(Char)
  BY DEF PageType
<1>2. new \in Seq(Char) /\ applyChangeset(text, C) = new /\ ~Throws(text, C)
  BY <1>1, ApplySame DEF Throws, Suits
<1>3. Suits(new, X) /\ isIdentity(X)
  BY FollowSuits, FollowKeepsIdentity
<1>4. t.baseText = new /\ t.X = X /\ t.Y = Y
  <2>1. CatchUpOne(s, C) = [s EXCEPT !.baseText = new, !.X = X, !.Y = Y]
    <3> HIDE DEF new
    <3>. QED
      BY <1>2, NullIs DEF CatchUpOne, CharChangeset
  <2> HIDE DEF X, Y, new
  <2>2. CatchUpOne(s, C).baseText = new /\ CatchUpOne(s, C).X = X /\ CatchUpOne(s, C).Y = Y
    BY <2>1 DEF PageType
  <2>. QED
    BY <2>2
<1> HIDE DEF new
<1>5. applyChangeset(new, X) = new /\ X = Identity(Len(new))
  BY <1>2, <1>3, NothingApplied, IsTheIdentity
<1>6. s.Y = Identity(Len(text))
  BY IsTheIdentity
<1>7. new \in Text /\ Len(new) \in Nat
  BY <1>2, CharIs, LenProperties
<1> HIDE DEF X
<1>8. Y = Follow(Follow(Identity(Len(new)), C), Identity(Len(text)))
  BY <1>5, <1>6
<1> HIDE DEF Y
<1>9. Y.old_len = Len(new)
  BY <1>4, <1>5 DEF Merges, Throws
<1>10. Suits(new, Y)
  BY <1>7, <1>8, <1>9, CaughtUpNoChange
<1>. QED
  BY <1>4, <1>5, <1>10 DEF YSuits

\* What the invariant below says of a page: Y suits, and a page that lost its
\* connection has nothing in it.
LocalOK(s) == s.A # Null => YSuits(s) /\ (~s.active => isIdentity(s.Y))

\* A CONNECT_ACK leaves a Y that suits, or none.
LEMMA ConnectAckY ==
    ASSUME DocumentOK, nulls = {}, NEW s, PageOK(s), ~s.active, LocalOK(s),
           NEW r \in Nat, s.serverRev <= r, r <= fsm.headRev,
           s.serverRev = 0 \/ r <= s.serverRev + 1
    PROVE  YSuits(handleConnectAck(s, TextAt(r), r, RevisionsBetween(s.serverRev, r)))
<1> DEFINE m == s.serverRev
           q == RevisionsBetween(m, r)
           t == Reconnected(s, TextAt(r), r, q)
<1>1. /\ s \in PageType /\ m \in Nat /\ TextAt(r) \in Seq(Char) /\ s.baseText \in Seq(Char)
      /\ ~s.waitingForAck
  BY TextChar DEF PageOK, PageType, DocumentOK, Sound
<1>2. ASSUME s.A # Null
      PROVE  /\ s.baseText = TextAt(m) /\ Suits(s.baseText, s.X) /\ isIdentity(s.X)
             /\ applyChangeset(s.baseText, s.X) = s.baseText
             /\ Suits(s.baseText, s.Y) /\ isIdentity(s.Y)
  <2>1. s.baseText = TextAt(m) /\ Suits(s.baseText, s.X) /\ isIdentity(s.X)
    BY <1>1, <1>2 DEF PageOK
  <2>2. applyChangeset(s.baseText, s.X) = s.baseText
    BY <1>1, <2>1, NothingApplied
  <2>. QED
    BY <1>2, <2>1, <2>2 DEF LocalOK, YSuits
<1>3. ASSUME m # 0 PROVE s.A # Null
  BY <1>3 DEF PageOK
<1>4. t \in PageType /\ (Merges(t) => YSuits(t))
  <2>1. CASE m = 0
    <3>1. t = [s EXCEPT !.baseText = TextAt(r), !.serverRev = r]
      BY <2>1 DEF Reconnected
    <3> DEFINE x == TextAt(r)
    <3> HIDE DEF x, t
    <3>2. t \in PageType /\ t.X = s.X /\ t.Y = s.Y /\ t.baseText = x
      BY <1>1, <3>1 DEF PageType, x
    <3>3. ASSUME Merges(t) PROVE YSuits(t)
      <4>1. s.X.old_len = Len(x) /\ x \in Seq(Char)
        BY <1>1, <3>2, <3>3 DEF Merges, Throws, x
      <4>2. s.A # Null
        <5>1. s.X # Null
          BY <4>1, LenProperties DEF Null
        <5>. QED
          BY <5>1 DEF PageOK
      <4>3. s.baseText = <<>>
        BY <1>2, <2>1, <4>2, ReplayIs DEF TextAt
      <4>4. x = <<>>
        <5>1. s.X.old_len = 0
          BY <1>2, <4>2, <4>3, TextNil DEF Suits
        <5>. QED
          BY <4>1, <5>1, CharIs, TextNil
      <4>. QED
        BY <1>2, <3>2, <4>2, <4>3, <4>4 DEF YSuits
    <3>. QED
      BY <3>2, <3>3
  <2>2. CASE m # 0 /\ r = m
    <3>1. Len(q) = 0 /\ Len(q) \in Nat /\ s.serverRev # 0
      <4>1. Len(q) = r - m
        BY <1>1, <2>2, RevisionsBetweenAre
      <4> HIDE DEF q
      <4>. QED
        BY <1>1, <2>2, <4>1
    <3> HIDE DEF q
    <3>4. t = [s EXCEPT !.serverRev = r]
      BY <3>1, ReconnectedShort
    <3> HIDE DEF t, m
    <3>5. t \in PageType /\ t.X = s.X /\ t.Y = s.Y /\ t.baseText = s.baseText
      BY <1>1, <3>4 DEF PageType
    <3>. QED
      BY <1>2, <1>3, <2>2, <3>5 DEF YSuits
  <2>3. CASE m # 0 /\ r = m + 1
    <3> DEFINE C == fsm.revisionLog[m + 1].changeset
    <3>1. Len(q) = 1 /\ Len(q) \in Nat /\ q[1] = C /\ s.serverRev # 0
      <4>1. Len(q) = r - m /\ \A i \in 1..r - m : q[i] = Sent(m + i)
        BY <1>1, <2>3, RevisionsBetweenAre
      <4> HIDE DEF q
      <4>2. r - m = 1
        BY <1>1, <2>3
      <4>3. 1 \in 1..r - m
        BY <4>2
      <4>. QED
        BY <2>3, <4>1, <4>2, <4>3 DEF Sent
    <3>2. C \in CharChangeset /\ Suits(TextAt(m), C)
      BY <1>1, <2>3, RevisionIs
    <3>3. Catching(s, s, TextAt(m))
      BY <1>1, <1>2, <1>3, <2>3 DEF PageOK, Catching, PageType, SameSocket
    <3>4. t \in PageType
      BY <1>1, <2>3, <3>3, CaughtUpPage DEF Catching
    <3> HIDE DEF q, C
    <3> DEFINE u == CatchUpOne(s, C)
    <3>7. t = [u EXCEPT !.serverRev = r]
      BY <3>1, ReconnectedShort
    <3>8. u \in PageType
      BY <1>1, <3>2, <3>3, CatchUpOneIs DEF Catching
    <3> HIDE DEF t, m, u
    <3>9. t.baseText = u.baseText /\ t.X = u.X /\ t.Y = u.Y
      BY <3>7, <3>8 DEF PageType
    <3>10. ASSUME Merges(t) PROVE YSuits(t)
      BY <1>1, <1>2, <1>3, <2>3, <3>2, <3>9, <3>10, CaughtUpY DEF u
    <3>. QED
      BY <3>4, <3>10
  <2>. QED
    BY <1>1, <2>1, <2>2, <2>3
<1> HIDE DEF t
<1>. QED
  BY <1>4, ShownY DEF t, q, m

-------------------------------------------------------------------------------
(* Runs.                                                                   *)

\* The empty run.
LEMMA RunEmpty ==
    ASSUME NEW f, NEW k \in Nat
    PROVE  IsRun(<<>>, f, k, k) /\ \A m \in Nat : IsRun(<<>>, f, k, m) => k = m
BY EmptySeq DEF IsRun, IsSeq

\* The first of a run, and the rest.
LEMMA RunHead ==
    ASSUME NEW q, NEW f, NEW k \in Nat, NEW m \in Nat, IsRun(q, f, k, m), q # <<>>
    PROVE  /\ k + 1 <= m /\ Head(q) = f[k + 1] /\ IsRun(Tail(q), f, k + 1, m)
<1>1. /\ IsSeq(q) /\ k + Len(q) = m /\ \A i \in 1..Len(q) : q[i] = f[k + i]
  BY DEF IsRun
<1>2. /\ IsSeq(Tail(q)) /\ 1 \in DOMAIN q /\ Head(q) = q[1]
      /\ \A i \in DOMAIN Tail(q) : i + 1 \in DOMAIN q /\ Tail(q)[i] = q[i + 1]
  BY <1>1, TailSeq
<1>3. Len(q) \in Nat /\ DOMAIN q = 1..Len(q) /\ Len(Tail(q)) = Len(q) - 1
      /\ DOMAIN Tail(q) = 1..Len(Tail(q))
  BY <1>1, <1>2, LenProperties, HeadTailProperties DEF IsSeq
<1>4. \A i \in 1..Len(Tail(q)) : Tail(q)[i] = f[(k + 1) + i]
  <2>1. SUFFICES ASSUME NEW i \in 1..Len(Tail(q)) PROVE Tail(q)[i] = f[(k + 1) + i]
    OBVIOUS
  <2>2. i + 1 \in 1..Len(q) /\ Tail(q)[i] = q[i + 1] /\ k + (i + 1) = (k + 1) + i
    BY <1>2, <1>3
  <2>. QED
    BY <1>1, <2>2
<1>. QED
  BY <1>1, <1>2, <1>3, <1>4, SMTT(40) DEF IsRun

\* A run with one more.
LEMMA RunAppend ==
    ASSUME NEW q, NEW f, NEW k \in Nat, NEW m \in Nat, IsRun(q, f, k, m), NEW e, e = f[m + 1]
    PROVE  IsRun(Append(q, e), f, k, m + 1)
<1>1. /\ IsSeq(q) /\ k + Len(q) = m /\ \A i \in 1..Len(q) : q[i] = f[k + i]
  BY DEF IsRun
<1>2. /\ IsSeq(Append(q, e)) /\ Len(q) \in Nat /\ Len(Append(q, e)) = Len(q) + 1
      /\ \A i \in 1..Len(q) : Append(q, e)[i] = q[i]
      /\ Append(q, e)[Len(q) + 1] = e
  BY <1>1, AppendSeq
<1>3. \A i \in 1..Len(q) + 1 : Append(q, e)[i] = f[k + i]
  <2>1. SUFFICES ASSUME NEW i \in 1..Len(q) + 1 PROVE Append(q, e)[i] = f[k + i]
    OBVIOUS
  <2>2. CASE i = Len(q) + 1
    BY <1>1, <1>2, <2>2
  <2>3. CASE i \in 1..Len(q)
    BY <1>1, <1>2, <2>3
  <2>. QED
    BY <1>2, <2>2, <2>3
<1>. QED
  BY <1>1, <1>2, <1>3 DEF IsRun

\* A run of what stays the same.
LEMMA RunSame ==
    ASSUME NEW q, NEW f, NEW g, NEW k \in Nat, NEW m \in Nat, IsRun(q, f, k, m),
           \A r \in 1..m : g[r] = f[r]
    PROVE  IsRun(q, g, k, m)
<1>1. /\ IsSeq(q) /\ k + Len(q) = m /\ \A i \in 1..Len(q) : q[i] = f[k + i]
  BY DEF IsRun
<1>2. Len(q) \in Nat
  BY <1>1, LenProperties DEF IsSeq
<1>3. ASSUME NEW i \in 1..Len(q) PROVE q[i] = g[k + i]
  <2>1. k + i \in 1..m
    BY <1>1, <1>2
  <2>. QED
    BY <1>1, <2>1
<1>. QED
  BY ONLY <1>1, <1>3 DEF IsRun

-------------------------------------------------------------------------------
(* Steps of one page, between it and the servers.                          *)

\* What most steps leave as it is.
Still ==
    /\ fsm' = fsm /\ results' = results /\ nulls' = nulls
    /\ applied' = applied /\ pending' = pending /\ leader' = leader

\* A page whose server does nothing.
LEMMA ConnectionSame ==
    ASSUME NEW c, NEW s, NEW u, NEW d, NEW g, fsm' = fsm, nulls' = nulls, leader' = leader,
           applied'[s.server] = applied[s.server], pending'[s.server] = pending[s.server]
    PROVE  ConnectionOK(c, s, u, d, g) <=> ConnectionOK(c, s, u, d, g)'
<1>1. AllNews(c)' = AllNews(c)
  BY DEF AllNews, News
<1>2. \A k : NoneOwn(c, k) <=> NoneOwn(c, k)'
  BY DEF NoneOwn
<1>3. Called(s.server)' = Called(s.server)
  BY DEF Called
<1>4. AtLeader(s, g) <=> AtLeader(s, g)'
  BY DEF AtLeader
<1>5. Asking(s, u, d, g) <=> Asking(s, u, d, g)'
  BY DEF Asking
<1>6. Answered(c, s, u, d, g) <=> Answered(c, s, u, d, g)'
  BY <1>1, <1>2, <1>3, <1>4 DEF Answered
<1>7. Working(c, s, u, d, g) <=> Working(c, s, u, d, g)'
  <2>1. \A p : Told(c, s, d, p) <=> Told(c, s, d, p)'
    BY <1>1, <1>3 DEF Told, Passed
  <2>. QED
    BY <1>4, <2>1 DEF Working
<1>. QED
  BY <1>5, <1>6, <1>7 DEF ConnectionOK

\* What a submission is depends on the document alone, ...
LEMMA SubmissionSame ==
    ASSUME fsm' = fsm, NEW c, NEW s, NEW u, NEW p
    PROVE  SubmissionOK(c, s, u, p) <=> SubmissionOK(c, s, u, p)'
<1>1. \A k : NoneOwn(c, k) <=> NoneOwn(c, k)'
  BY DEF NoneOwn
<1>2. \A cs, b, r : CaughtUp(cs, b, r)' = CaughtUp(cs, b, r)
  BY DEF CaughtUp
<1>3. \A r : TextAt(r)' = TextAt(r)
  BY DEF TextAt
<1>4. \A sub, b, cs : IsSubmission(s, sub, b, cs) <=> IsSubmission(s, sub, b, cs)'
  BY <1>2, <1>3 DEF IsSubmission
<1>5. /\ Unsent(c, s, u, p) <=> Unsent(c, s, u, p)'
      /\ OnItsWay(c, s, u, p) <=> OnItsWay(c, s, u, p)'
      /\ Proposed(c, s, u, p) <=> Proposed(c, s, u, p)'
  BY <1>1, <1>4 DEF Unsent, OnItsWay, Proposed
<1>6. Committed(c, s, u, p) <=> Committed(c, s, u, p)'
  BY <1>2 DEF Committed
<1>. QED
  BY <1>1, <1>5, <1>6 DEF SubmissionOK, Waiting

\* ... and so does what a page is, ...
LEMMA PageSame ==
    ASSUME fsm' = fsm, NEW s
    PROVE  PageOK(s) <=> PageOK(s)'
<1>1. \A r : TextAt(r)' = TextAt(r)
  BY DEF TextAt
<1>. QED
  BY <1>1 DEF PageOK

\* ... and the document on the entries.
LEMMA DocumentSame ==
    ASSUME DocumentOK, fsm' = fsm, results' = results, nulls' = nulls
    PROVE  DocumentOK'
<1>1. [r \in 1..fsm.headRev |-> Result(r)]' = [r \in 1..fsm.headRev |-> Result(r)]
  BY DEF Result
<1>. QED
  BY <1>1 DEF DocumentOK

\* A client whose servers do nothing is in order if it was.
LEMMA ClientSame ==
    ASSUME Still, NEW c, NEW s, NEW u, NEW d, NEW g, NEW p
    PROVE  ClientOK(c, s, u, d, g, p) <=> ClientOK(c, s, u, d, g, p)'
BY ConnectionSame, SubmissionSame, PageSame DEF Still, ClientOK

\* The others do not notice.
OthersSame(c) ==
    /\ DOMAIN page' = Client /\ DOMAIN up' = Client
    /\ DOMAIN down' = Client /\ DOMAIN registered' = Client
    /\ \A d \in Client \ {c} : /\ page'[d] = page[d] /\ up'[d] = up[d]
                               /\ down'[d] = down[d] /\ registered'[d] = registered[d]
                               /\ Proposals(d)' = Proposals(d)
    /\ \A e \in proposed' : e.client \in Client
    /\ typed' \in [Client -> 0..MaxTyped]

\* A step of one client, while the servers do nothing.
LEMMA OneClient ==
    ASSUME IInv, Still, NEW c \in Client, OthersSame(c),
           ClientOK(c, page'[c], up'[c], down'[c], registered'[c], Proposals(c)')
    PROVE  IInv'
<1>1. DocumentOK'
  BY DocumentSame DEF IInv, Still
<1>2. ServersOK'
  <2>1. \A n : Called(n)' = Called(n)
    BY DEF Still, Called
  <2>2. ServersOK
    BY DEF IInv
  <2>3. DOMAIN page' = Client /\ DOMAIN up' = Client /\ DOMAIN down' = Client /\ DOMAIN registered' = Client
    BY <2>2 DEF ServersOK, OthersSame
  <2>. QED
    BY <2>1, <2>2, <2>3 DEF Still, ServersOK, OthersSame
<1>3. ThisClientOK(c)'
  BY ClientSame DEF ThisClientOK
<1>4. ASSUME NEW d \in Client, d # c PROVE ThisClientOK(d)'
  <2>1. /\ page'[d] = page[d] /\ up'[d] = up[d] /\ down'[d] = down[d] /\ registered'[d] = registered[d]
        /\ Proposals(d)' = Proposals(d)
    BY <1>4 DEF IInv, ServersOK, OthersSame
  <2>2. ClientOK(d, page'[d], up'[d], down'[d], registered'[d], Proposals(d)')
    BY <1>4, <2>1 DEF IInv, ThisClientOK
  <2>. QED
    BY <2>2, ClientSame DEF ThisClientOK
<1>. QED
  BY <1>1, <1>2, <1>3, <1>4 DEF IInv

\* What a page that changes keeps of its submission.
LEMMA SubmissionKeeps ==
    ASSUME NEW c, NEW s, NEW t, NEW u, NEW p, SubmissionOK(c, s, u, p),
           t.serverRev = s.serverRev, t.nextSubmissionId = s.nextSubmissionId,
           t.waitingForAck = s.waitingForAck, t.X = s.X, t.A = s.A
    PROVE  SubmissionOK(c, t, u, p)
<1>1. \A sub, b, cs : IsSubmission(s, sub, b, cs) => IsSubmission(t, sub, b, cs)
  BY DEF IsSubmission
<1>2. /\ Unsent(c, s, u, p) => Unsent(c, t, u, p)
      /\ OnItsWay(c, s, u, p) => OnItsWay(c, t, u, p)
      /\ Proposed(c, s, u, p) => Proposed(c, t, u, p)
  BY <1>1 DEF Unsent, OnItsWay, Proposed
<1>3. Committed(c, s, u, p) => Committed(c, t, u, p)
  BY DEF Committed
<1>. QED
  BY <1>2, <1>3 DEF SubmissionOK, Waiting

\* A page that has submitted nothing keeps that.
LEMMA NotWaiting ==
    ASSUME NEW c, NEW s, NEW t, NEW u, NEW v, NEW p, SubmissionOK(c, s, u, p), ~s.waitingForAck,
           t.nextSubmissionId = s.nextSubmissionId, ~t.waitingForAck,
           t.A # Null => s.A # Null /\ t.serverRev = s.serverRev
    PROVE  p = {} /\ SubmissionOK(c, t, v, p)
BY DEF SubmissionOK

\* A page that is active is connected.
LEMMA ActiveWorks ==
    ASSUME NEW c, NEW s, NEW u, NEW d, NEW g, ConnectionOK(c, s, u, d, g), s.active
    PROVE  Working(c, s, u, d, g)
BY DEF ConnectionOK, Away, Asking, SentAway, Answered

\* A text with a character more is one, ...
LEMMA TypedText ==
    ASSUME NEW q \in Seq(Char), NEW x \in Char, NEW pos \in 0..Len(q)
    PROVE  InsertAt(q, pos + 1, x) \in Seq(Char)
<1>1. Len(q) \in Nat
  BY LenProperties
<1> DEFINE y == SubSeq(q, 1, (pos + 1) - 1)
           z == SubSeq(q, pos + 1, Len(q))
<1>2. y \in Seq(Char) /\ z \in Seq(Char)
  BY <1>1
<1>3. <<x>> \in Seq(Char)
  OBVIOUS
<1>4. InsertAt(q, pos + 1, x) = y \o <<x>> \o z
  BY DEF InsertAt
<1> HIDE DEF y, z
<1>5. y \o <<x>> \in Seq(Char)
  BY <1>2, <1>3, ConcatProperties
<1>6. y \o <<x>> \o z \in Seq(Char)
  BY <1>2, <1>5, ConcatProperties
<1>. QED
  BY <1>4, <1>6

\* ... and with a character less.
LEMMA ErasedText ==
    ASSUME NEW q \in Seq(Char), NEW pos \in DOMAIN q
    PROVE  RemoveAt(q, pos) \in Seq(Char)
<1>1. Len(q) \in Nat /\ pos \in 1..Len(q)
  BY LenProperties
<1> DEFINE y == SubSeq(q, 1, pos - 1)
           z == SubSeq(q, pos + 1, Len(q))
<1>2. y \in Seq(Char) /\ z \in Seq(Char)
  BY <1>1
<1>3. RemoveAt(q, pos) = y \o z
  BY DEF RemoveAt
<1> HIDE DEF y, z
<1>. QED
  BY <1>2, <1>3, ConcatProperties

\* The user edits the text.
LEMMA EditedClient ==
    ASSUME NEW c, NEW s, NEW u, NEW d, NEW g, NEW p, ClientOK(c, s, u, d, g, p), s.active,
           NEW text \in Seq(Char)
    PROVE  ClientOK(c, [s EXCEPT !.editor = text], u, d, g, p)
<1> DEFINE t == [s EXCEPT !.editor = text]
<1>1. PageOK(s) /\ ConnectionOK(c, s, u, d, g) /\ SubmissionOK(c, s, u, p) /\ s \in PageType
  BY DEF ClientOK, PageOK
<1>2. /\ t.A = s.A /\ t.X = s.X /\ t.Y = s.Y /\ t.serverRev = s.serverRev
      /\ t.nextSubmissionId = s.nextSubmissionId /\ t.waitingForAck = s.waitingForAck
      /\ t.baseText = s.baseText /\ t.active = s.active /\ t.server = s.server
      /\ t.socket = s.socket /\ t.ws = s.ws /\ t.closing = s.closing
      /\ t \in PageType
  BY <1>1 DEF PageType
<1> HIDE DEF t
<1>3. PageOK(t)
  BY <1>1, <1>2 DEF PageOK
<1>4. ConnectionOK(c, t, u, d, g)
  <2>1. \A x : Told(c, s, d, x) => Told(c, t, d, x)
    BY <1>2 DEF Told
  <2>2. Working(c, s, u, d, g)
    BY <1>1, ActiveWorks
  <2>3. \E x \in Nat : Told(c, t, d, x)
    BY <2>1, <2>2 DEF Working
  <2>. QED
    BY <1>2, <2>2, <2>3 DEF ConnectionOK, Working, AtLeader, OneSocket
<1>5. SubmissionOK(c, t, u, p)
  BY <1>1, <1>2, SubmissionKeeps
<1>. QED
  BY <1>3, <1>4, <1>5 DEF ClientOK, t

\* What only a page changes.
LEMMA PageAlone ==
    ASSUME IInv, NEW c \in Client, NEW t, page' = [page EXCEPT ![c] = t],
           UNCHANGED <<netVars, proposed, docVars, pending, leader>>,
           typed' \in [Client -> 0..MaxTyped],
           ClientOK(c, t, up[c], down[c], registered[c], Proposals(c))
    PROVE  IInv'
<1>1. Still
  BY DEF Still, docVars
<1>2. \A d : Proposals(d)' = Proposals(d)
  BY DEF Proposals
<1>3. page'[c] = t /\ up' = up /\ down' = down /\ registered' = registered /\ proposed' = proposed
  BY DEF netVars, IInv, ServersOK
<1>4. OthersSame(c)
  BY <1>2, <1>3 DEF OthersSame, IInv, ServersOK
<1>. QED
  BY <1>1, <1>2, <1>3, <1>4, OneClient

\* The user types a character, ...
LEMMA TypeStep ==
    ASSUME IInv, NEW c \in Client, Type(c)
    PROVE  IInv'
<1> DEFINE s == page[c]
<1>1. ClientOK(c, s, up[c], down[c], registered[c], Proposals(c)) /\ s \in PageType
  BY DEF IInv, ThisClientOK, ClientOK, PageOK
<1>2. PICK pos \in 0..Len(s.editor) :
         page' = [page EXCEPT ![c] = [s EXCEPT !.editor = InsertAt(s.editor, pos + 1, Letter[c])]]
  BY DEF Type, Update
<1>3. InsertAt(s.editor, pos + 1, Letter[c]) \in Seq(Char)
  BY <1>1, TypedText DEF PageType, Char
<1>4. typed' \in [Client -> 0..MaxTyped]
  <2>1. /\ typed \in [Client -> 0..MaxTyped] /\ typed[c] < MaxTyped /\ MaxTyped \in Nat
        /\ typed' = [typed EXCEPT ![c] = @ + 1]
    BY SystemAssumption DEF IInv, ServersOK, Type
  <2>2. typed[c] + 1 \in 0..MaxTyped
    BY <2>1
  <2>. QED
    BY <2>1, <2>2
<1> DEFINE text == InsertAt(s.editor, pos + 1, Letter[c])
           t == [s EXCEPT !.editor = text]
<1> HIDE DEF text
<1>5. ClientOK(c, t, up[c], down[c], registered[c], Proposals(c))
  BY <1>1, <1>3, EditedClient DEF Type, text
<1>. QED
  BY <1>2, <1>4, <1>5, PageAlone DEF Type, text

\* ... erases one, ...
LEMMA EraseStep ==
    ASSUME IInv, NEW c \in Client, Erase(c)
    PROVE  IInv'
<1> DEFINE s == page[c]
<1>1. ClientOK(c, s, up[c], down[c], registered[c], Proposals(c)) /\ s \in PageType
  BY DEF IInv, ThisClientOK, ClientOK, PageOK
<1>2. PICK pos \in DOMAIN s.editor :
         page' = [page EXCEPT ![c] = [s EXCEPT !.editor = RemoveAt(s.editor, pos)]]
  BY DEF Erase, Update
<1>3. RemoveAt(s.editor, pos) \in Seq(Char)
  BY <1>1, ErasedText DEF PageType
<1>4. typed' \in [Client -> 0..MaxTyped]
  BY DEF IInv, ServersOK, Erase
<1> DEFINE text == RemoveAt(s.editor, pos)
           t == [s EXCEPT !.editor = text]
<1> HIDE DEF text
<1>5. ClientOK(c, t, up[c], down[c], registered[c], Proposals(c))
  BY <1>1, <1>3, EditedClient DEF Erase, text
<1>. QED
  BY <1>2, <1>4, <1>5, PageAlone DEF Erase, text

\* ... or connects to a server.
LEMMA ConnectStep ==
    ASSUME IInv, Orderly, NEW c \in Client, NEW n \in Node, Connect(c, n)
    PROVE  IInv'
<1> DEFINE s == page[c]
           t == [s EXCEPT !.server = n, !.socket = "opening", !.ws = TRUE]
<1>1. /\ ClientOK(c, s, up[c], down[c], registered[c], Proposals(c))
      /\ PageOK(s) /\ ConnectionOK(c, s, up[c], down[c], registered[c])
      /\ SubmissionOK(c, s, up[c], Proposals(c)) /\ s \in PageType
  BY DEF IInv, ThisClientOK, ClientOK, PageOK
<1>2. s.socket \in {"none", "redirected"} /\ s.closing = 0
  BY <1>1 DEF Connect, Orderly, PageType
<1>3. page' = [page EXCEPT ![c] = t]
  BY <1>1 DEF Connect, Update, connectToServer, PageType
<1>4. /\ t.A = s.A /\ t.X = s.X /\ t.Y = s.Y /\ t.serverRev = s.serverRev
      /\ t.nextSubmissionId = s.nextSubmissionId /\ t.waitingForAck = s.waitingForAck
      /\ t.baseText = s.baseText /\ t.active = s.active /\ t.editor = s.editor
      /\ t.socket = "opening" /\ t.ws = TRUE /\ t.closing = s.closing
      /\ t \in PageType
  BY <1>1 DEF PageType
<1> HIDE DEF t
<1>5. Away(s, up[c], down[c], registered[c])
  BY <1>1, <1>2 DEF ConnectionOK, Asking, SentAway, Answered, Working, AtLeader, OneSocket
<1>6. PageOK(t)
  BY <1>1, <1>2, <1>4 DEF PageOK
<1>7. ConnectionOK(c, t, up[c], down[c], registered[c])
  BY <1>2, <1>4, <1>5 DEF ConnectionOK, Away
<1>8. SubmissionOK(c, t, up[c], Proposals(c))
  BY <1>1, <1>4, SubmissionKeeps
<1>9. typed' \in [Client -> 0..MaxTyped]
  BY DEF IInv, ServersOK, Connect, userVars
<1>. QED
  BY <1>3, <1>6, <1>7, <1>8, <1>9, PageAlone DEF Connect, ClientOK

\* The socket opens.
LEMMA OpenStep ==
    ASSUME IInv, Orderly, NEW c \in Client, Open(c)
    PROVE  IInv'
<1> DEFINE s == page[c]
           t == [s EXCEPT !.socket = "open"]
           u == <<ConnectMsg(s.serverRev)>>
           p == Proposals(c)
<1>1. /\ PageOK(s) /\ ConnectionOK(c, s, up[c], down[c], registered[c])
      /\ SubmissionOK(c, s, up[c], p) /\ s \in PageType /\ s.socket = "opening"
  BY DEF IInv, ThisClientOK, ClientOK, PageOK, Open
<1>2. Away(s, up[c], down[c], registered[c])
  BY <1>1 DEF ConnectionOK, Asking, SentAway, Answered, Working, AtLeader, OneSocket
<1>3. page' = [page EXCEPT ![c] = t] /\ up' = [up EXCEPT ![c] = u]
  BY <1>1, <1>2 DEF Open, Update, Away
<1>4. /\ t.A = s.A /\ t.X = s.X /\ t.Y = s.Y /\ t.serverRev = s.serverRev
      /\ t.nextSubmissionId = s.nextSubmissionId /\ t.waitingForAck = s.waitingForAck
      /\ t.baseText = s.baseText /\ t.active = s.active /\ t.editor = s.editor
      /\ t.socket = "open" /\ t.ws = s.ws /\ t.closing = s.closing
      /\ t \in PageType
  BY <1>1 DEF PageType
<1> HIDE DEF t
<1>5. PageOK(t)
  BY <1>1, <1>2, <1>4 DEF PageOK
<1>6. ConnectionOK(c, t, u, down[c], registered[c])
  BY <1>1, <1>2, <1>4 DEF ConnectionOK, Away, Asking, OneSocket
<1>7. SubmissionOK(c, t, u, p)
  <2>1. ~s.waitingForAck
    BY <1>1, <1>2 DEF PageOK, Away
  <2>. QED
    BY <1>1, <1>4, <2>1, NotWaiting
<1> HIDE DEF u
<1>8. Still /\ \A d : Proposals(d)' = Proposals(d)
  BY DEF Open, Still, docVars, Proposals
<1>9. OthersSame(c) /\ page'[c] = t /\ up'[c] = u /\ down'[c] = down[c] /\ registered'[c] = registered[c]
  BY <1>3, <1>8 DEF Open, IInv, ServersOK, OthersSame, userVars
<1>. QED
  BY <1>5, <1>6, <1>7, <1>8, <1>9, OneClient DEF ClientOK

\* The connection of a page with nothing outstanding ends.
LEMMA HangupStep ==
    ASSUME IInv, NEW c \in Client, NEW t, page' = [page EXCEPT ![c] = t], Hangup(c),
           UNCHANGED <<docVars, pending, leader, userVars>>,
           PageOK(t), ~page[c].waitingForAck, ~t.waitingForAck, ~t.active,
           t.socket \in {"none", "redirected"}, t.nextSubmissionId = page[c].nextSubmissionId,
           t.A # Null => page[c].A # Null /\ t.serverRev = page[c].serverRev
    PROVE  IInv'
<1> DEFINE s == page[c]
<1>1. SubmissionOK(c, s, up[c], Proposals(c)) /\ ServersOK
  BY DEF IInv, ThisClientOK, ClientOK
<1>2. Proposals(c) = {} /\ SubmissionOK(c, t, <<>>, {})
  <2> HIDE DEF s
  <2>1. Proposals(c) = {} /\ SubmissionOK(c, t, <<>>, Proposals(c))
    <3>1. /\ ~s.waitingForAck /\ t.nextSubmissionId = s.nextSubmissionId
          /\ t.A # Null => s.A # Null /\ t.serverRev = s.serverRev
      BY DEF s
    <3>. QED
      BY <1>1, <3>1, NotWaiting
  <2>. QED
    BY <2>1
<1>3. proposed' = proposed
  <2>1. \A e \in proposed : e.client # c
    BY <1>2 DEF Proposals
  <2>. QED
    BY <2>1 DEF Hangup
<1>4. Still /\ \A d : Proposals(d)' = Proposals(d)
  BY <1>3 DEF Still, docVars, Proposals
<1>5. OthersSame(c) /\ page'[c] = t /\ up'[c] = <<>> /\ down'[c] = <<>> /\ registered'[c] = "no"
  BY <1>1, <1>3, <1>4 DEF ServersOK, OthersSame, userVars, Hangup, Goto
<1>6. ConnectionOK(c, t, <<>>, <<>>, "no")
  BY DEF ConnectionOK, Away
<1>. QED
  BY <1>2, <1>4, <1>5, <1>6, OneClient DEF ClientOK

\* What the servers promise of a revision number.
LEMMA ServersAre ==
    ASSUME IInv
    PROVE  /\ fsm.headRev \in Nat /\ Len(results) = fsm.headRev
           /\ \A n \in Node : /\ applied[n] \in 0..fsm.headRev /\ applied[n] \in Nat
                              /\ Called(n) \in Nat
                              /\ IsRun(pending[n], results, Called(n), applied[n])
           /\ \A r \in 1..fsm.headRev : results[r] = Result(r)
<1>1. fsm.headRev \in Nat /\ DocumentOK /\ ServersOK
  BY DEF IInv, DocumentOK, Sound
<1>2. Len(results) \in Nat /\ 0 + Len(results) = fsm.headRev
      /\ \A i \in 1..Len(results) : results[i] = [r \in 1..fsm.headRev |-> Result(r)][0 + i]
  BY <1>1, LenProperties DEF DocumentOK, IsRun, IsSeq
<1>3. Len(results) = fsm.headRev
  BY <1>1, <1>2
<1>4. ASSUME NEW r \in 1..fsm.headRev PROVE results[r] = Result(r)
  <2>1. 0 + r = r /\ r \in 1..Len(results)
    BY <1>1, <1>3
  <2>. QED
    BY <1>2, <2>1
<1>5. ASSUME NEW n \in Node PROVE applied[n] \in 0..fsm.headRev /\ applied[n] \in Nat
  BY <1>1 DEF ServersOK
<1>. QED
  BY <1>1, <1>3, <1>4, <1>5 DEF ServersOK

\* Revisions that passed leave no trace: the text is the same, and nothing is
\* rebased over them.
LEMMA PassedBy ==
    ASSUME DocumentOK, NEW c, NEW k \in Nat, NEW p \in Nat, k <= p, Passed(c, k, p)
    PROVE  /\ TextAt(p) = TextAt(k)
           /\ \A X : Suits(TextAt(k), X) => CaughtUp(X, k, p) = X
<1> DEFINE T == {i \in Nat : k + i <= p =>
                   /\ TextAt(k + i) = TextAt(k) /\ (i # 0 => TextAt(k) = <<>>)
                   /\ \A X : Suits(TextAt(k), X) => CaughtUp(X, k, k + i) = X}
<1>1. 0 \in T
  <2>1. \A X : CaughtUp(X, k, k) = X
    BY CaughtUpStart DEF CaughtUp
  <2>. QED
    BY <2>1
<1>2. ASSUME NEW i \in T PROVE i + 1 \in T
  <2>1. SUFFICES ASSUME k + (i + 1) <= p
                 PROVE  /\ TextAt(k + (i + 1)) = TextAt(k) /\ TextAt(k) = <<>>
                        /\ \A X : Suits(TextAt(k), X) => CaughtUp(X, k, k + (i + 1)) = X
    OBVIOUS
  <2>2. /\ i \in Nat /\ k + (i + 1) = (k + i) + 1 /\ k + i \in Nat /\ k <= k + i
        /\ (k + i) + 1 \in k + 1..p
        /\ TextAt(k + i) = TextAt(k)
        /\ \A X : Suits(TextAt(k), X) => CaughtUp(X, k, k + i) = X
    BY <2>1
  <2> DEFINE N == fsm.revisionLog[(k + i) + 1].changeset
  <2>3. (k + i) + 1 \in nulls
    BY <2>2 DEF Passed
  <2>4. /\ isIdentity(N) /\ TextAt(k + i) = <<>> /\ TextAt((k + i) + 1) = <<>>
        /\ Suits(TextAt(k + i), N)
    BY <2>2, <2>3, EmptyRevision, RevisionIs
  <2> HIDE DEF N
  <2>5. ASSUME NEW X, Suits(TextAt(k), X) PROVE CaughtUp(X, k, (k + i) + 1) = X
    <3>1. CaughtUp(X, k, (k + i) + 1) = Follow(N, CaughtUp(X, k, k + i))
      BY <2>2, CaughtUpNext DEF CaughtUp, N
    <3>. QED
      BY <2>2, <2>4, <2>5, <3>1, EmptyFollow
  <2>. QED
    BY <2>2, <2>4, <2>5
<1> HIDE DEF T
<1>3. \A i \in Nat : i \in T
  <2>1. T \subseteq Nat
    BY DEF T
  <2>. QED
    BY <1>1, <1>2, <2>1, SetInduction
<1>4. p - k \in Nat /\ k + (p - k) = p
  OBVIOUS
<1>. QED
  BY <1>3, <1>4 DEF T

\* The next message of a page is about the next revision that it does not know.
LEMMA NextNews ==
    ASSUME IInv, NEW c, NEW s \in PageType, NEW d, NEW p, Told(c, s, d, p), d # <<>>
    PROVE  /\ p \in Nat /\ p + 1 \in 1..fsm.headRev /\ p + 1 \in Nat
           /\ Head(d) = News(c, p + 1)
           /\ IsRun(Tail(d), AllNews(c), p + 1, Called(s.server))
<1>1. s.serverRev \in Nat /\ s.server \in Node
  BY DEF PageType
<1>2. Called(s.server) \in Nat /\ fsm.headRev \in Nat /\ Called(s.server) <= fsm.headRev
  <2>1. /\ applied[s.server] \in 0..fsm.headRev /\ Called(s.server) \in Nat /\ fsm.headRev \in Nat
        /\ Called(s.server) + Len(pending[s.server]) = applied[s.server]
        /\ IsSeq(pending[s.server])
    BY <1>1, ServersAre DEF IsRun
  <2>2. Len(pending[s.server]) \in Nat
    BY <2>1, LenProperties DEF IsSeq
  <2>. QED
    BY <2>1, <2>2
<1>3. IsRun(d, AllNews(c), p, Called(s.server)) /\ p \in Nat
  BY <1>1, <1>2 DEF Told
<1>4. /\ p + 1 <= Called(s.server) /\ Head(d) = AllNews(c)[p + 1]
      /\ IsRun(Tail(d), AllNews(c), p + 1, Called(s.server))
  BY <1>1, <1>2, <1>3, RunHead
<1>. QED
  BY <1>1, <1>2, <1>3, <1>4 DEF AllNews

\* If all revisions have operations, the page knows them up to serverRev.
LEMMA AllTold ==
    ASSUME nulls = {}, NEW c, NEW s \in PageType, NEW u, NEW d, NEW g, Working(c, s, u, d, g)
    PROVE  Told(c, s, d, s.serverRev)
<1>1. PICK p \in Nat : Told(c, s, d, p)
  BY DEF Working
<1>2. p = s.serverRev
  <2>1. s.serverRev \in Nat /\ s.serverRev <= p
    BY <1>1 DEF PageType, Told
  <2>2. SUFFICES ASSUME s.serverRev < p PROVE FALSE
    BY <2>1
  <2>3. p \in s.serverRev + 1..p
    BY <2>1, <2>2
  <2>. QED
    BY <1>1, <2>3 DEF Told, Passed
<1>. QED
  BY <1>1, <1>2

\* The page is sent to another server.
LEMMA ReceiveRedirectStep ==
    ASSUME IInv, NEW c \in Client, ReceiveRedirect(c)
    PROVE  IInv'
<1> DEFINE s == page[c]
           u == up[c]
           d == down[c]
           g == registered[c]
           m == Head(d)
           n == IF m.to = None THEN s.server ELSE m.to
           t == [s EXCEPT !.server = n, !.socket = "redirected", !.closing = s.closing + 1]
<1>1. /\ PageOK(s) /\ ConnectionOK(c, s, u, d, g) /\ s \in PageType
      /\ s.socket = "open" /\ d # <<>> /\ m.type = "REDIRECT"
      /\ page' = [page EXCEPT ![c] = t]
  BY DEF IInv, ThisClientOK, ClientOK, PageOK, PageType, ReceiveRedirect, Update, handleRedirect
<1> HIDE DEF s, u, d, g
<1>2. SentAway(s, u, d, g)
  <2>1. ~Away(s, u, d, g) /\ ~Asking(s, u, d, g)
    BY <1>1 DEF Away, Asking
  <2>2. ~Answered(c, s, u, d, g)
    BY <1>1 DEF Answered, ConnectAckMsg
  <2>3. ~Working(c, s, u, d, g)
    <3>1. SUFFICES ASSUME Working(c, s, u, d, g) PROVE FALSE
      OBVIOUS
    <3>2. \E p : Head(d) = News(c, p + 1)
      BY <1>1, <3>1, NextNews DEF Working
    <3>3. Head(d).type # "REDIRECT"
      BY <3>2 DEF News, AckMsg, BroadcastMsg
    <3>. QED
      BY <1>1, <3>3
  <2>. QED
    BY <1>1, <2>1, <2>2, <2>3 DEF ConnectionOK
<1>3. /\ t.A = s.A /\ t.X = s.X /\ t.Y = s.Y /\ t.serverRev = s.serverRev
      /\ t.nextSubmissionId = s.nextSubmissionId /\ t.waitingForAck = s.waitingForAck
      /\ t.baseText = s.baseText /\ t.active = s.active /\ t.editor = s.editor
      /\ t.socket = "redirected"
      /\ t \in PageType
  <2>1. n \in Node
    BY <1>1, <1>2 DEF PageType, SentAway
  <2>2. s.closing + 1 \in Nat
    BY <1>1 DEF PageType
  <2> HIDE DEF n, m
  <2>. QED
    BY <1>1, <2>1, <2>2 DEF PageType
<1> HIDE DEF t
<1>4. PageOK(t) /\ ~s.waitingForAck /\ ~t.waitingForAck /\ ~t.active
  BY <1>1, <1>2, <1>3 DEF PageOK, SentAway
<1>. QED
  BY <1>1, <1>3, <1>4, HangupStep DEF ReceiveRedirect, s

\* The connection is lost with nothing outstanding.
LEMMA DisconnectStep ==
    ASSUME IInv, Orderly, NEW c \in Client, Disconnect(c)
    PROVE  IInv'
<1> DEFINE s == page[c]
           u == up[c]
           d == down[c]
           g == registered[c]
           t == [s EXCEPT !.socket = "none", !.ws = FALSE, !.active = FALSE]
<1>1. /\ PageOK(s) /\ ConnectionOK(c, s, u, d, g) /\ s \in PageType
      /\ s.socket \in {"opening", "open"}
      /\ page' = [page EXCEPT ![c] = t]
      /\ ~s.waitingForAck /\ s.editor = s.baseText
  BY DEF IInv, ThisClientOK, ClientOK, PageOK, PageType, Disconnect, Update, onWsClose, Orderly,
         Allowed, Settled, Idle
<1> HIDE DEF s, u, d, g
<1>2. s.closing = 0
  BY <1>1 DEF ConnectionOK, Away, Asking, SentAway, Answered, Working, AtLeader, OneSocket
<1>3. /\ t.A = s.A /\ t.X = s.X /\ t.Y = s.Y /\ t.serverRev = s.serverRev
      /\ t.nextSubmissionId = s.nextSubmissionId /\ t.waitingForAck = s.waitingForAck
      /\ t.baseText = s.baseText /\ t.active = FALSE /\ t.editor = s.editor
      /\ t.socket = "none" /\ t.closing = 0
      /\ t \in PageType
  BY <1>1, <1>2 DEF PageType
<1> HIDE DEF t
<1>4. PageOK(t)
  BY <1>1, <1>3 DEF PageOK
<1>. QED
  BY <1>1, <1>3, <1>4, HangupStep DEF Disconnect, s

\* The page is loaded again with nothing outstanding.
LEMMA ReloadStep ==
    ASSUME IInv, Orderly, NEW c \in Client, Reload(c)
    PROVE  IInv'
<1> DEFINE s == page[c]
           t == NewPage(s.nextSubmissionId, s.server)
<1>1. /\ s \in PageType /\ page' = [page EXCEPT ![c] = t] /\ ~s.waitingForAck
  BY DEF IInv, ThisClientOK, ClientOK, PageOK, Reload, Update, Orderly, Allowed, Idle
<1> HIDE DEF s
<1>2. t \in PageType
  BY <1>1, EmptySeq DEF PageType, NewPage
<1>3. /\ t.A = Null /\ t.X = Null /\ t.serverRev = 0 /\ t.nextSubmissionId = s.nextSubmissionId
      /\ ~t.waitingForAck /\ t.baseText = t.editor /\ ~t.active /\ t.socket = "none" /\ t.closing = 0
  BY DEF NewPage
<1> HIDE DEF t
<1>4. PageOK(t)
  BY <1>2, <1>3 DEF PageOK
<1>. QED
  BY <1>1, <1>3, <1>4, HangupStep DEF Reload, s

\* No close event is late.
LEMMA LateCloseStep ==
    ASSUME IInv, NEW c \in Client, LateClose(c)
    PROVE  IInv'
<1> DEFINE s == page[c]
           u == up[c]
           d == down[c]
           g == registered[c]
           t == [s EXCEPT !.closing = s.closing - 1, !.ws = FALSE, !.active = FALSE]
<1>1. /\ PageOK(s) /\ ConnectionOK(c, s, u, d, g) /\ SubmissionOK(c, s, u, Proposals(c))
      /\ s \in PageType /\ s.closing > 0
      /\ page' = [page EXCEPT ![c] = t]
  BY DEF IInv, ThisClientOK, ClientOK, PageOK, PageType, LateClose, Update, onWsClose
<1>2. typed' \in [Client -> 0..MaxTyped]
  BY DEF IInv, ServersOK, LateClose, userVars
<1> HIDE DEF s, u, d, g
<1>3. Away(s, u, d, g) /\ s.socket = "redirected"
  BY <1>1 DEF ConnectionOK, Away, Asking, SentAway, Answered, Working, AtLeader, OneSocket, PageOK, PageType
<1>4. /\ t.A = s.A /\ t.X = s.X /\ t.Y = s.Y /\ t.serverRev = s.serverRev
      /\ t.nextSubmissionId = s.nextSubmissionId /\ t.waitingForAck = s.waitingForAck
      /\ t.baseText = s.baseText /\ t.active = FALSE /\ t.editor = s.editor
      /\ t.socket = "redirected"
      /\ t \in PageType
  <2>1. s.closing - 1 \in Nat
    BY <1>1 DEF PageType
  <2>. QED
    BY <1>1, <1>3, <2>1 DEF PageType
<1> HIDE DEF t
<1>5. PageOK(t)
  BY <1>1, <1>3, <1>4 DEF PageOK, Away
<1>6. ConnectionOK(c, t, u, d, g)
  BY <1>3, <1>4 DEF ConnectionOK, Away
<1>7. SubmissionOK(c, t, u, Proposals(c))
  BY <1>1, <1>4, SubmissionKeeps
<1>. QED
  BY <1>1, <1>2, <1>5, <1>6, <1>7, PageAlone DEF LateClose, ClientOK, s, u, d, g

\* A node that has applied all entries knows the head revision.
LEMMA AtTheHead ==
    ASSUME IInv, NEW n, applied[n] = fsm.headRev
    PROVE  HeadRev(n) = fsm.headRev
<1>1. fsm.headRev \in Nat
  BY ServersAre
<1>2. fsm.headRev # 0 => results[fsm.headRev] = Result(fsm.headRev)
  BY <1>1, ServersAre
<1>. QED
  BY <1>2 DEF Result, HeadRev

\* The servers read a CONNECT.
LEMMA RegisterStep ==
    ASSUME IInv, Orderly, NEW c \in Client, Register(c)
    PROVE  IInv'
<1> DEFINE s == page[c]
           u == up[c]
           d == down[c]
<1>1. /\ PageOK(s) /\ ConnectionOK(c, s, u, d, "no") /\ SubmissionOK(c, s, u, Proposals(c))
      /\ s \in PageType /\ u # <<>> /\ registered[c] = "no"
  BY DEF IInv, ThisClientOK, ClientOK, PageOK, Register, Reads
<1>2. pending[s.server] = <<>> /\ applied[s.server] = fsm.headRev
  BY ServersAre DEF Register, Orderly, Allowed
<1>7. "behind" \notin Races => Head(u).rev \in {0, fsm.headRev, fsm.headRev - 1}
  <2>1. HeadRev(s.server) = fsm.headRev
    BY <1>2, AtTheHead
  <2>. QED
    BY <2>1 DEF Register, Allowed
<1>3. OthersSame(c) /\ page'[c] = s /\ up'[c] = u /\ down'[c] = d /\ registered'[c] = "connecting"
      /\ Proposals(c)' = Proposals(c) /\ Still
  BY DEF Register, Goto, OthersSame, IInv, ServersOK, Still, docVars, userVars, Proposals
<1> HIDE DEF s, u, d
<1>4. ConnectionOK(c, s, u, d, "connecting")
  <2>1. Asking(s, u, d, "no")
    BY <1>1 DEF ConnectionOK, Away, SentAway, Answered, Working, AtLeader
  <2>2. Head(u).rev = s.serverRev
    <3>1. u = <<ConnectMsg(s.serverRev)>>
      BY <2>1 DEF Asking
    <3>2. \A m : Head(<<m>>) = m
      OBVIOUS
    <3>. QED
      BY <3>1, <3>2 DEF ConnectMsg
  <2>3. Near(s, fsm.headRev)
    <3>1. s.serverRev \in Nat /\ fsm.headRev \in Nat
      BY <1>1, ServersAre DEF PageType
    <3>. QED
      BY <1>7, <2>2, <3>1 DEF Near
  <2>. QED
    BY <1>2, <2>1, <2>3 DEF Asking, ConnectionOK
<1>. QED
  BY <1>1, <1>3, <1>4, OneClient DEF ClientOK

\* They answer it.
LEMMA AnswerConnectStep ==
    ASSUME IInv, Orderly, NEW c \in Client, AnswerConnect(c)
    PROVE  IInv'
<1> DEFINE s == page[c]
           u == up[c]
           d == down[c]
           p == Proposals(c)
           n == s.server
<1>1. /\ PageOK(s) /\ ConnectionOK(c, s, u, d, "connecting") /\ SubmissionOK(c, s, u, p)
      /\ s \in PageType /\ registered[c] = "connecting"
  BY DEF IInv, ThisClientOK, ClientOK, PageOK, AnswerConnect
<1>2. /\ OthersSame(c) /\ page'[c] = s /\ registered'[c] = "yes" /\ up'[c] = Tail(u)
      /\ Proposals(c)' = p /\ Still
      /\ IF leader \notin {n, None} THEN down'[c] = Append(d, RedirectMsg(leader))
         ELSE leader = n /\ down'[c] = Append(d, ConnectAckMsg(Head(u).rev, HeadRev(n)))
  <2>1. \/ /\ leader \notin {n, None} /\ Reply(c, RedirectMsg(leader))
        \/ /\ leader = n /\ Reply(c, ConnectAckMsg(Head(u).rev, HeadRev(n)))
    BY SystemAssumption, <1>1 DEF AnswerConnect, Allowed, Orderly, PageType
  <2>2. /\ DOMAIN page = Client /\ DOMAIN up = Client /\ DOMAIN down = Client
        /\ DOMAIN registered = Client
        /\ typed \in [Client -> 0..MaxTyped] /\ \A e \in proposed : e.client \in Client
    BY DEF IInv, ServersOK
  <2>3. /\ page' = page /\ up' = [up EXCEPT ![c] = Tail(u)]
        /\ registered' = [registered EXCEPT ![c] = "yes"] /\ proposed' = proposed /\ typed' = typed
    BY DEF AnswerConnect, Goto, userVars
  <2>4. Still
    BY DEF AnswerConnect, Still, docVars
  <2>5. \E m : down' = [down EXCEPT ![c] = Append(d, m)]
    BY <2>1 DEF Reply
  <2>6. OthersSame(c)
    BY <2>2, <2>3, <2>5 DEF OthersSame, Proposals
  <2>. QED
    BY <2>1, <2>2, <2>3, <2>4, <2>6 DEF Reply, Proposals
<1> HIDE DEF s, u, d, p
<1>3. Asking(s, u, d, "connecting")
  BY <1>1 DEF ConnectionOK, Away, SentAway, Answered, Working, AtLeader
<1>4. /\ d = <<>> /\ Tail(u) = <<>> /\ Head(u).rev = s.serverRev
      /\ \A m : Append(d, m) = <<m>> /\ Head(<<m>>) = m /\ Tail(<<m>>) = <<>> /\ <<m>> # <<>> /\ IsSeq(<<m>>)
  <2>1. d = <<>> /\ u = <<ConnectMsg(s.serverRev)>>
    BY <1>3 DEF Asking
  <2>2. ASSUME NEW m
        PROVE  /\ Append(<<>>, m) = <<m>> /\ Head(<<m>>) = m /\ Tail(<<m>>) = <<>>
               /\ <<m>> # <<>> /\ IsSeq(<<m>>)
    <3>1. <<m>> \in Seq({m})
      OBVIOUS
    <3>2. IsSeq(<<m>>)
      BY <3>1, OfSet
    <3>. QED
      BY <3>2
  <2>3. Head(u).rev = s.serverRev
    BY <2>1, <2>2 DEF ConnectMsg
  <2>. QED
    BY <2>1, <2>2, <2>3
<1>5. ~s.waitingForAck
  BY <1>1, <1>3 DEF PageOK, Asking
<1>6. SubmissionOK(c, s, Tail(u), p)
  BY <1>1, <1>5, NotWaiting
<1>7. CASE leader \notin {n, None}
  <2>1. down'[c] = <<RedirectMsg(leader)>>
    BY <1>2, <1>4, <1>7
  <2>2. leader \in Node
    BY <1>7 DEF IInv, ServersOK
  <2>3. SentAway(s, Tail(u), down'[c], "yes")
    BY <1>3, <1>4, <2>1, <2>2 DEF SentAway, Asking, RedirectMsg
  <2>. QED
    BY <1>1, <1>2, <1>6, <2>3, OneClient DEF ClientOK, ConnectionOK
<1>8. CASE leader \in {n, None}
  <2>1. leader = n /\ applied[n] = fsm.headRev /\ pending[n] = <<>> /\ n \in Node
    BY <1>1, <1>2, <1>3, <1>8 DEF Asking, PageType
  <2>2. HeadRev(n) = fsm.headRev
    BY <2>1, AtTheHead
  <2>3. down'[c] = <<ConnectAckMsg(s.serverRev, fsm.headRev)>>
    BY <1>2, <1>4, <1>8, <2>2
  <2>4. Called(n) = fsm.headRev
    <3>1. fsm.headRev \in Nat /\ Called(n) \in Nat /\ IsRun(<<>>, results, Called(n), fsm.headRev)
      BY <2>1, ServersAre
    <3>. QED
      BY <3>1, RunEmpty
  <2>5. s.serverRev \in 0..fsm.headRev
    BY <1>1, ServersAre DEF PageOK, PageType
  <2>6. AtLeader(s, "yes")
    BY <1>3, <2>1 DEF AtLeader, Asking
  <2>7. Answered(c, s, Tail(u), down'[c], "yes")
    <3>1. IsRun(<<>>, AllNews(c), fsm.headRev, Called(n)) /\ NoneOwn(c, fsm.headRev)
      BY <2>4, ServersAre, RunEmpty DEF NoneOwn
    <3>2. fsm.headRev \in s.serverRev..fsm.headRev
      BY <2>5, ServersAre
    <3>3. Near(s, fsm.headRev)
      BY <1>1, <1>2, <1>3, <1>8 DEF Asking
    <3>. QED
      BY <1>3, <1>4, <2>3, <2>6, <3>1, <3>2, <3>3 DEF Answered, Asking
  <2>. QED
    BY <1>1, <1>2, <1>6, <2>7, OneClient DEF ClientOK, ConnectionOK
<1>. QED
  BY <1>7, <1>8

\* A sequence of one message.
LEMMA OneInSeq == \A m : /\ Append(<<>>, m) = <<m>> /\ Head(<<m>>) = m /\ Tail(<<m>>) = <<>>
                         /\ <<m>> # <<>> /\ Len(<<m>>) = 1 /\ <<m>>[1] = m /\ DOMAIN <<m>> = {1}
OBVIOUS

\* What the page submits is X at its revision.
LEMMA SubmissionLeaves ==
    ASSUME NEW c, NEW s, s.serverRev \in Nat, Suits(TextAt(s.serverRev), s.X), s.X \in CharChangeset,
           NoneOwn(c, s.serverRev)
    PROVE  OnItsWay(c, s, <<SubmitMsg(s)>>, {})
<1> DEFINE m == Submission(s)
           u == <<SubmitMsg(s)>>
<1>1. m.sub = s.nextSubmissionId /\ m.base = s.serverRev /\ m.changeset = s.X
  BY DEF Submission
<1>2. CaughtUp(s.X, s.serverRev, s.serverRev) = s.X
  BY CaughtUpStart DEF CaughtUp
<1>3. u = <<[type |-> "SUBMIT", submission |-> m]>>
  BY DEF SubmitMsg
<1> HIDE DEF m
<1>4. IsSubmission(s, m.sub, m.base, m.changeset)
  BY <1>1, <1>2 DEF IsSubmission
<1>5. Len(u) = 1 /\ u[1].submission = m
  BY <1>3
<1> HIDE DEF u
<1>. QED
  BY <1>3, <1>4, <1>5 DEF OnItsWay, u

\* A page that stands at a revision is in order.
LEMMA StandsOK ==
    ASSUME NEW s, NEW r \in Nat, r <= fsm.headRev, Stands(s, TextAt(r)), s.serverRev = r,
           ~s.waitingForAck => isIdentity(s.X), s.active, s.socket # "none"
    PROVE  PageOK(s) /\ s.A # Null
BY StandsIs DEF PageOK, Stands

\* A page that works stands at its revision.
LEMMA WorkingStands ==
    ASSUME NEW c, NEW s, NEW u, NEW d, NEW g, PageOK(s), Working(c, s, u, d, g)
    PROVE  /\ Stands(s, TextAt(s.serverRev)) /\ s.serverRev \in Nat /\ s.serverRev <= fsm.headRev
           /\ s.active /\ s.socket = "open" /\ s.A # Null /\ s.X \in CharChangeset
           /\ ~s.waitingForAck => isIdentity(s.X)
BY DEF PageOK, PageType, Working, AtLeader, OneSocket, Stands

\* The page submits what is new.
LEMMA TickStep ==
    ASSUME IInv, NEW c \in Client, Tick(c)
    PROVE  IInv'
<1> DEFINE s == page[c]
           u == up[c]
           d == down[c]
           g == registered[c]
           t == MoveToX(s)
           v == <<SubmitMsg(t)>>
<1>1. /\ PageOK(s) /\ ConnectionOK(c, s, u, d, g) /\ SubmissionOK(c, s, u, Proposals(c))
      /\ s \in PageType /\ s.active /\ ~s.waitingForAck
  BY DEF IInv, ThisClientOK, ClientOK, PageOK, Tick, MayTick
<1>2. Working(c, s, u, d, g)
  BY <1>1, ActiveWorks
<1>3. u = <<>> /\ Proposals(c) = {}
  BY <1>1, <1>2 DEF Working, SubmissionOK
<1>4. Append(u, SubmitMsg(t)) = v
  <2> HIDE DEF t, u
  <2>. QED
    BY <1>3, OneInSeq
<1>5. /\ OthersSame(c) /\ page'[c] = t /\ up'[c] = v /\ down'[c] = d /\ registered'[c] = g
      /\ Proposals(c)' = {} /\ Still
  <2>1. page' = [page EXCEPT ![c] = t] /\ up' = [up EXCEPT ![c] = v]
    BY <1>4 DEF Tick, Update
  <2>2. /\ DOMAIN page = Client /\ DOMAIN up = Client /\ DOMAIN down = Client
        /\ DOMAIN registered = Client
        /\ typed \in [Client -> 0..MaxTyped] /\ \A e \in proposed : e.client \in Client
    BY DEF IInv, ServersOK
  <2>3. down' = down /\ registered' = registered /\ proposed' = proposed /\ typed' = typed /\ Still
    BY DEF Tick, userVars, docVars, Still
  <2> HIDE DEF t, v, s, u, d, g
  <2>4. Proposals(c)' = {} /\ \A b : Proposals(b)' = Proposals(b)
    BY <1>3, <2>3 DEF Proposals
  <2>. QED
    BY <2>1, <2>2, <2>3, <2>4 DEF OthersSame, d, g
<1> HIDE DEF s, u, d, g
<1>6. Stands(s, TextAt(s.serverRev)) /\ isIdentity(s.X) /\ s.serverRev \in Nat /\ s.serverRev <= fsm.headRev
  BY <1>1, <1>2, WorkingStands
<1>7. /\ Stands(t, TextAt(s.serverRev)) /\ t.waitingForAck /\ t.serverRev = s.serverRev
      /\ t.nextSubmissionId = s.nextSubmissionId + 1 /\ t.active = s.active /\ SameSocket(t, s)
  BY <1>6, MoveStands
<1> HIDE DEF t
<1>8. PageOK(t) /\ t.A # Null
  BY <1>1, <1>2, <1>6, <1>7, StandsOK DEF Working, AtLeader, OneSocket, SameSocket
<1>9. ConnectionOK(c, t, v, d, g)
  <2>1. \A x : Told(c, s, d, x) => Told(c, t, d, x)
    BY <1>7 DEF Told, SameSocket
  <2>2. \E x \in Nat : Told(c, t, d, x)
    BY <1>2, <2>1 DEF Working
  <2>. QED
    BY <1>2, <1>7, <1>8, <2>2 DEF ConnectionOK, Working, AtLeader, OneSocket, SameSocket
<1>10. SubmissionOK(c, t, v, {})
  <2>1. NoneOwn(c, t.serverRev)
    BY <1>1, <1>2, <1>7 DEF SubmissionOK, Working
  <2>2. Suits(TextAt(t.serverRev), t.X) /\ t.X \in CharChangeset
    BY <1>7, StandsIs DEF Stands
  <2>3. OnItsWay(c, t, v, {})
    BY <1>6, <1>7, <2>1, <2>2, SubmissionLeaves
  <2>4. /\ fsm.clientLastSubmission[c] \in Int /\ fsm.clientLastSubmission[c] <= s.nextSubmissionId
        /\ s.nextSubmissionId \in Nat
    BY <1>1 DEF IInv, DocumentOK, SubmissionOK, PageType
  <2>. QED
    BY <1>7, <2>3, <2>4 DEF SubmissionOK, Waiting
<1>. QED
  BY <1>5, <1>8, <1>9, <1>10, OneClient DEF ClientOK

\* A committed submission is still under way: its callback has not run, or its
\* acknowledgement has not been handled.
LEMMA CommittedUnderWay ==
    ASSUME IInv, NEW c \in Client, PageOK(page[c]), NEW u, NEW g,
           Working(c, page[c], u, down[c], g),
           NEW r \in page[c].serverRev + 1..fsm.headRev, fsm.revisionLog[r].source = c
    PROVE  UnderWay(c)
<1> DEFINE s == page[c]
           d == down[c]
           n == s.server
           k == Called(n)
<1>1. n \in Node /\ s.serverRev \in Nat
  BY DEF PageOK, PageType
<1>2. /\ applied[n] = fsm.headRev /\ fsm.headRev \in Nat
  BY ServersAre DEF Working, AtLeader
<1>0. PICK p \in Nat : Told(c, s, d, p)
  BY DEF Working
<1>3. k \in Nat /\ IsRun(pending[n], results, k, fsm.headRev)
  BY <1>1, <1>2, ServersAre
<1>4. r \in Nat /\ r \in 1..fsm.headRev /\ p < r
  <2>1. r \in Nat /\ r \in 1..fsm.headRev /\ r \in s.serverRev + 1..fsm.headRev
    BY <1>1, <1>2
  <2>2. r \notin s.serverRev + 1..p
    BY <1>0 DEF Told, Passed
  <2>. QED
    BY <1>1, <2>1, <2>2
<1>7. IsRun(d, AllNews(c), p, k)
  BY <1>0 DEF Told
<1> HIDE DEF s, k, n
<1>5. CASE r <= k
  <2> DEFINE i == r - p
  <2>1. /\ IsSeq(d) /\ p + Len(d) = k /\ \A j \in 1..Len(d) : d[j] = AllNews(c)[p + j]
    BY <1>7 DEF IsRun
  <2>2. Len(d) \in Nat /\ DOMAIN d = 1..Len(d)
    BY <2>1, LenProperties DEF IsSeq
  <2>3. i \in 1..Len(d) /\ p + i = r
    BY <1>3, <1>4, <1>5, <2>1, <2>2
  <2>4. d[i] = AllNews(c)[r]
    BY <2>1, <2>3
  <2>5. d[i] = AckMsg(r)
    BY <1>4, <2>4 DEF AllNews, News
  <2>6. d[i] \in ToSet(d) /\ d[i].type = "ACK"
    BY <2>2, <2>3, <2>5 DEF ToSet, AckMsg
  <2>. QED
    BY <2>6 DEF UnderWay
<1>6. CASE k < r
  <2> DEFINE q == pending[n]
             i == r - k
  <2>1. IsSeq(q) /\ k + Len(q) = fsm.headRev /\ \A j \in 1..Len(q) : q[j] = results[k + j]
    BY <1>3 DEF IsRun
  <2>2. Len(q) \in Nat /\ DOMAIN q = 1..Len(q)
    BY <2>1, LenProperties DEF IsSeq
  <2>3. i \in 1..Len(q) /\ k + i = r
    BY <1>3, <1>4, <1>6, <2>1, <2>2
  <2>4. q[i] = Result(r)
    <3>1. results[r] = Result(r)
      BY <1>4, ServersAre
    <3>. QED
      BY <2>1, <2>3, <3>1
  <2>5. q[i] \in ToSet(q) /\ q[i].client = c
    BY <2>2, <2>3, <2>4 DEF ToSet, Result
  <2>. QED
    BY <1>1, <2>5 DEF UnderWay
<1>. QED
  BY <1>3, <1>4, <1>5, <1>6

\* It submits it again, when the submission is lost.
LEMMA RetryStep ==
    ASSUME IInv, Orderly, NEW c \in Client, Retry(c)
    PROVE  IInv'
<1> DEFINE s == page[c]
           u == up[c]
           d == down[c]
           g == registered[c]
           p == Proposals(c)
           v == <<SubmitMsg(s)>>
<1>1. /\ PageOK(s) /\ ConnectionOK(c, s, u, d, g) /\ SubmissionOK(c, s, u, p)
      /\ s \in PageType /\ s.active /\ s.waitingForAck
  BY DEF IInv, ThisClientOK, ClientOK, PageOK, Retry, MayTick
<1>2. Working(c, s, u, d, g)
  BY <1>1, ActiveWorks
<1>3. ~UnderWay(c)
  BY DEF Retry, Allowed, Orderly
<1>4. ~OnItsWay(c, s, u, p)
  <2>1. ASSUME NEW m, u = <<[type |-> "SUBMIT", submission |-> m]>> PROVE UnderWay(c)
    <3>1. u[1] \in ToSet(u) /\ u[1].type = "SUBMIT"
      BY <2>1, OneInSeq DEF ToSet
    <3>. QED
      BY <3>1 DEF UnderWay
  <2>. QED
    BY <1>3, <2>1 DEF OnItsWay
<1>5. ~Proposed(c, s, u, p)
  BY <1>3 DEF Proposed, Proposals, UnderWay
<1>6. ~Committed(c, s, u, p)
  BY <1>1, <1>2, <1>3, CommittedUnderWay DEF Committed
<1>7. Unsent(c, s, u, p) /\ fsm.clientLastSubmission[c] < s.nextSubmissionId
  BY <1>1, <1>4, <1>5, <1>6 DEF SubmissionOK, Waiting
<1>8. u = <<>> /\ p = {} /\ NoneOwn(c, s.serverRev)
  BY <1>7 DEF Unsent
<1>9. Append(u, SubmitMsg(s)) = v
  <2> HIDE DEF u, s
  <2>. QED
    BY <1>8, OneInSeq
<1>10. /\ OthersSame(c) /\ page'[c] = s /\ up'[c] = v /\ down'[c] = d /\ registered'[c] = g
       /\ Proposals(c)' = {} /\ Still
  <2>1. up' = [up EXCEPT ![c] = v]
    BY <1>9 DEF Retry
  <2>2. /\ DOMAIN page = Client /\ DOMAIN up = Client /\ DOMAIN down = Client
        /\ DOMAIN registered = Client
        /\ typed \in [Client -> 0..MaxTyped] /\ \A e \in proposed : e.client \in Client
    BY DEF IInv, ServersOK
  <2>3. page' = page /\ down' = down /\ registered' = registered /\ proposed' = proposed
        /\ typed' = typed /\ Still
    BY DEF Retry, userVars, docVars, Still
  <2> HIDE DEF v, s, u, d, g
  <2>4. Proposals(c)' = {} /\ \A b : Proposals(b)' = Proposals(b)
    BY <1>8, <2>3 DEF Proposals
  <2>. QED
    BY <2>1, <2>2, <2>3, <2>4 DEF OthersSame, s, d, g
<1> HIDE DEF s, u, d, g, p
<1>11. ConnectionOK(c, s, v, d, g)
  BY <1>1, <1>2 DEF ConnectionOK, Working
<1>12. SubmissionOK(c, s, v, {})
  <2>1. Stands(s, TextAt(s.serverRev)) /\ s.serverRev \in Nat /\ s.X \in CharChangeset
    BY <1>1, <1>2, WorkingStands
  <2>2. OnItsWay(c, s, v, {})
    BY <1>8, <2>1, SubmissionLeaves DEF Stands
  <2>. QED
    BY <1>1, <1>7, <2>2 DEF SubmissionOK, Waiting
<1>. QED
  BY <1>1, <1>10, <1>11, <1>12, OneClient DEF ClientOK

\* The leader reads a submission and proposes it.
LEMMA SubmitStep ==
    ASSUME IInv, OneByte, NEW c \in Client, Submit(c)
    PROVE  IInv'
<1> DEFINE s == page[c]
           u == up[c]
           d == down[c]
           g == registered[c]
           p == Proposals(c)
           m == Head(u).submission
           e == [client |-> c, sub |-> m.sub, base |-> m.base,
                 changeset |-> Decoded(m.changeset), waiting |-> TRUE]
<1>1. /\ PageOK(s) /\ ConnectionOK(c, s, u, d, g) /\ SubmissionOK(c, s, u, p)
      /\ s \in PageType /\ u # <<>> /\ Head(u).type = "SUBMIT"
  BY DEF IInv, ThisClientOK, ClientOK, PageOK, Submit, Reads
<1>2. Working(c, s, u, d, g)
  <2>1. ~Away(s, u, d, g) /\ ~SentAway(s, u, d, g) /\ ~Answered(c, s, u, d, g)
    BY <1>1 DEF Away, SentAway, Answered
  <2>2. ~Asking(s, u, d, g)
    <3>1. SUFFICES ASSUME u = <<ConnectMsg(s.serverRev)>> PROVE FALSE
      BY DEF Asking
    <3>2. Head(u).type = "CONNECT"
      BY <3>1, OneInSeq DEF ConnectMsg
    <3>. QED
      BY <1>1, <3>2
  <2>. QED
    BY <1>1, <2>1, <2>2 DEF ConnectionOK
<1>3. s.waitingForAck /\ OnItsWay(c, s, u, p) /\ fsm.clientLastSubmission[c] < s.nextSubmissionId
  BY <1>1, <1>2 DEF Working, SubmissionOK, Waiting, Unsent, Proposed, Committed
<1>4. /\ IsSubmission(s, m.sub, m.base, m.changeset) /\ Tail(u) = <<>>
      /\ p = {} /\ NoneOwn(c, s.serverRev)
  <2>1. PICK x : /\ u = <<[type |-> "SUBMIT", submission |-> x]>>
                 /\ IsSubmission(s, x.sub, x.base, x.changeset)
    BY <1>3 DEF OnItsWay
  <2>2. Head(u) = [type |-> "SUBMIT", submission |-> x] /\ Tail(u) = <<>>
    BY <2>1, OneInSeq
  <2>. QED
    BY <1>3, <2>1, <2>2 DEF OnItsWay
<1>5. Decoded(m.changeset) = m.changeset /\ Validate(m.changeset)
  BY <1>4, DecodedIs, SuitsIsValid DEF IsSubmission
<1>6. leader = s.server
  BY <1>2 DEF Working, AtLeader
<1>7. proposed' = proposed \cup {e} /\ down' = down
  BY <1>5, <1>6 DEF Submit
<1>8. /\ e.client = c /\ e.sub = m.sub /\ e.base = m.base /\ e.changeset = m.changeset
  BY <1>5
<1>9. /\ OthersSame(c) /\ page'[c] = s /\ up'[c] = <<>> /\ down'[c] = d /\ registered'[c] = g
      /\ Proposals(c)' = {e} /\ Still
  <2>1. up' = [up EXCEPT ![c] = <<>>]
    BY <1>4 DEF Submit
  <2>2. /\ DOMAIN page = Client /\ DOMAIN up = Client /\ DOMAIN down = Client
        /\ DOMAIN registered = Client
        /\ typed \in [Client -> 0..MaxTyped] /\ \A x \in proposed : x.client \in Client
    BY DEF IInv, ServersOK
  <2>3. page' = page /\ registered' = registered /\ typed' = typed /\ Still
    BY DEF Submit, userVars, docVars, Still
  <2> HIDE DEF m, e
  <2>4. Proposals(c)' = {e} /\ \A b : b # c => Proposals(b)' = Proposals(b)
    BY <1>4, <1>7, <1>8 DEF Proposals
  <2>. QED
    BY <1>7, <1>8, <2>1, <2>2, <2>3, <2>4 DEF OthersSame
<1> HIDE DEF s, u, d, g, p, m, e
<1>10. ConnectionOK(c, s, <<>>, d, g)
  BY <1>2 DEF ConnectionOK, Working
<1>11. SubmissionOK(c, s, <<>>, {e})
  <2>1. Proposed(c, s, <<>>, {e})
    BY <1>4, <1>8 DEF Proposed
  <2>. QED
    BY <1>1, <1>3, <2>1 DEF SubmissionOK, Waiting
<1>. QED
  BY <1>1, <1>9, <1>10, <1>11, OneClient DEF ClientOK

\* A proposal is lost.
LEMMA ProposalFailsStep ==
    ASSUME IInv, Orderly, NEW e \in proposed, ProposalFails(e)
    PROVE  IInv'
<1> DEFINE c == e.client
           s == page[c]
           u == up[c]
           d == down[c]
           g == registered[c]
           p == Proposals(c)
<1>1. c \in Client /\ e \in p /\ proposed' = proposed \ {e}
  BY DEF IInv, ServersOK, Proposals, ProposalFails, Orderly
<1>2. PageOK(s) /\ ConnectionOK(c, s, u, d, g) /\ SubmissionOK(c, s, u, p)
  BY <1>1 DEF IInv, ThisClientOK, ClientOK
<1>3. s.waitingForAck /\ Proposed(c, s, u, p) /\ fsm.clientLastSubmission[c] < s.nextSubmissionId
  BY <1>1, <1>2 DEF SubmissionOK, Waiting, Unsent, OnItsWay, Committed
<1>4. p = {e} /\ u = <<>> /\ NoneOwn(c, s.serverRev)
  BY <1>1, <1>3 DEF Proposed
<1>5. /\ OthersSame(c) /\ page'[c] = s /\ up'[c] = u /\ down'[c] = d /\ registered'[c] = g
      /\ Proposals(c)' = {} /\ Still
  <2>2. /\ DOMAIN page = Client /\ DOMAIN up = Client /\ DOMAIN down = Client
        /\ DOMAIN registered = Client
        /\ typed \in [Client -> 0..MaxTyped] /\ \A x \in proposed : x.client \in Client
    BY DEF IInv, ServersOK
  <2>3. page' = page /\ up' = up /\ down' = down /\ registered' = registered /\ typed' = typed /\ Still
    BY DEF ProposalFails, userVars, docVars, netVars, Still
  <2>4. Proposals(c)' = {} /\ \A b : b # c => Proposals(b)' = Proposals(b)
    BY <1>1, <1>4 DEF Proposals
  <2>. QED
    BY <1>1, <2>2, <2>3, <2>4 DEF OthersSame
<1> HIDE DEF c, s, u, d, g, p
<1>6. SubmissionOK(c, s, u, {})
  BY <1>2, <1>3, <1>4 DEF SubmissionOK, Waiting, Unsent
<1>. QED
  BY <1>1, <1>2, <1>5, <1>6, OneClient DEF ClientOK

\* The page handles a CONNECT_ACK, ...
LEMMA ConnectAckClient ==
    ASSUME IInv, NEW c \in Client, NEW s, NEW u, NEW d, NEW g, NEW p, ClientOK(c, s, u, d, g, p),
           Answered(c, s, u, d, g)
    PROVE  ClientOK(c, Handled(s, Head(d)), u, Tail(d), g, p)
<1>1. /\ PageOK(s) /\ SubmissionOK(c, s, u, p) /\ s \in PageType /\ DocumentOK /\ fsm.headRev \in Nat
      /\ ~s.active /\ u = <<>>
  BY DEF ClientOK, PageOK, IInv, DocumentOK, Sound, Answered
<1>2. PICK r \in s.serverRev..fsm.headRev :
         /\ Head(d) = ConnectAckMsg(s.serverRev, r)
         /\ IsRun(Tail(d), AllNews(c), r, Called(s.server))
         /\ NoneOwn(c, r)
  BY DEF Answered
<1> DEFINE t == handleConnectAck(s, TextAt(r), r, RevisionsBetween(s.serverRev, r))
<1>3. Handled(s, Head(d)) = t
  BY <1>2 DEF Handled, ConnectAckMsg
<1>4. r \in Nat /\ s.serverRev <= r /\ r <= fsm.headRev
  BY <1>1, <1>2 DEF PageType
<1>5. /\ Stands(t, TextAt(r)) /\ isIdentity(t.X) /\ t.active /\ t.serverRev = r
      /\ t.waitingForAck = s.waitingForAck /\ t.nextSubmissionId = s.nextSubmissionId
      /\ SameSocket(t, s)
  BY <1>1, <1>4, ConnectAckStands
<1> HIDE DEF t
<1>6. PageOK(t) /\ t.A # Null
  BY <1>4, <1>5, StandsOK DEF Answered, AtLeader, OneSocket, SameSocket
<1>7. ConnectionOK(c, t, u, Tail(d), g)
  <2>1. Told(c, t, Tail(d), r)
    BY <1>2, <1>4, <1>5 DEF Told, Passed, SameSocket
  <2>. QED
    BY <1>1, <1>4, <1>5, <1>6, <2>1 DEF ConnectionOK, Working, Answered, AtLeader, OneSocket, SameSocket
<1>8. SubmissionOK(c, t, u, p)
  BY <1>1, <1>2, <1>5 DEF SubmissionOK, PageOK
<1>. QED
  BY <1>3, <1>6, <1>7, <1>8 DEF ClientOK

\* ... the acknowledgement of its submission, ...
LEMMA AckClient ==
    ASSUME IInv, NEW c \in Client, NEW s, NEW u, NEW d, NEW g, NEW p, ClientOK(c, s, u, d, g, p),
           Working(c, s, u, d, g), NEW n \in Nat, Told(c, s, d, n), d # <<>>,
           fsm.revisionLog[n + 1].source = c
    PROVE  ClientOK(c, Handled(s, Head(d)), u, Tail(d), g, p)
<1> DEFINE k == s.serverRev
           r == n + 1
           t == handleAck(s, r)
<1>1. /\ PageOK(s) /\ SubmissionOK(c, s, u, p) /\ s \in PageType /\ DocumentOK /\ fsm.headRev \in Nat
  BY DEF ClientOK, PageOK, IInv, DocumentOK, Sound
<1>2. /\ r \in 1..fsm.headRev /\ r \in Nat /\ Head(d) = News(c, r)
      /\ IsRun(Tail(d), AllNews(c), r, Called(s.server))
  BY <1>1, NextNews
<1>3. Handled(s, Head(d)) = t
  BY <1>2 DEF Handled, News, AckMsg
<1>4. /\ k \in Nat /\ k <= n /\ r \in k + 1..fsm.headRev /\ r - 1 = n /\ r <= fsm.headRev
      /\ Passed(c, k, n)
  BY <1>1, <1>2 DEF PageType, Told
<1>5. ~NoneOwn(c, k)
  BY <1>4 DEF NoneOwn
<1>6. Committed(c, s, u, p)
  BY <1>1, <1>5 DEF Working, SubmissionOK, Waiting, Unsent, OnItsWay, Proposed
<1>7. /\ u = <<>> /\ p = {}
      /\ \A q \in k + 1..fsm.headRev : fsm.revisionLog[q].source = c => q = r
      /\ fsm.revisionLog[r].changeset = CaughtUp(s.X, k, n)
  <2>1. PICK x \in k + 1..fsm.headRev :
          /\ fsm.revisionLog[x].source = c
          /\ \A q \in k + 1..fsm.headRev : fsm.revisionLog[q].source = c => q = x
          /\ fsm.revisionLog[x].changeset = CaughtUp(s.X, k, x - 1)
    BY <1>6 DEF Committed
  <2>2. x = r
    BY <1>4, <2>1
  <2>. QED
    BY <1>4, <1>6, <2>1, <2>2 DEF Committed
<1>9. Stands(s, TextAt(k)) /\ Suits(TextAt(k), s.X)
  BY <1>1, WorkingStands DEF Stands
<1>8. fsm.revisionLog[r].changeset = s.X /\ TextAt(n) = TextAt(k)
  BY <1>1, <1>4, <1>7, <1>9, PassedBy
<1>10. TextAt(r) = ApplyChangeset(TextAt(k), s.X)
  BY <1>1, <1>4, <1>8, RevisionIs
<1>11. /\ Stands(t, TextAt(r)) /\ isIdentity(t.X) /\ ~t.waitingForAck /\ t.serverRev = r
       /\ t.nextSubmissionId = s.nextSubmissionId /\ t.active = s.active /\ SameSocket(t, s)
  <2> HIDE DEF k, r
  <2>1. r \in Nat /\ Stands(s, TextAt(k))
    BY <1>2, <1>9
  <2> HIDE DEF t
  <2>2. t = handleAck(s, r)
    BY DEF t
  <2>3. /\ Stands(t, ApplyChangeset(TextAt(k), s.X)) /\ isIdentity(t.X)
        /\ ~t.waitingForAck /\ t.serverRev = r
        /\ t.nextSubmissionId = s.nextSubmissionId
        /\ t.active = s.active /\ SameSocket(t, s)
    BY <2>1, <2>2, AckStands, SMTT(40)
  <2>. QED
    BY <1>10, <2>3
<1> HIDE DEF t
<1>12. PageOK(t) /\ t.A # Null
  BY <1>2, <1>4, <1>11, StandsOK DEF Working, AtLeader, OneSocket, SameSocket
<1>13. ConnectionOK(c, t, u, Tail(d), g)
  <2>1. Told(c, t, Tail(d), r)
    BY <1>2, <1>4, <1>11 DEF Told, Passed, SameSocket
  <2>. QED
    BY <1>2, <1>7, <1>11, <1>12, <2>1 DEF ConnectionOK, Working, AtLeader, OneSocket, SameSocket
<1>14. SubmissionOK(c, t, u, p)
  <2>1. NoneOwn(c, r)
    <3>1. ASSUME NEW q \in r + 1..fsm.headRev PROVE fsm.revisionLog[q].source # c
      <4>1. q \in k + 1..fsm.headRev /\ q # r
        BY <1>1, <1>4, <3>1
      <4>. QED
        BY <1>7, <4>1
    <3>. QED
      BY <3>1 DEF NoneOwn
  <2>. QED
    BY <1>1, <1>7, <1>11, <2>1 DEF SubmissionOK
<1>. QED
  BY <1>3, <1>12, <1>13, <1>14 DEF ClientOK

\* ... or another user's revision.
LEMMA BroadcastClient ==
    ASSUME IInv, NEW c \in Client, NEW s, NEW u, NEW d, NEW g, NEW p, ClientOK(c, s, u, d, g, p),
           Working(c, s, u, d, g), NEW n \in Nat, Told(c, s, d, n), d # <<>>,
           fsm.revisionLog[n + 1].source # c, n + 1 \notin nulls
    PROVE  ClientOK(c, Handled(s, Head(d)), u, Tail(d), g, p)
<1> DEFINE k == s.serverRev
           r == n + 1
           B == fsm.revisionLog[r].changeset
           t == handleBroadcast(s, B, r)
<1>1. /\ PageOK(s) /\ SubmissionOK(c, s, u, p) /\ s \in PageType /\ DocumentOK /\ fsm.headRev \in Nat
  BY DEF ClientOK, PageOK, IInv, DocumentOK, Sound
<1>2. /\ r \in 1..fsm.headRev /\ r \in Nat /\ Head(d) = News(c, r)
      /\ IsRun(Tail(d), AllNews(c), r, Called(s.server))
  BY <1>1, NextNews
<1>3. Handled(s, Head(d)) = t
  BY <1>2 DEF Handled, News, BroadcastMsg, Sent
<1>4. /\ k \in Nat /\ n \in Nat /\ k <= n /\ r \in k + 1..fsm.headRev /\ n + 1 = r /\ r <= fsm.headRev
      /\ Passed(c, k, n)
  BY <1>1, <1>2 DEF PageType, Told
<1>5. Stands(s, TextAt(k)) /\ Suits(TextAt(k), s.X) /\ (~s.waitingForAck => isIdentity(s.X))
  BY <1>1, WorkingStands DEF Stands
<1>15. /\ TextAt(n) = TextAt(k) /\ CaughtUp(s.X, k, n) = s.X
       /\ \A X : Suits(TextAt(k), X) => CaughtUp(X, k, n) = X
  BY <1>1, <1>4, <1>5, PassedBy
<1>6. /\ B \in CharChangeset /\ Suits(TextAt(k), B)
      /\ TextAt(r) = ApplyChangeset(TextAt(k), B)
  BY <1>1, <1>4, <1>15, RevisionIs
<1>16. CaughtUp(s.X, k, r) = Follow(B, s.X)
  <2>1. CaughtUp(s.X, k, n + 1) = Follow(B, CaughtUp(s.X, k, n))
    BY <1>4, CaughtUpNext DEF CaughtUp
  <2>. QED
    BY <1>15, <2>1
<1> HIDE DEF B
<1>7. /\ Stands(t, TextAt(r)) /\ t.X = Follow(B, s.X)
      /\ t.waitingForAck = s.waitingForAck /\ t.serverRev = r
      /\ t.nextSubmissionId = s.nextSubmissionId /\ t.active = s.active /\ SameSocket(t, s)
  BY <1>2, <1>5, <1>6, BroadcastStands
<1> HIDE DEF t
<1>8. ~t.waitingForAck => isIdentity(t.X)
  BY <1>5, <1>6, <1>7, FollowKeepsIdentity
<1>9. PageOK(t) /\ t.A # Null
  BY <1>2, <1>4, <1>7, <1>8, StandsOK DEF Working, AtLeader, OneSocket, SameSocket
<1>10. ConnectionOK(c, t, u, Tail(d), g)
  <2>1. Told(c, t, Tail(d), r)
    BY <1>2, <1>4, <1>7 DEF Told, Passed, SameSocket
  <2>. QED
    BY <1>2, <1>7, <1>9, <2>1 DEF ConnectionOK, Working, AtLeader, OneSocket, SameSocket
<1>11. NoneOwn(c, k) => NoneOwn(c, r)
  BY <1>1, <1>4 DEF NoneOwn
<1>12. ASSUME NEW sub, NEW b, NEW cs, IsSubmission(s, sub, b, cs) PROVE IsSubmission(t, sub, b, cs)
  <2>1. b \in Nat /\ b \in 0..r /\ b <= k /\ CaughtUp(cs, b, k) = s.X
    BY <1>4, <1>12 DEF IsSubmission
  <2>2. CaughtUp(cs, b, r) = CaughtUp(CaughtUp(cs, b, k), k, r)
    <3> HIDE DEF k, r
    <3>. QED
      BY <1>2, <1>4, <2>1, CaughtUpInParts DEF CaughtUp
  <2>. QED
    BY <1>7, <1>12, <1>16, <2>1, <2>2 DEF IsSubmission
<1>13. ASSUME Committed(c, s, u, p) PROVE Committed(c, t, u, p)
  <2>1. PICK x \in k + 1..fsm.headRev :
          /\ fsm.revisionLog[x].source = c
          /\ \A q \in k + 1..fsm.headRev : fsm.revisionLog[q].source = c => q = x
          /\ fsm.revisionLog[x].changeset = CaughtUp(s.X, k, x - 1)
    BY <1>13 DEF Committed
  <2>2. x # r /\ x \in r + 1..fsm.headRev /\ x - 1 \in Nat /\ r <= x - 1 /\ k <= r
    <3>1. x # r /\ x \notin k + 1..n
      BY <1>4, <2>1 DEF Passed
    <3>. QED
      BY <1>1, <1>4, <2>1, <3>1
  <2>3. CaughtUp(s.X, k, r) = t.X
    BY <1>7, <1>16
  <2>4. CaughtUp(t.X, r, x - 1) = CaughtUp(s.X, k, x - 1)
    <3> DEFINE z == x - 1
    <3>1. z \in Nat /\ r <= z
      BY <2>2
    <3> HIDE DEF z, k, r
    <3>2. CaughtUpBy(fsm, CaughtUpBy(fsm, s.X, k, r), r, z) = CaughtUpBy(fsm, s.X, k, z)
      BY <1>2, <1>4, <2>2, <3>1, CaughtUpInParts
    <3>. QED
      BY <2>3, <3>2 DEF CaughtUp, z
  <2>5. \A q \in r + 1..fsm.headRev : fsm.revisionLog[q].source = c => q = x
    <3>1. \A q \in r + 1..fsm.headRev : q \in k + 1..fsm.headRev
      BY <1>1, <1>4
    <3>. QED
      BY <2>1, <3>1
  <2>. QED
    BY <1>7, <1>13, <2>1, <2>2, <2>4, <2>5 DEF Committed
<1>14. SubmissionOK(c, t, u, p)
  <2>1. /\ Unsent(c, s, u, p) => Unsent(c, t, u, p)
        /\ OnItsWay(c, s, u, p) => OnItsWay(c, t, u, p)
        /\ Proposed(c, s, u, p) => Proposed(c, t, u, p)
    BY <1>7, <1>11, <1>12 DEF Unsent, OnItsWay, Proposed
  <2>. QED
    BY <1>1, <1>7, <1>11, <1>13, <2>1 DEF SubmissionOK, Waiting, Working
<1>. QED
  BY <1>3, <1>9, <1>10, <1>14 DEF ClientOK

\* One that has no operations passes.
LEMMA NullClient ==
    ASSUME IInv, NEW c \in Client, NEW s, NEW u, NEW d, NEW g, NEW p, ClientOK(c, s, u, d, g, p),
           Working(c, s, u, d, g), NEW n \in Nat, Told(c, s, d, n), d # <<>>,
           fsm.revisionLog[n + 1].source # c, n + 1 \in nulls
    PROVE  ClientOK(c, Handled(s, Head(d)), u, Tail(d), g, p)
<1>1. s \in PageType /\ s.serverRev \in Nat
  BY DEF ClientOK, PageOK, PageType
<1>2. /\ n + 1 \in 1..fsm.headRev /\ n + 1 \in Nat /\ Head(d) = News(c, n + 1)
      /\ IsRun(Tail(d), AllNews(c), n + 1, Called(s.server))
  BY <1>1, NextNews
<1>3. Handled(s, Head(d)) = s
  BY <1>2 DEF Handled, News, BroadcastMsg, Sent, handleBroadcast
<1>4. Passed(c, s.serverRev, n + 1)
  <2>1. ASSUME NEW r \in s.serverRev + 1..n + 1 PROVE r = n + 1 \/ r \in s.serverRev + 1..n
    BY <1>1
  <2>. QED
    BY <2>1 DEF Told, Passed
<1>5. Told(c, s, Tail(d), n + 1)
  BY <1>1, <1>2, <1>4 DEF Told
<1>. QED
  BY <1>2, <1>3, <1>5 DEF ClientOK, ConnectionOK, Working

\* The page handles a message.
LEMMA ReceiveStep ==
    ASSUME IInv, NEW c \in Client, Receive(c)
    PROVE  IInv'
<1> DEFINE s == page[c]
           u == up[c]
           d == down[c]
           g == registered[c]
           p == Proposals(c)
           t == Handled(s, Head(d))
<1>1. /\ ClientOK(c, s, u, d, g, p) /\ ConnectionOK(c, s, u, d, g)
      /\ s.socket = "open" /\ d # <<>> /\ Head(d).type # "REDIRECT"
  BY DEF IInv, ThisClientOK, ClientOK, Receive
<1>2. /\ OthersSame(c) /\ page'[c] = t /\ up'[c] = u /\ down'[c] = Tail(d) /\ registered'[c] = g
      /\ Proposals(c)' = p /\ Still
  <2>1. page' = [page EXCEPT ![c] = t] /\ down' = [down EXCEPT ![c] = Tail(d)]
    BY DEF Receive, Update
  <2>2. /\ DOMAIN page = Client /\ DOMAIN up = Client /\ DOMAIN down = Client
        /\ DOMAIN registered = Client
        /\ typed \in [Client -> 0..MaxTyped] /\ \A x \in proposed : x.client \in Client
    BY DEF IInv, ServersOK
  <2>3. up' = up /\ registered' = registered /\ proposed' = proposed /\ typed' = typed /\ Still
    BY DEF Receive, userVars, docVars, Still
  <2> HIDE DEF t
  <2>4. \A b : Proposals(b)' = Proposals(b)
    BY <2>3 DEF Proposals
  <2>. QED
    BY <2>1, <2>2, <2>3, <2>4 DEF OthersSame
<1> HIDE DEF s, u, d, g, p
<1>3. ClientOK(c, t, u, Tail(d), g, p)
  <2>1. CASE Answered(c, s, u, d, g)
    BY <1>1, <2>1, ConnectAckClient
  <2>2. CASE Working(c, s, u, d, g)
    <3>1. PICK n \in Nat : Told(c, s, d, n)
      BY <2>2 DEF Working
    <3>. QED
      BY <1>1, <2>2, <3>1, AckClient, BroadcastClient, NullClient
  <2>. QED
    BY <1>1, <2>1, <2>2 DEF ConnectionOK, Away, Asking, SentAway
<1> HIDE DEF t
<1>. QED
  BY <1>2, <1>3, OneClient

-------------------------------------------------------------------------------
(* Steps of the servers.                                                   *)

\* The pages are left alone, but for what they are sent.
PagesSame ==
    /\ page' = page /\ up' = up /\ registered' = registered /\ proposed' = proposed /\ typed' = typed
    /\ DOMAIN down' = Client

\* Servers that work on a document that stays the same.
LEMMA ServersStep ==
    ASSUME IInv, PagesSame, fsm' = fsm, results' = results, nulls' = nulls,
           applied' \in [Node -> 0..fsm.headRev], leader' \in Node \cup {None}, DOMAIN pending' = Node,
           \A n \in Node : Called(n)' \in Nat /\ IsRun(pending'[n], results, Called(n)', applied'[n]),
           \A c \in Client : ConnectionOK(c, page[c], up[c], down[c], registered[c])'
    PROVE  IInv'
<1>1. DocumentOK'
  BY DocumentSame DEF IInv
<1>2. ServersOK'
  BY DEF IInv, ServersOK, PagesSame
<1>3. ASSUME NEW c \in Client PROVE ThisClientOK(c)'
  <2>1. PageOK(page[c]) /\ SubmissionOK(c, page[c], up[c], Proposals(c))
    BY DEF IInv, ThisClientOK, ClientOK
  <2>2. PageOK(page[c])' /\ SubmissionOK(c, page[c], up[c], Proposals(c))'
    <3>1. /\ page'[c] = page[c] /\ up'[c] = up[c]
          /\ Proposals(c)' = Proposals(c)
      BY DEF PagesSame, Proposals
    <3> DEFINE s == page[c]
               u == up[c]
               p == Proposals(c)
    <3>2. \A x : PageOK(x) <=> PageOK(x)'
      BY PageSame
    <3>3. \A x, y, z : SubmissionOK(c, x, y, z) <=> SubmissionOK(c, x, y, z)'
      BY SubmissionSame
    <3>. QED
      BY <2>1, <3>1, <3>2, <3>3
  <2>. QED
    BY <2>2 DEF PagesSame, ThisClientOK, ClientOK
<1>. QED
  BY <1>1, <1>2, <1>3 DEF IInv

\* A page that is served by another node than n.
LEMMA ElsewhereSame ==
    ASSUME IInv, PagesSame, fsm' = fsm, nulls' = nulls, leader' = leader, NEW n \in Node,
           \A m \in Node \ {n} : applied'[m] = applied[m] /\ pending'[m] = pending[m],
           NEW c \in Client, down'[c] = down[c], page[c].server # n
    PROVE  ConnectionOK(c, page[c], up[c], down[c], registered[c])'
<1> DEFINE s == page[c]
           u == up[c]
           d == down[c]
           g == registered[c]
<1>1. ConnectionOK(c, s, u, d, g) /\ s.server \in Node
  BY DEF IInv, ThisClientOK, ClientOK, PageOK, PageType
<1>2. page'[c] = s /\ up'[c] = u /\ down'[c] = d /\ registered'[c] = g
  BY DEF PagesSame
<1>3. applied'[s.server] = applied[s.server] /\ pending'[s.server] = pending[s.server]
  BY <1>1
<1>4. \A x, y, z, w : applied'[x.server] = applied[x.server] /\ pending'[x.server] = pending[x.server]
         => (ConnectionOK(c, x, y, z, w) <=> ConnectionOK(c, x, y, z, w)')
  BY ConnectionSame
<1> HIDE DEF s, u, d, g
<1>. QED
  BY <1>1, <1>2, <1>3, <1>4

\* Some connections depend on nothing that servers do.
LEMMA AwaySame ==
    ASSUME NEW c, NEW s, NEW u, NEW d, NEW g,
           \/ Away(s, u, d, g) \/ SentAway(s, u, d, g)
           \/ Asking(s, u, d, g) /\ g # "connecting"
    PROVE  ConnectionOK(c, s, u, d, g)'
BY DEF ConnectionOK, Away, SentAway, Asking, OneSocket

\* ... and none on who the leader will be.
LEMMA ElectedSame ==
    ASSUME NEW c, NEW s, NEW u, NEW d, NEW g, Asking(s, u, d, g), leader = None,
           fsm' = fsm, applied' = applied, pending' = pending
    PROVE  ConnectionOK(c, s, u, d, g)'
BY DEF ConnectionOK, Asking, OneSocket

\* A node starts to work on the next entry.
LEMMA ApplyNextStep ==
    ASSUME IInv, Orderly, NEW n \in Node, ApplyNext(n)
    PROVE  IInv'
<1> DEFINE r == applied[n] + 1
           q == Append(pending[n], results[r])
           k == Called(n)
<1>1. /\ fsm.headRev \in Nat /\ applied[n] \in Nat /\ r \in 1..fsm.headRev /\ k \in Nat
      /\ IsRun(pending[n], results, k, applied[n])
  BY ServersAre DEF ApplyNext
<1>2. results[r].outcome = "applied"
  <2>1. \A i \in 1..fsm.headRev : results[i] = Result(i)
    BY ServersAre
  <2>2. results[r] = Result(r)
    BY <1>1, <2>1
  <2>. QED
    BY <2>2 DEF Result
<1>3. /\ DOMAIN applied = Node /\ DOMAIN pending = Node /\ applied \in [Node -> 0..fsm.headRev]
      /\ leader \in Node \cup {None} /\ DOMAIN down = Client
  BY DEF IInv, ServersOK
<1>4. /\ applied' = [applied EXCEPT ![n] = r] /\ pending' = [pending EXCEPT ![n] = q]
      /\ fsm' = fsm /\ results' = results /\ nulls' = nulls /\ leader' = leader /\ down' = down
      /\ PagesSame /\ NoneConnecting(n) /\ applied[n] < fsm.headRev
  BY <1>2, <1>3, ServersAre DEF ApplyNext, Started, PagesSame, netVars, userVars, Allowed, Orderly
<1>5. IsSeq(pending[n]) /\ k + Len(pending[n]) = applied[n] /\ Len(pending[n]) \in Nat
  BY <1>1, LenProperties DEF IsRun, IsSeq
<1>6. Len(q) = Len(pending[n]) + 1 /\ IsRun(q, results, k, r)
  BY <1>1, <1>5, AppendSeq, RunAppend
<1> HIDE DEF q, r
<1>7. Called(n)' = k
  <2>1. applied'[n] = r /\ pending'[n] = q
    BY <1>3, <1>4
  <2>. QED
    BY <1>1, <1>5, <1>6, <2>1, SMTT(40) DEF Called, r
<1>8. \A m \in Node \ {n} : applied'[m] = applied[m] /\ pending'[m] = pending[m]
  BY <1>3, <1>4
<1>9. ASSUME NEW m \in Node
      PROVE  Called(m)' \in Nat /\ IsRun(pending'[m], results, Called(m)', applied'[m])
  <2>1. CASE m = n
    BY <1>1, <1>3, <1>4, <1>6, <1>7, <2>1
  <2>2. CASE m # n
    <3>1. Called(m)' = Called(m)
      BY <1>8, <2>2 DEF Called
    <3>. QED
      BY <1>8, <2>2, <3>1, ServersAre
  <2>. QED
    BY <2>1, <2>2
<1>10. ASSUME NEW c \in Client PROVE ConnectionOK(c, page[c], up[c], down[c], registered[c])'
  <2> DEFINE s == page[c]
             u == up[c]
             d == down[c]
             g == registered[c]
  <2>1. ConnectionOK(c, s, u, d, g)
    BY DEF IInv, ThisClientOK, ClientOK
  <2>2. page'[c] = s /\ up'[c] = u /\ down'[c] = d /\ registered'[c] = g
    BY <1>4 DEF PagesSame
  <2>3. CASE s.server # n
    BY <1>4, <1>8, <2>3, ElsewhereSame
  <2>4. CASE s.server = n
    <3>1. g # "connecting"
      BY <1>4, <2>4 DEF NoneConnecting
    <3>2. ~Answered(c, s, u, d, g) /\ ~Working(c, s, u, d, g)
      BY <1>4, <1>1, <2>4 DEF Answered, Working, AtLeader
    <3>3. Away(s, u, d, g) \/ SentAway(s, u, d, g) \/ Asking(s, u, d, g)
      BY <2>1, <3>2 DEF ConnectionOK
    <3>4. \A x, y, z, w : Away(x, y, z, w) \/ SentAway(x, y, z, w) \/ (Asking(x, y, z, w) /\ w # "connecting")
            => ConnectionOK(c, x, y, z, w)'
      BY AwaySame
    <3> HIDE DEF s, u, d, g
    <3>. QED
      BY <2>2, <3>1, <3>3, <3>4
  <2>. QED
    BY <2>3, <2>4
<1>11. applied' \in [Node -> 0..fsm.headRev]
  BY <1>1, <1>3, <1>4
<1>12. leader' \in Node \cup {None} /\ DOMAIN pending' = Node
  BY <1>3, <1>4
<1>. QED
  BY <1>4, <1>9, <1>10, <1>11, <1>12, ServersStep

\* A node restarts.
LEMMA RestartStep ==
    ASSUME IInv, NEW n \in Node, Restart(n)
    PROVE  IInv'
<1>1. /\ DOMAIN applied = Node /\ DOMAIN pending = Node /\ applied \in [Node -> 0..fsm.headRev]
      /\ leader \in Node \cup {None} /\ DOMAIN down = Client
  BY DEF IInv, ServersOK
<1>2. fsm.headRev \in Nat /\ applied[n] \in 0..fsm.headRev
  BY ServersAre
<1>3. PICK i \in 0..applied[n] : applied' = [applied EXCEPT ![n] = i]
  BY DEF Restart
<1>4. /\ pending' = [pending EXCEPT ![n] = <<>>]
      /\ fsm' = fsm /\ results' = results /\ nulls' = nulls /\ leader' = leader /\ down' = down
      /\ PagesSame
      /\ \A c \in Client : page[c].server = n => page[c].socket \in {"none", "redirected"}
  BY <1>1 DEF Restart, PagesSame, netVars, userVars
<1>5. Called(n)' = i /\ i \in Nat
  BY <1>1, <1>2, <1>3, <1>4, EmptySeq DEF Called
<1>6. \A m \in Node \ {n} : applied'[m] = applied[m] /\ pending'[m] = pending[m]
  BY <1>1, <1>3, <1>4
<1>7. ASSUME NEW m \in Node
      PROVE  Called(m)' \in Nat /\ IsRun(pending'[m], results, Called(m)', applied'[m])
  <2>1. CASE m = n
    BY <1>1, <1>3, <1>4, <1>5, <2>1, RunEmpty
  <2>2. CASE m # n
    <3>1. Called(m)' = Called(m)
      BY <1>6, <2>2 DEF Called
    <3>. QED
      BY <1>6, <2>2, <3>1, ServersAre
  <2>. QED
    BY <2>1, <2>2
<1>8. ASSUME NEW c \in Client PROVE ConnectionOK(c, page[c], up[c], down[c], registered[c])'
  <2> DEFINE s == page[c]
             u == up[c]
             d == down[c]
             g == registered[c]
  <2>1. ConnectionOK(c, s, u, d, g)
    BY DEF IInv, ThisClientOK, ClientOK
  <2>2. page'[c] = s /\ up'[c] = u /\ down'[c] = d /\ registered'[c] = g
    BY <1>4 DEF PagesSame
  <2>3. CASE s.server # n
    BY <1>4, <1>6, <2>3, ElsewhereSame
  <2>4. CASE s.server = n
    <3>1. s.socket # "open"
      BY <1>4, <2>4
    <3>2. Away(s, u, d, g)
      BY <2>1, <3>1 DEF ConnectionOK, Asking, SentAway, Answered, Working, AtLeader, OneSocket
    <3>3. \A x, y, z, w : Away(x, y, z, w) => ConnectionOK(c, x, y, z, w)'
      BY AwaySame
    <3> HIDE DEF s, u, d, g
    <3>. QED
      BY <2>2, <3>2, <3>3
  <2>. QED
    BY <2>3, <2>4
<1>9. applied' \in [Node -> 0..fsm.headRev]
  BY <1>1, <1>2, <1>3
<1>10. leader' \in Node \cup {None} /\ DOMAIN pending' = Node
  BY <1>1, <1>4
<1>. QED
  BY <1>4, <1>7, <1>8, <1>9, <1>10, ServersStep

\* Leadership changes.
LEMMA NewLeaderStep ==
    ASSUME IInv, Orderly, NEW n \in Node \cup {None}, NewLeader(n)
    PROVE  IInv'
<1>1. /\ DOMAIN applied = Node /\ DOMAIN pending = Node /\ applied \in [Node -> 0..fsm.headRev]
      /\ leader \in Node \cup {None} /\ DOMAIN down = Client
  BY DEF IInv, ServersOK
<1>2. /\ leader' = n /\ fsm' = fsm /\ results' = results /\ nulls' = nulls
      /\ applied' = applied /\ pending' = pending /\ down' = down /\ PagesSame
      /\ leader = None \/ \A c \in Client : page[c].socket \notin {"opening", "open"}
  BY <1>1 DEF NewLeader, PagesSame, netVars, docVars, userVars, Allowed, Orderly
<1>3. \A m : Called(m)' = Called(m)
  BY <1>2 DEF Called
<1>4. ASSUME NEW c \in Client PROVE ConnectionOK(c, page[c], up[c], down[c], registered[c])'
  <2> DEFINE s == page[c]
             u == up[c]
             d == down[c]
             g == registered[c]
  <2>1. ConnectionOK(c, s, u, d, g) /\ s.server \in Node
    BY DEF IInv, ThisClientOK, ClientOK, PageOK, PageType
  <2>2. page'[c] = s /\ up'[c] = u /\ down'[c] = d /\ registered'[c] = g
    BY <1>2 DEF PagesSame
  <2>3. leader # None => s.socket # "open"
    BY <1>2
  <2>4. \A x, y, z, w : Away(x, y, z, w) \/ SentAway(x, y, z, w) => ConnectionOK(c, x, y, z, w)'
    BY AwaySame
  <2>5. leader = None => \A x, y, z, w : Asking(x, y, z, w) => ConnectionOK(c, x, y, z, w)'
    BY <1>2, ElectedSame
  <2>6. Asking(s, u, d, g) => leader = None
    BY <2>3 DEF Asking, OneSocket
  <2>7. ~AtLeader(s, g)
    BY <2>1, <2>3, SystemAssumption DEF AtLeader, OneSocket
  <2>8. Away(s, u, d, g) \/ SentAway(s, u, d, g) \/ Asking(s, u, d, g)
    BY <2>1, <2>7 DEF ConnectionOK, Answered, Working
  <2> HIDE DEF s, u, d, g
  <2>. QED
    BY <2>2, <2>4, <2>5, <2>6, <2>8
<1>5. ASSUME NEW m \in Node
      PROVE  Called(m)' \in Nat /\ IsRun(pending'[m], results, Called(m)', applied'[m])
  BY <1>2, <1>3, ServersAre
<1>. QED
  BY <1>1, <1>2, <1>4, <1>5, ServersStep

\* Taking out the first element.
LEMMA RemoveAtOne ==
    ASSUME NEW q, IsSeq(q), q # <<>>
    PROVE  RemoveAt(q, 1) = Tail(q)
<1>1. IsSeq(Tail(q)) /\ Len(q) \in Nat /\ DOMAIN q = 1..Len(q) /\ q \in Seq({q[i] : i \in DOMAIN q})
  BY TailSeq, LenProperties DEF IsSeq
<1> DEFINE S == {q[i] : i \in DOMAIN q}
           x == SubSeq(q, 1, 0)
           y == SubSeq(q, 2, Len(q))
<1>2. RemoveAt(q, 1) = x \o y
  BY DEF RemoveAt
<1>3. x = <<>> /\ x \in Seq(S)
  BY <1>1, EmptySeq
<1>4. Tail(q) = y /\ y \in Seq(S)
  BY <1>1, HeadTailProperties
<1> HIDE DEF x, y, S
<1>5. x \o y = y
  BY <1>3, <1>4
<1>. QED
  BY <1>2, <1>4, <1>5

\* Adding at the end of a sequence that has a head.
LEMMA AppendTail ==
    ASSUME NEW q, IsSeq(q), q # <<>>, NEW e
    PROVE  /\ IsSeq(Append(q, e)) /\ Append(q, e) # <<>>
           /\ Head(Append(q, e)) = Head(q) /\ Tail(Append(q, e)) = Append(Tail(q), e)
<1>1. /\ IsSeq(Append(q, e)) /\ Len(q) \in Nat /\ DOMAIN q = 1..Len(q)
      /\ Len(Append(q, e)) = Len(q) + 1 /\ DOMAIN Append(q, e) = 1..Len(q) + 1
      /\ \A i \in 1..Len(q) : Append(q, e)[i] = q[i]
      /\ Append(q, e)[Len(q) + 1] = e
  BY AppendSeq
<1>2. Append(q, e) # <<>>
  BY <1>1
<1>3. /\ IsSeq(Tail(q)) /\ 1 \in DOMAIN q /\ Head(q) = q[1]
      /\ \A i \in DOMAIN Tail(q) : i + 1 \in DOMAIN q /\ Tail(q)[i] = q[i + 1]
  BY TailSeq
<1>4. Len(Tail(q)) = Len(q) - 1 /\ DOMAIN Tail(q) = 1..Len(Tail(q)) /\ Len(Tail(q)) \in Nat
  BY <1>3, LenProperties, HeadTailProperties DEF IsSeq
<1> DEFINE x == Append(q, e)
           y == Append(Tail(q), e)
<1>5. /\ IsSeq(y) /\ Len(y) = Len(q) /\ DOMAIN y = 1..Len(q)
      /\ \A i \in 1..Len(q) - 1 : y[i] = q[i + 1]
      /\ y[Len(q)] = e
  BY <1>1, <1>3, <1>4, AppendSeq
<1>6. /\ IsSeq(Tail(x)) /\ 1 \in DOMAIN x /\ Head(x) = x[1]
      /\ \A i \in DOMAIN Tail(x) : i + 1 \in DOMAIN x /\ Tail(x)[i] = x[i + 1]
  BY <1>1, <1>2, TailSeq
<1>7. Len(Tail(x)) = Len(q) /\ DOMAIN Tail(x) = 1..Len(q)
  BY <1>1, <1>2, <1>6, LenProperties, HeadTailProperties DEF IsSeq
<1> HIDE DEF x, y
<1>8. ASSUME NEW i \in 1..Len(q) PROVE Tail(x)[i] = y[i]
  <2>1. Tail(x)[i] = x[i + 1]
    BY <1>6, <1>7
  <2>2. CASE i = Len(q)
    BY <1>1, <1>5, <2>1, <2>2 DEF x
  <2>3. CASE i \in 1..Len(q) - 1
    <3>1. i + 1 \in 1..Len(q)
      BY <1>1, <2>3
    <3>. QED
      BY <1>1, <1>5, <2>1, <2>3, <3>1 DEF x
  <2>4. i = Len(q) \/ i \in 1..Len(q) - 1
    <3>1. Len(q) \in Nat /\ i \in 1..Len(q)
      BY <1>1
    <3> DEFINE n == Len(q)
    <3> HIDE DEF n
    <3>2. n \in Nat /\ i \in 1..n => i = n \/ i \in 1..n - 1
      OBVIOUS
    <3>. QED
      BY <3>1, <3>2 DEF n
  <2>. QED
    BY <2>2, <2>3, <2>4
<1>9. Tail(x) = y
  <2> DEFINE S == {y[i] : i \in DOMAIN y}
             z == Tail(x)
  <2>1. {z[i] : i \in DOMAIN z} = S /\ Len(z) = Len(y) /\ \A i \in 1..Len(z) : z[i] = y[i]
    BY <1>5, <1>7, <1>8
  <2> HIDE DEF z
  <2>2. z \in Seq(S) /\ y \in Seq(S)
    BY <1>5, <1>6, <2>1 DEF IsSeq, z
  <2> HIDE DEF S
  <2>. QED
    BY <2>1, <2>2, SeqEqual DEF z
<1>. QED
  BY <1>1, <1>2, <1>3, <1>6, <1>9 DEF x, y

\* The page is told of a revision.
LEMMA ToldConnection ==
    ASSUME IInv, NEW c, NEW s \in PageType, NEW u, NEW d, NEW g,
           Answered(c, s, u, d, g) \/ Working(c, s, u, d, g),
           NEW r \in 1..fsm.headRev, r = Called(s.server) + 1, Called(s.server)' = r,
           NEW m, m = News(c, r), fsm' = fsm, nulls' = nulls, applied' = applied,
           leader' = leader
    PROVE  ConnectionOK(c, s, u, Append(d, m), g)'
<1> DEFINE k == Called(s.server)
           e == Append(d, m)
<1>1. AllNews(c)' = AllNews(c) /\ AllNews(c)[r] = m
  BY DEF AllNews, News
<1>2. k \in Nat /\ r = k + 1 /\ fsm.headRev \in Nat
  BY ServersAre DEF PageType
<1>3. AtLeader(s, g)' /\ (NoneOwn(c, 0)' <=> NoneOwn(c, 0)) /\ \A x : NoneOwn(c, x) => NoneOwn(c, x)'
  BY DEF Answered, Working, AtLeader, OneSocket, NoneOwn
<1>4. CASE Working(c, s, u, d, g)
  <2>1. PICK p \in Nat : Told(c, s, d, p)
    BY <1>4 DEF Working
  <2>2. IsRun(d, AllNews(c), p, k)
    BY <2>1 DEF Told
  <2> HIDE DEF k
  <2>3. IsRun(e, AllNews(c), p, k + 1)
    BY <1>1, <1>2, <2>1, <2>2, RunAppend
  <2> HIDE DEF e
  <2>5. IsRun(e, AllNews(c), p, Called(s.server))'
    BY <1>1, <1>2, <2>3 DEF IsRun, IsSeq
  <2>6. Told(c, s, e, p)'
    BY <2>1, <2>5 DEF Told, Passed
  <2>4. Working(c, s, u, e, g)'
    BY <1>3, <1>4, <2>6 DEF Working
  <2>. QED
    BY <2>4 DEF ConnectionOK, e
<1>5. CASE Answered(c, s, u, d, g)
  <2>1. IsSeq(d) /\ d # <<>>
    BY <1>5 DEF Answered
  <2>2. IsSeq(Append(d, m)) /\ Append(d, m) # <<>> /\ Head(Append(d, m)) = Head(d)
        /\ Tail(Append(d, m)) = Append(Tail(d), m)
    BY <2>1, AppendTail
  <2>3. PICK x \in s.serverRev..fsm.headRev :
          /\ Head(d) = ConnectAckMsg(s.serverRev, x)
          /\ IsRun(Tail(d), AllNews(c), x, k)
          /\ NoneOwn(c, x) /\ Near(s, x)
    BY <1>5 DEF Answered
  <2>4. x \in Nat
    BY <1>2, <2>3 DEF PageType
  <2> HIDE DEF k
  <2>5. IsRun(Tail(e), AllNews(c), x, k + 1)
    BY <1>1, <1>2, <2>2, <2>3, <2>4, RunAppend
  <2>6. IsSeq(e) /\ e # <<>> /\ Head(e) = ConnectAckMsg(s.serverRev, x)
    BY <2>2, <2>3
  <2> HIDE DEF e
  <2>7. IsRun(Tail(e), AllNews(c), x, Called(s.server))'
    BY <1>1, <1>2, <2>5 DEF IsRun, IsSeq
  <2>8. /\ (Head(e) = ConnectAckMsg(s.serverRev, x))' /\ NoneOwn(c, x)' /\ (x \in s.serverRev..fsm.headRev)'
        /\ IsSeq(e)' /\ e # <<>>
    BY <1>3, <2>3, <2>6 DEF ConnectAckMsg, IsSeq
  <2>10. Near(s, x)'
    BY <2>3 DEF Near
  <2>9. Answered(c, s, u, e, g)'
    BY <1>3, <1>5, <2>7, <2>8, <2>10 DEF Answered
  <2>. QED
    BY <2>9 DEF ConnectionOK, e
<1>. QED
  BY <1>4, <1>5

\* A callback of node n runs.
LEMMA CallbackStep ==
    ASSUME IInv, Orderly, NEW n \in Node, Callback(n)
    PROVE  IInv'
<1> DEFINE k == Called(n)
           r == Called(n) + 1
           q == pending[n]
<1>1. /\ fsm.headRev \in Nat /\ applied[n] \in 0..fsm.headRev /\ applied[n] \in Nat /\ k \in Nat
      /\ IsRun(q, results, k, applied[n])
  BY ServersAre
<1>2. /\ DOMAIN applied = Node /\ DOMAIN pending = Node /\ applied \in [Node -> 0..fsm.headRev]
      /\ leader \in Node \cup {None} /\ DOMAIN down = Client
  BY DEF IInv, ServersOK
<1>3. /\ 1 \in DOMAIN q
      /\ pending' = [pending EXCEPT ![n] = RemoveAt(@, 1)]
      /\ down' = Delivery(q[1], n, {})
      /\ fsm' = fsm /\ results' = results /\ nulls' = nulls /\ leader' = leader /\ applied' = applied
      /\ page' = page /\ up' = up /\ registered' = registered /\ proposed' = proposed /\ typed' = typed
  BY DEF Callback, Allowed, Orderly, docVars, userVars
<1>4. IsSeq(q) /\ q # <<>>
  BY <1>1, <1>3, EmptySeq DEF IsRun
<1>5. /\ r <= applied[n] /\ Head(q) = results[r] /\ IsRun(Tail(q), results, r, applied[n])
      /\ Head(q) = q[1]
  <2> HIDE DEF k, q
  <2>1. k + 1 = r
    BY DEF k
  <2>. QED
    BY <1>1, <1>4, <2>1, RunHead, TailSeq
<1>6. r \in 1..fsm.headRev /\ r \in Nat
  BY <1>1, <1>5
<1>7. q[1] = Result(r)
  <2>1. \A i \in 1..fsm.headRev : results[i] = Result(i)
    BY ServersAre
  <2>. QED
    BY <1>5, <1>6, <2>1
<1>8. pending' = [pending EXCEPT ![n] = Tail(q)]
  BY <1>3, <1>4, RemoveAtOne
<1>9. \A m \in Node \ {n} : applied'[m] = applied[m] /\ pending'[m] = pending[m]
  BY <1>2, <1>3, <1>8
<1>10. Called(n)' = r
  <2>1. pending'[n] = Tail(q) /\ applied'[n] = applied[n]
    BY <1>2, <1>3, <1>8
  <2>2. r + Len(Tail(q)) = applied[n] /\ Len(Tail(q)) \in Nat
    BY <1>5, LenProperties DEF IsRun, IsSeq
  <2>. QED
    BY <1>6, <2>1, <2>2 DEF Called
<1>11. ASSUME NEW m \in Node
       PROVE  Called(m)' \in Nat /\ IsRun(pending'[m], results, Called(m)', applied'[m])
  <2>1. CASE m = n
    BY <1>2, <1>3, <1>5, <1>6, <1>8, <1>10, <2>1
  <2>2. CASE m # n
    <3>1. Called(m)' = Called(m)
      BY <1>9, <2>2 DEF Called
    <3>. QED
      BY <1>9, <2>2, <3>1, ServersAre
  <2>. QED
    BY <2>1, <2>2
<1>12. PagesSame
  BY <1>3 DEF PagesSame, Delivery
<1>13. ASSUME NEW c \in Client
       PROVE  down'[c] = IF page[c].server = n /\ registered[c] \in {"connecting", "yes"}
                         THEN Append(down[c], News(c, r)) ELSE down[c]
  BY <1>3, <1>7 DEF Delivery, Here, Result, News
<1>14. ASSUME NEW c \in Client PROVE ConnectionOK(c, page[c], up[c], down[c], registered[c])'
  <2> DEFINE s == page[c]
             u == up[c]
             d == down[c]
             g == registered[c]
  <2>1. ConnectionOK(c, s, u, d, g) /\ s \in PageType
    BY DEF IInv, ThisClientOK, ClientOK, PageOK
  <2>2. page'[c] = s /\ up'[c] = u /\ registered'[c] = g
    BY <1>12 DEF PagesSame
  <2>3. CASE s.server # n
    <3>1. down'[c] = down[c]
      BY <1>13, <2>3
    <3>. QED
      BY <1>3, <1>9, <1>12, <2>3, <3>1, ElsewhereSame
  <2>4. CASE s.server = n /\ g \notin {"connecting", "yes"}
    <3>1. down'[c] = d
      BY <1>13, <2>4
    <3>2. Away(s, u, d, g) \/ Asking(s, u, d, g)
      BY <2>1, <2>4 DEF ConnectionOK, SentAway, Answered, Working, AtLeader
    <3>3. \A x, y, z, w : Away(x, y, z, w) \/ (Asking(x, y, z, w) /\ w # "connecting")
            => ConnectionOK(c, x, y, z, w)'
      BY AwaySame
    <3>4. g # "connecting"
      BY <2>4
    <3> HIDE DEF s, u, d, g
    <3>. QED
      BY <2>2, <3>1, <3>2, <3>3, <3>4
  <2>5. CASE s.server = n /\ g \in {"connecting", "yes"}
    <3>0. PICK m : m = News(c, r)
      OBVIOUS
    <3>1. down'[c] = Append(d, m)
      BY <1>13, <2>5, <3>0
    <3>2. ~Away(s, u, d, g) /\ ~Asking(s, u, d, g)
      BY <1>4, <2>5 DEF Away, Asking
    <3>3. \A x, y, z, w : SentAway(x, y, z, w) => ConnectionOK(c, x, y, Append(z, m), w)'
      <4>1. SUFFICES ASSUME NEW x, NEW y, NEW z, NEW w, SentAway(x, y, z, w)
                     PROVE  ConnectionOK(c, x, y, Append(z, m), w)'
        OBVIOUS
      <4> DEFINE e == Append(z, m)
      <4>2. IsSeq(z) /\ z # <<>>
        BY <4>1 DEF SentAway
      <4>3. IsSeq(e) /\ e # <<>> /\ Head(e) = Head(z)
        BY <4>1, <4>2, AppendTail
      <4> HIDE DEF e
      <4>4. SentAway(x, y, e, w)
        BY <4>1, <4>3 DEF SentAway
      <4>. QED
        BY <4>4, AwaySame DEF e
    <3>4. \A x \in PageType : \A y, z, w : x.server = n /\ (Answered(c, x, y, z, w) \/ Working(c, x, y, z, w))
            => ConnectionOK(c, x, y, Append(z, m), w)'
      BY <1>3, <1>6, <1>10, <3>0, ToldConnection
    <3>5. SentAway(s, u, d, g) \/ Answered(c, s, u, d, g) \/ Working(c, s, u, d, g)
      BY <2>1, <3>2 DEF ConnectionOK
    <3> HIDE DEF s, u, d, g
    <3>. QED
      BY <2>1, <2>2, <2>5, <3>1, <3>3, <3>4, <3>5
  <2>. QED
    BY <2>3, <2>4, <2>5
<1>15. applied' \in [Node -> 0..fsm.headRev] /\ leader' \in Node \cup {None} /\ DOMAIN pending' = Node
  BY <1>2, <1>3
<1>. QED
  BY <1>3, <1>11, <1>12, <1>14, <1>15, ServersStep

-------------------------------------------------------------------------------
(* A commit: the document grows by a revision.                             *)

\* The revision after the head is cs, by client a.
Grown(a, cs) ==
    /\ fsm.headRev \in Nat /\ fsm'.headRev = fsm.headRev + 1
    /\ \A r \in 1..fsm.headRev : fsm'.revisionLog[r] = fsm.revisionLog[r]
    /\ \A r \in 0..fsm.headRev : TextAt(r)' = TextAt(r)
    /\ fsm'.revisionLog[fsm.headRev + 1].source = a
    /\ fsm'.revisionLog[fsm.headRev + 1].changeset = cs
    /\ \A c \in Client \ {a} : fsm'.clientLastSubmission[c] = fsm.clientLastSubmission[c]

\* The entry that is committed makes the next revision.
LEMMA CommitGrows ==
    ASSUME IInv, NEW e \in proposed, Commit(e)
    PROVE  LET s == page[e.client]
               cs == CaughtUp(s.X, s.serverRev, fsm.headRev)
           IN  /\ e.client \in Client /\ s.waitingForAck /\ s.active
               /\ Proposed(e.client, s, up[e.client], Proposals(e.client))
               /\ Proposals(e.client) = {e} /\ s.serverRev \in Nat /\ s.serverRev <= fsm.headRev
               /\ Outcome(fsm, e) = "applied"
               /\ e.sub = s.nextSubmissionId /\ s.nextSubmissionId \in Nat
               /\ fsm' = Accept(fsm, e, cs) /\ cs \in CharChangeset
               /\ Sound(fsm') /\ \A r \in 0..fsm.headRev : TextAt(r)' = TextAt(r)
<1> DEFINE c == e.client
           s == page[e.client]
           H == fsm.headRev
           b == e.base
           k == s.serverRev
           cs == Transformed(fsm, e)
<1>1. /\ e.client \in Client /\ DocumentOK /\ Sound(fsm) /\ H \in Nat
      /\ PageOK(s) /\ s \in PageType
      /\ ConnectionOK(c, s, up[c], down[c], registered[c])
      /\ SubmissionOK(c, s, up[c], Proposals(c))
  BY DEF IInv, ServersOK, ThisClientOK, ClientOK, PageOK, DocumentOK, Sound
<1>2. e \in Proposals(c)
  BY DEF Proposals
<1>3. s.waitingForAck
  BY <1>1, <1>2 DEF SubmissionOK
<1>4. s.active /\ s.A # Null
  BY <1>1, <1>3, ActiveWorks DEF PageOK, Working
<1>5. /\ Proposed(c, s, up[c], Proposals(c)) /\ fsm.clientLastSubmission[c] < s.nextSubmissionId
  BY <1>1, <1>2, <1>3 DEF SubmissionOK, Waiting, Unsent, OnItsWay, Committed
<1>6. Proposals(c) = {e} /\ IsSubmission(s, e.sub, e.base, e.changeset)
  <2>1. PICK x \in Proposals(c) : Proposals(c) = {x} /\ IsSubmission(s, x.sub, x.base, x.changeset)
    BY <1>5 DEF Proposed
  <2>2. x = e
    BY <1>2, <2>1
  <2>. QED
    BY <2>1, <2>2
<1>7. k \in Nat /\ k <= H /\ b \in 0..k /\ b \in 0..H /\ b \in Nat /\ b <= k
  BY <1>1, <1>4, <1>6 DEF PageOK, PageType, IsSubmission
<1>8. /\ Suits(TextAt(b), e.changeset) /\ e.changeset \in CharChangeset
      /\ e.sub = s.nextSubmissionId /\ CaughtUp(e.changeset, b, k) = s.X
  BY <1>6 DEF IsSubmission
<1>9. Suits(fsm.headText, cs)
  BY <1>1, <1>7, <1>8, TransformedSuits DEF TextAt
<1>10. cs \in CharChangeset
  <2>1. e.changeset.ops \in Seq(OpsOver(Char)) /\ Closed(OpsOver(Char))
    BY <1>8, CharIs, OverClosed DEF CharChangeset
  <2>2. cs.ops \in Seq(OpsOver(Char))
    BY <1>1, <1>7, <2>1, TransformedWithin
  <2>. QED
    BY <1>9, <2>2 DEF CharChangeset, Suits
<1>11. cs = CaughtUp(s.X, k, H)
  <2>1. cs = CaughtUpBy(fsm, e.changeset, b, H)
    BY <1>1, <1>7, TransformedIsCaughtUp
  <2> HIDE DEF cs, b, k, H
  <2>2. CaughtUpBy(fsm, CaughtUpBy(fsm, e.changeset, b, k), k, H) = CaughtUpBy(fsm, e.changeset, b, H)
    BY <1>1, <1>7, CaughtUpInParts
  <2>. QED
    BY <1>8, <2>1, <2>2 DEF CaughtUp
<1>12. Outcome(fsm, e) = "applied"
  <2>1. ~IsDuplicate(fsm, e)
    <3>1. fsm.clientLastSubmission[c] \in Int /\ s.nextSubmissionId \in Int
      BY <1>1 DEF DocumentOK, PageType
    <3>. QED
      BY <1>5, <1>8, <3>1 DEF IsDuplicate
  <2>2. Outcome(fsm, e) # "failed"
    BY <1>1, <1>7, <1>8, SuitingApplies DEF TextAt
  <2>. QED
    BY <2>1, <2>2 DEF Outcome
<1>13. fsm' = ApplyEntry(fsm, e)
  BY DEF Commit
<1>14. fsm' = Accept(fsm, e, cs)
  BY <1>12, <1>13 DEF ApplyEntry
<1>15. Formed(e.changeset) /\ Len(fsm.revisionLog) = fsm.headRev /\ IsSeq(fsm.revisionLog)
  BY <1>1, <1>8 DEF Formed, Suits, DocumentOK
<1> HIDE DEF cs
<1>16. Sound(fsm') /\ \A r \in 0..fsm.headRev : ReplayTo(fsm', r) = ReplayTo(fsm, r)
  BY <1>1, <1>7, <1>13, <1>15, ApplySound
<1>17. \A r \in 0..fsm.headRev : TextAt(r)' = TextAt(r)
  BY <1>16 DEF TextAt
<1>18. s.nextSubmissionId \in Nat
  BY <1>1 DEF PageType
<1>. QED
  BY <1>1, <1>3, <1>4, <1>5, <1>6, <1>7, <1>8, <1>10, <1>11, <1>12, <1>14, <1>16, <1>17, <1>18

\* An entry that is accepted makes the document grow.
LEMMA AcceptGrows ==
    ASSUME DocumentOK, NEW e, e.client \in Client, NEW cs, fsm' = Accept(fsm, e, cs),
           \A r \in 0..fsm.headRev : TextAt(r)' = TextAt(r)
    PROVE  /\ Grown(e.client, cs)
           /\ IsSeq(fsm'.revisionLog) /\ Len(fsm'.revisionLog) = fsm'.headRev
           /\ fsm'.clientLastSubmission = [fsm.clientLastSubmission EXCEPT ![e.client] = e.sub]
<1> DEFINE rec == RevisionRecord(fsm, e, cs)
<1>1. /\ IsSeq(fsm.revisionLog) /\ Len(fsm.revisionLog) = fsm.headRev /\ fsm.headRev \in Nat
      /\ fsm.clientLastSubmission \in [Client -> Int]
  BY DEF DocumentOK, Sound
<1>2. /\ fsm'.headRev = fsm.headRev + 1
      /\ fsm'.revisionLog = Append(fsm.revisionLog, rec)
      /\ fsm'.clientLastSubmission = [fsm.clientLastSubmission EXCEPT ![e.client] = e.sub]
  BY DEF Accept
<1>3. rec.source = e.client /\ rec.changeset = cs
  BY DEF RevisionRecord
<1> HIDE DEF rec
<1>4. /\ IsSeq(fsm'.revisionLog) /\ Len(fsm'.revisionLog) = fsm'.headRev
      /\ \A r \in 1..fsm.headRev : fsm'.revisionLog[r] = fsm.revisionLog[r]
      /\ fsm'.revisionLog[fsm.headRev + 1] = rec
  BY <1>1, <1>2, AppendSeq
<1>5. \A c \in Client \ {e.client} : fsm'.clientLastSubmission[c] = fsm.clientLastSubmission[c]
  BY <1>1, <1>2
<1>. QED
  BY <1>1, <1>2, <1>3, <1>4, <1>5 DEF Grown

\* What the earlier revisions make of a changeset stays as it is.
LEMMA GrownCatchUp ==
    ASSUME NEW a, NEW C, Grown(a, C), NEW cs, NEW b \in Nat, NEW r \in 0..fsm.headRev
    PROVE  CaughtUp(cs, b, r)' = CaughtUp(cs, b, r)
<1>1. fsm.headRev \in Nat /\ \A i \in 1..fsm.headRev : fsm'.revisionLog[i] = fsm.revisionLog[i]
  BY DEF Grown
<1>2. CaughtUpBy(fsm', cs, b, r) = CaughtUpBy(fsm, cs, b, r)
  BY <1>1, CaughtUpKept
<1>. QED
  BY <1>2 DEF CaughtUp

\* A page stays at its revision.
LEMMA GrownPage ==
    ASSUME NEW a, NEW cs, Grown(a, cs), NEW s, PageOK(s)
    PROVE  PageOK(s)'
<1>1. s \in PageType /\ s.serverRev \in Nat
  BY DEF PageOK, PageType
<1>2. s.serverRev <= fsm.headRev => TextAt(s.serverRev)' = TextAt(s.serverRev) /\ s.serverRev <= fsm'.headRev
  BY <1>1 DEF Grown
<1>. QED
  BY <1>1, <1>2 DEF PageOK, PageType

\* No revision of c's is added.
LEMMA GrownNoneOwn ==
    ASSUME NEW a, NEW cs, Grown(a, cs), NEW c, c # a, NEW k \in Nat, NoneOwn(c, k)
    PROVE  NoneOwn(c, k)'
<1>1. ASSUME NEW r \in k + 1..fsm.headRev + 1 PROVE fsm'.revisionLog[r].source # c
  <2>1. CASE r = fsm.headRev + 1
    BY <2>1 DEF Grown
  <2>2. CASE r # fsm.headRev + 1
    <3>1. r \in 1..fsm.headRev /\ r \in k + 1..fsm.headRev
      BY <2>2 DEF Grown
    <3>. QED
      BY <3>1 DEF Grown, NoneOwn
  <2>. QED
    BY <2>1, <2>2
<1>. QED
  BY <1>1 DEF NoneOwn, Grown

\* What another client's submission is stays as it is.
LEMMA GrownSubmission ==
    ASSUME NEW a, NEW cs, Grown(a, cs), NEW c \in Client, c # a,
           NEW s, PageOK(s), NEW u, NEW p, SubmissionOK(c, s, u, p), s.waitingForAck => s.A # Null
    PROVE  SubmissionOK(c, s, u, p)'
<1> DEFINE H == fsm.headRev
           k == s.serverRev
<1>1. /\ H \in Nat /\ k \in Nat /\ fsm'.headRev = H + 1
      /\ fsm'.clientLastSubmission[c] = fsm.clientLastSubmission[c]
      /\ s.A # Null => k <= H
  BY DEF PageOK, PageType, Grown
<1>2. NoneOwn(c, k) => NoneOwn(c, k)'
  BY <1>1, GrownNoneOwn
<1>3. ASSUME NEW sub, NEW b, NEW C, IsSubmission(s, sub, b, C), s.A # Null
      PROVE  IsSubmission(s, sub, b, C)'
  <2>1. b \in 0..H /\ b \in Nat /\ k \in 0..H
    BY <1>1, <1>3 DEF IsSubmission
  <2>2. TextAt(b)' = TextAt(b)
    BY <2>1 DEF Grown
  <2>3. CaughtUp(C, b, k)' = CaughtUp(C, b, k)
    BY <2>1, GrownCatchUp
  <2>. QED
    BY <1>3, <2>2, <2>3 DEF IsSubmission
<1>4. ASSUME Committed(c, s, u, p), s.A # Null
      PROVE  Committed(c, s, u, p)'
  <2>1. PICK r \in k + 1..H :
          /\ fsm.revisionLog[r].source = c
          /\ \A q \in k + 1..H : fsm.revisionLog[q].source = c => q = r
          /\ fsm.revisionLog[r].changeset = CaughtUp(s.X, k, r - 1)
    BY <1>4 DEF Committed
  <2>2. r \in 1..H /\ r - 1 \in 0..H /\ r \in k + 1..H + 1
    BY <1>1, <2>1
  <2>3. fsm'.revisionLog[r] = fsm.revisionLog[r]
    BY <2>2 DEF Grown
  <2>4. CaughtUp(s.X, k, r - 1)' = CaughtUp(s.X, k, r - 1)
    <3> DEFINE i == r - 1
    <3>1. i \in 0..H
      BY <2>2
    <3> HIDE DEF i
    <3>2. CaughtUp(s.X, k, i)' = CaughtUp(s.X, k, i)
      BY <1>1, <3>1, GrownCatchUp
    <3>. QED
      BY <3>2 DEF i
  <2>5. ASSUME NEW q \in k + 1..H + 1, fsm'.revisionLog[q].source = c
        PROVE  q = r
    <3>1. q # H + 1
      BY <2>5 DEF Grown
    <3>2. q \in 1..H /\ q \in k + 1..H
      BY <1>1, <3>1
    <3>. QED
      BY <2>1, <2>5, <3>2 DEF Grown
  <2>. QED
    BY <1>1, <1>4, <2>1, <2>2, <2>3, <2>4, <2>5 DEF Committed
<1>5. s.A # Null => /\ Unsent(c, s, u, p) => Unsent(c, s, u, p)'
                    /\ OnItsWay(c, s, u, p) => OnItsWay(c, s, u, p)'
                    /\ Proposed(c, s, u, p) => Proposed(c, s, u, p)'
  BY <1>2, <1>3 DEF Unsent, OnItsWay, Proposed
<1>. QED
  BY <1>1, <1>2, <1>4, <1>5 DEF SubmissionOK, Waiting

\* The author's submission is the revision.
LEMMA GrownAuthor ==
    ASSUME NEW a, NEW s, s.serverRev \in Nat, s.serverRev <= fsm.headRev, s.waitingForAck,
           NEW cs, cs = CaughtUp(s.X, s.serverRev, fsm.headRev), Grown(a, cs),
           NoneOwn(a, s.serverRev), s.nextSubmissionId \in Nat,
           fsm'.clientLastSubmission[a] = s.nextSubmissionId
    PROVE  SubmissionOK(a, s, <<>>, {})'
<1>0. PICK H : H = fsm.headRev
  OBVIOUS
<1> DEFINE k == s.serverRev
           r == H + 1
<1>1. H \in Nat /\ fsm'.headRev = H + 1
  BY <1>0 DEF Grown
<1>2. r \in k + 1..fsm'.headRev /\ r - 1 = H
  BY <1>0, <1>1
<1>3. fsm'.revisionLog[r].source = a /\ fsm'.revisionLog[r].changeset = cs
  BY <1>0 DEF Grown
<1>4. CaughtUp(s.X, k, H)' = cs
  <2>1. H \in 0..fsm.headRev
    BY <1>0, <1>1
  <2>2. CaughtUp(s.X, k, H)' = CaughtUp(s.X, k, H)
    BY <2>1, GrownCatchUp
  <2>. QED
    BY <1>0, <2>2
<1>5. ASSUME NEW q \in k + 1..fsm'.headRev, fsm'.revisionLog[q].source = a
      PROVE  q = r
  <2>1. CASE q # r
    <3>1. q \in k + 1..H /\ q \in 1..H
      BY <1>0, <1>1, <2>1
    <3>2. fsm.revisionLog[q].source = a
      BY <1>0, <1>5, <3>1 DEF Grown
    <3>. QED
      BY <1>0, <3>1, <3>2 DEF NoneOwn
  <2>. QED
    BY <2>1
<1>6. CaughtUp(s.X, k, r - 1)' = cs
  BY <1>1, <1>2, <1>4
<1>7. Committed(a, s, <<>>, {})'
  BY <1>2, <1>3, <1>5, <1>6 DEF Committed, CaughtUp
<1>. QED
  BY <1>7 DEF SubmissionOK, Waiting

\* The document after an entry is in order.
LEMMA CommitDocument ==
    ASSUME IInv, NEW e \in proposed, Commit(e)
    PROVE  DocumentOK'
<1>0. PICK H : H = fsm.headRev
  OBVIOUS
<1> DEFINE s == page[e.client]
           cs == CaughtUp(s.X, s.serverRev, fsm.headRev)
<1>1. /\ e.client \in Client /\ s.nextSubmissionId \in Nat /\ e.sub = s.nextSubmissionId
      /\ Outcome(fsm, e) = "applied" /\ fsm' = Accept(fsm, e, cs) /\ cs \in CharChangeset
      /\ Sound(fsm') /\ \A r \in 0..fsm.headRev : TextAt(r)' = TextAt(r)
  BY CommitGrows
<1>2. DocumentOK
  BY DEF IInv
<1>3. PICK C : C = cs
  OBVIOUS
<1> HIDE DEF cs
<1>4. /\ Grown(e.client, C)
      /\ IsSeq(fsm'.revisionLog) /\ Len(fsm'.revisionLog) = fsm'.headRev
      /\ fsm'.clientLastSubmission = [fsm.clientLastSubmission EXCEPT ![e.client] = e.sub]
  BY <1>1, <1>2, <1>3, AcceptGrows
<1>5. /\ H \in Nat /\ fsm'.headRev = H + 1
      /\ \A r \in 1..H : fsm'.revisionLog[r] = fsm.revisionLog[r]
      /\ fsm'.revisionLog[H + 1].source = e.client /\ fsm'.revisionLog[H + 1].changeset = C
  BY <1>0, <1>4 DEF Grown
<1>6. ASSUME NEW r \in 1..H + 1
      PROVE  fsm'.revisionLog[r].changeset \in CharChangeset /\ fsm'.revisionLog[r].source \in Client
  <2>1. CASE r = H + 1
    BY <1>1, <1>3, <1>5, <2>1
  <2>2. CASE r # H + 1
    <3>1. r \in 1..H
      BY <1>5, <2>2
    <3>. QED
      BY <1>0, <1>2, <1>5, <3>1 DEF DocumentOK
  <2>. QED
    BY <2>1, <2>2
<1>7. IsRun(results', [r \in 1..fsm'.headRev |-> Result(r)'], 0, fsm'.headRev)
  <2> DEFINE f == [r \in 1..H |-> Result(r)]
             g == [r \in 1..H + 1 |-> Result(r)']
             x == [client |-> e.client, rev |-> H + 1, outcome |-> "applied"]
  <2>1. IsRun(results, f, 0, H)
    BY <1>0, <1>2 DEF DocumentOK
  <2>2. \A r \in 1..H : g[r] = f[r]
    BY <1>5 DEF Result
  <2>3. g[H + 1] = x
    BY <1>5 DEF Result
  <2>4. results' = Append(results, x)
    BY <1>0, <1>1, <1>5 DEF Commit, ApplyEntry, Accept
  <2> HIDE DEF f, g, x
  <2>5. IsRun(results, g, 0, H)
    BY <1>5, <2>1, <2>2, RunSame
  <2>6. IsRun(Append(results, x), g, 0, H + 1)
    BY <1>5, <2>3, <2>5, RunAppend
  <2>. QED
    BY <1>5, <2>4, <2>6 DEF g
<1>8. fsm'.clientLastSubmission \in [Client -> Int]
  BY <1>1, <1>2, <1>4 DEF DocumentOK
<1>9. /\ nulls' \subseteq 1..fsm'.headRev /\ ("null" \notin Races => nulls' = {})
      /\ \A r \in nulls' : fsm'.revisionLog[r].changeset.ops = <<>>
  <2>1. nulls \subseteq 1..H /\ \A r \in nulls : fsm'.revisionLog[r].changeset.ops = <<>>
    BY <1>0, <1>2, <1>5 DEF DocumentOK
  <2>2. ApplyEntry(fsm, e) = fsm' /\ nulls' \subseteq nulls \cup {fsm'.headRev}
        /\ (nulls' # nulls => Transformed(fsm, e).ops = <<>>)
    BY DEF Commit, NilOps
  <2>3. C = Transformed(fsm, e)
    <3>1. fsm' = Accept(fsm, e, Transformed(fsm, e))
      BY <1>1, <2>2 DEF ApplyEntry
    <3>2. Grown(e.client, Transformed(fsm, e))
      BY <1>1, <1>2, <3>1, AcceptGrows
    <3>. QED
      BY <1>0, <1>5, <3>2 DEF Grown
  <2>4. "null" \notin Races => nulls' = nulls
    BY DEF Commit, Allowed
  <2>. QED
    BY <1>2, <1>5, <2>1, <2>2, <2>3, <2>4 DEF DocumentOK
<1>. QED
  BY <1>1, <1>4, <1>5, <1>6, <1>7, <1>8, <1>9 DEF DocumentOK, IsRun, IsSeq

\* The leader has applied the entry and not called back.
LEMMA CommitServers ==
    ASSUME IInv, Orderly, NEW e \in proposed, Commit(e)
    PROVE  /\ ServersOK'
           /\ leader' = leader /\ leader \in Node /\ NoneConnecting(leader)
           /\ Called(leader)' = Called(leader) /\ Called(leader) \in 0..fsm.headRev
           /\ applied[leader] = fsm.headRev /\ applied'[leader] = fsm'.headRev
           /\ \A n \in Node \ {leader} : applied'[n] = applied[n] /\ pending'[n] = pending[n]
<1>0. PICK H : H = fsm.headRev
  OBVIOUS
<1>1. /\ e.client \in Client /\ Outcome(fsm, e) = "applied" /\ fsm'.headRev = H + 1
  BY <1>0, CommitGrows DEF Accept
<1>2. /\ H \in Nat /\ Len(results) = H
      /\ \A n \in Node : /\ applied[n] \in 0..H /\ applied[n] \in Nat /\ Called(n) \in Nat
                         /\ IsRun(pending[n], results, Called(n), applied[n])
  BY <1>0, ServersAre
<1>3. /\ leader \in Node \cup {None} /\ applied \in [Node -> 0..H] /\ DOMAIN pending = Node
      /\ typed \in [Client -> 0..MaxTyped] /\ \A x \in proposed : x.client \in Client
      /\ DOMAIN page = Client /\ DOMAIN up = Client /\ DOMAIN down = Client /\ DOMAIN registered = Client
  BY <1>0 DEF IInv, ServersOK
<1> DEFINE x == [client |-> e.client, rev |-> H + 1, outcome |-> "applied"]
<1>4. /\ leader # None /\ applied[leader] = H /\ NoneConnecting(leader)
      /\ leader' = leader /\ page' = page /\ up' = up /\ down' = down /\ registered' = registered
      /\ typed' = typed /\ proposed' = proposed \ {e}
      /\ results' = Append(results, x)
      /\ applied' = [applied EXCEPT ![leader] = H + 1]
      /\ pending' = [pending EXCEPT ![leader] = Append(pending[leader], x)]
  <2>1. ApplyEntry(fsm, e).headRev = H + 1
    BY <1>1 DEF Commit
  <2>2. /\ leader # None /\ applied[leader] = Len(results) /\ NoneConnecting(leader)
        /\ leader' = leader /\ page' = page /\ up' = up /\ down' = down /\ registered' = registered
        /\ typed' = typed /\ proposed' = proposed \ {e}
        /\ applied' = [applied EXCEPT ![leader] = @ + 1]
    BY DEF Commit, Allowed, Orderly, netVars, userVars
  <2>3. results' = Append(results, x) /\ pending' = Started(leader, x)
    BY <1>1, <2>1 DEF Commit
  <2> HIDE DEF x
  <2>4. x.outcome = "applied"
    BY DEF x
  <2>5. pending' = [pending EXCEPT ![leader] = Append(pending[leader], x)]
    BY <2>3, <2>4 DEF Started
  <2>. QED
    BY <1>2, <2>2, <2>3, <2>5
<1>5. leader \in Node
  BY <1>3, <1>4
<1> HIDE DEF x
<1>6. applied'[leader] = H + 1 /\ pending'[leader] = Append(pending[leader], x)
  BY <1>3, <1>4, <1>5
<1>7. \A n \in Node \ {leader} : applied'[n] = applied[n] /\ pending'[n] = pending[n]
  BY <1>3, <1>4
<1>8. IsSeq(results) /\ \A i \in 1..H : results'[i] = results[i]
  <2>1. IsSeq(results)
    BY DEF IInv, DocumentOK, IsRun
  <2>. QED
    BY <1>2, <1>4, <2>1, AppendSeq
<1>9. results'[H + 1] = x
  BY <1>2, <1>4, <1>8, AppendSeq
<1>10. PICK l : l = leader
  OBVIOUS
<1>11. /\ IsRun(pending[l], results', Called(l), H)
       /\ Called(l) + Len(pending[l]) = H /\ IsSeq(pending[l]) /\ Len(pending[l]) \in Nat
  <2>1. IsRun(pending[l], results, Called(l), H)
    BY <1>2, <1>4, <1>5, <1>10
  <2>2. Called(l) + Len(pending[l]) = H /\ IsSeq(pending[l]) /\ Len(pending[l]) \in Nat
    BY <2>1, LenProperties DEF IsRun, IsSeq
  <2>. QED
    BY <1>2, <1>5, <1>8, <1>10, <2>1, <2>2, RunSame
<1>12. Called(l)' = Called(l)
  <2>1. Len(Append(pending[l], x)) = Len(pending[l]) + 1
    BY <1>11, AppendSeq
  <2>2. applied'[l] = H + 1 /\ pending'[l] = Append(pending[l], x)
    BY <1>6, <1>10
  <2>3. Called(l)' = (H + 1) - (Len(pending[l]) + 1)
    BY <2>1, <2>2 DEF Called
  <2>4. Called(l) \in Nat
    BY <1>2, <1>5, <1>10
  <2>5. \A m, k \in Nat : k + m = H => (H + 1) - (m + 1) = k
    BY <1>2
  <2>. QED
    BY <1>11, <2>3, <2>4, <2>5
<1>13. ASSUME NEW n \in Node
       PROVE  Called(n)' \in Nat /\ IsRun(pending'[n], results', Called(n)', applied'[n])
  <2>1. CASE n = l
    <3>1. IsRun(Append(pending[l], x), results', Called(l), H + 1)
      BY <1>2, <1>5, <1>9, <1>10, <1>11, RunAppend
    <3>. QED
      BY <1>2, <1>5, <1>6, <1>10, <1>12, <2>1, <3>1
  <2>2. CASE n # l
    <3>1. applied'[n] = applied[n] /\ pending'[n] = pending[n]
      BY <1>7, <1>10, <2>2
    <3>2. Called(n)' = Called(n)
      BY <3>1 DEF Called
    <3>3. applied[n] <= H
      BY <1>2
    <3>4. IsRun(pending[n], results', Called(n), applied[n])
      BY <1>2, <1>8, <3>3, RunSame
    <3>. QED
      BY <1>2, <3>1, <3>2, <3>4
  <2>. QED
    BY <2>1, <2>2
<1>14. applied' \in [Node -> 0..H + 1]
  BY <1>2, <1>3, <1>4
<1>15. ServersOK'
  <2>1. \A n \in Node : IsRun(pending[n], results, Called(n), applied[n])'
    BY <1>13 DEF IsRun, IsSeq
  <2>. QED
    BY <1>1, <1>3, <1>4, <1>13, <1>14, <2>1 DEF ServersOK
<1>16. Called(leader)' = Called(leader) /\ Called(leader) \in 0..H
  <2>1. Called(l) \in 0..H
    BY <1>2, <1>5, <1>10, <1>11
  <2>2. leader' = l /\ leader = l
    BY <1>4, <1>10
  <2>. QED
    BY <1>12, <2>1, <2>2
<1>. QED
  BY <1>0, <1>1, <1>4, <1>5, <1>6, <1>7, <1>15, <1>16

\* The connections go on; what the leader has yet to send is one message more.
LEMMA GrownConnection ==
    ASSUME NEW a, NEW cs, Grown(a, cs), nulls \subseteq nulls', leader' = leader, leader \in Node,
           Called(leader)' = Called(leader), Called(leader) \in 0..fsm.headRev,
           applied'[leader] = fsm'.headRev,
           \A n \in Node \ {leader} : applied'[n] = applied[n] /\ pending'[n] = pending[n],
           NEW c, NEW s \in PageType, NEW u, NEW d, NEW g, ConnectionOK(c, s, u, d, g),
           s.server = leader => g # "connecting", c = a => s.active
    PROVE  ConnectionOK(c, s, u, d, g)'
<1>0. PICK H, k : H = fsm.headRev /\ k = Called(leader)
  OBVIOUS
<1>1. /\ H \in Nat /\ fsm'.headRev = H + 1 /\ k \in 0..H /\ k \in Nat
      /\ s.server \in Node /\ s.serverRev \in Nat
  BY <1>0 DEF Grown, PageType
<1>2. \A r \in 1..k : AllNews(c)'[r] = AllNews(c)[r]
  <2>1. SUFFICES ASSUME NEW r \in 1..k PROVE AllNews(c)'[r] = AllNews(c)[r]
    OBVIOUS
  <2>2. r \in 1..H /\ r \in 1..H + 1
    BY <1>1
  <2>3. fsm'.revisionLog[r] = fsm.revisionLog[r]
    BY <1>0, <2>2 DEF Grown
  <2>4. News(c, r)' = News(c, r)
    BY <2>3 DEF News
  <2>. QED
    BY <1>0, <1>1, <2>2, <2>4 DEF AllNews
<1>3. ASSUME AtLeader(s, g), NEW q, NEW m \in Nat, IsRun(q, AllNews(c), m, Called(s.server))
      PROVE  AtLeader(s, g)' /\ IsRun(q, AllNews(c), m, Called(s.server))'
  <2>1. s.server = leader /\ Called(s.server) = k /\ Called(s.server)' = k
    BY <1>0, <1>3 DEF AtLeader
  <2>2. IsRun(q, AllNews(c)', m, k)
    BY <1>1, <1>2, <1>3, <2>1, RunSame
  <2>. QED
    BY <1>1, <1>3, <2>1, <2>2 DEF AtLeader, OneSocket, IsRun, IsSeq
<1>4. CASE Away(s, u, d, g) \/ SentAway(s, u, d, g) \/ (Asking(s, u, d, g) /\ g # "connecting")
  BY <1>4, AwaySame
<1>5. CASE Asking(s, u, d, g) /\ g = "connecting"
  <2>1. s.server # leader /\ leader # None /\ leader \notin {s.server, None}
    BY <1>5, SystemAssumption
  <2>2. pending'[s.server] = pending[s.server]
    BY <1>1, <2>1
  <2>. QED
    BY <1>5, <2>1, <2>2 DEF Asking, OneSocket, ConnectionOK
<1>6. CASE Answered(c, s, u, d, g)
  <2>1. /\ AtLeader(s, g) /\ ~s.active /\ u = <<>> /\ IsSeq(d) /\ d # <<>>
    BY <1>6 DEF Answered
  <2>2. PICK r \in s.serverRev..fsm.headRev :
          /\ Head(d) = ConnectAckMsg(s.serverRev, r)
          /\ IsRun(Tail(d), AllNews(c), r, Called(s.server))
          /\ NoneOwn(c, r) /\ Near(s, r)
    BY <1>6 DEF Answered
  <2>3. r \in Nat /\ r \in s.serverRev..fsm'.headRev
    BY <1>0, <1>1, <2>2
  <2>4. NoneOwn(c, r)'
    BY <2>1, <2>2, <2>3, GrownNoneOwn
  <2>5. AtLeader(s, g)' /\ IsRun(Tail(d), AllNews(c), r, Called(s.server))'
    BY <1>3, <2>1, <2>2, <2>3
  <2>6. (Head(d) = ConnectAckMsg(s.serverRev, r))' /\ IsSeq(d)'
    BY <2>1, <2>2 DEF ConnectAckMsg, IsSeq
  <2>8. Near(s, r)'
    BY <2>2 DEF Near
  <2>7. Answered(c, s, u, d, g)'
    BY <2>1, <2>3, <2>4, <2>5, <2>6, <2>8 DEF Answered
  <2>. QED
    BY <2>7 DEF ConnectionOK
<1>7. CASE Working(c, s, u, d, g)
  <2>1. PICK p \in Nat : Told(c, s, d, p)
    BY <1>7 DEF Working
  <2>2. AtLeader(s, g) /\ IsRun(d, AllNews(c), p, Called(s.server)) /\ p \in s.serverRev..fsm.headRev
    BY <1>7, <2>1 DEF Working, Told
  <2>3. AtLeader(s, g)' /\ IsRun(d, AllNews(c), p, Called(s.server))'
    BY <1>3, <2>2
  <2>4. p \in s.serverRev..fsm'.headRev
    BY <1>0, <1>1, <2>2
  <2>5. Passed(c, s.serverRev, p)'
    <3>1. SUFFICES ASSUME NEW r \in s.serverRev + 1..p
                   PROVE  r \in nulls' /\ fsm'.revisionLog[r].source # c
      BY DEF Passed
    <3>2. r \in nulls /\ fsm.revisionLog[r].source # c
      BY <2>1 DEF Told, Passed
    <3>3. r \in 1..fsm.headRev
      BY <1>0, <1>1, <2>2
    <3>. QED
      BY <3>2, <3>3 DEF Grown
  <2>6. Told(c, s, d, p)'
    BY <2>3, <2>4, <2>5 DEF Told
  <2>7. Working(c, s, u, d, g)'
    BY <1>7, <2>3, <2>6 DEF Working
  <2>. QED
    BY <2>7 DEF ConnectionOK
<1>. QED
  BY <1>4, <1>5, <1>6, <1>7 DEF ConnectionOK

\* An entry is committed.
LEMMA CommitStep ==
    ASSUME IInv, Orderly, NEW e \in proposed, Commit(e)
    PROVE  IInv'
<1> DEFINE a == e.client
<1>1. PICK cs : cs = CaughtUp(page[a].X, page[a].serverRev, fsm.headRev)
  OBVIOUS
<1>2. /\ a \in Client /\ page[a].waitingForAck /\ page[a].active
      /\ Proposed(a, page[a], up[a], Proposals(a)) /\ Proposals(a) = {e}
      /\ page[a].serverRev \in Nat /\ page[a].serverRev <= fsm.headRev
      /\ e.sub = page[a].nextSubmissionId /\ page[a].nextSubmissionId \in Nat
      /\ fsm' = Accept(fsm, e, cs)
      /\ \A r \in 0..fsm.headRev : TextAt(r)' = TextAt(r)
  BY <1>1, CommitGrows
<1>3. DocumentOK /\ DocumentOK'
  BY CommitDocument DEF IInv
<1>4. /\ Grown(a, cs)
      /\ fsm'.clientLastSubmission = [fsm.clientLastSubmission EXCEPT ![a] = e.sub]
  BY <1>2, <1>3, AcceptGrows
<1>5. /\ ServersOK' /\ leader' = leader /\ leader \in Node /\ NoneConnecting(leader)
      /\ Called(leader)' = Called(leader) /\ Called(leader) \in 0..fsm.headRev
      /\ applied'[leader] = fsm'.headRev
      /\ \A n \in Node \ {leader} : applied'[n] = applied[n] /\ pending'[n] = pending[n]
  BY CommitServers
<1>6. /\ page' = page /\ up' = up /\ down' = down /\ registered' = registered
      /\ proposed' = proposed \ {e} /\ nulls \subseteq nulls'
  BY DEF Commit, netVars
<1>7. ASSUME NEW c \in Client
      PROVE  ThisClientOK(c)'
  <2> DEFINE s == page[c]
             u == up[c]
             d == down[c]
             g == registered[c]
             p == Proposals(c)
  <2>1. /\ PageOK(s) /\ ConnectionOK(c, s, u, d, g) /\ SubmissionOK(c, s, u, p) /\ s \in PageType
    BY DEF IInv, ThisClientOK, ClientOK, PageOK
  <2>2. page'[c] = s /\ up'[c] = u /\ down'[c] = d /\ registered'[c] = g
    BY <1>6
  <2>3. PageOK(page[c])'
    <3>1. \A x : PageOK(x) => PageOK(x)'
      BY <1>4, GrownPage
    <3> HIDE DEF s
    <3>. QED
      BY <2>1, <2>2, <3>1
  <2>4. ConnectionOK(c, page[c], up[c], down[c], registered[c])'
    <3>1. \A x \in PageType : \A y, z, w :
            /\ ConnectionOK(c, x, y, z, w)
            /\ x.server = leader => w # "connecting"
            /\ c = a => x.active
            => ConnectionOK(c, x, y, z, w)'
      BY <1>4, <1>5, <1>6, GrownConnection
    <3>2. s.server = leader => g # "connecting"
      BY <1>5 DEF NoneConnecting
    <3>3. c = a => s.active
      BY <1>2
    <3> HIDE DEF s, u, d, g, a
    <3>. QED
      BY <2>1, <2>2, <3>1, <3>2, <3>3
  <2>5. SubmissionOK(c, page[c], up[c], Proposals(c))'
    <3>1. CASE c = a
      <4>1. Proposals(c)' = {} /\ u = <<>>
        BY <1>2, <1>6, <3>1 DEF Proposals, Proposed
      <4>2. NoneOwn(a, s.serverRev)
        BY <1>2, <3>1 DEF Proposed
      <4>3. fsm'.clientLastSubmission[c] = s.nextSubmissionId
        BY <1>2, <1>3, <1>4, <3>1 DEF DocumentOK
      <4>4. \A x : /\ x.serverRev \in Nat /\ x.serverRev <= fsm.headRev /\ x.waitingForAck
                   /\ cs = CaughtUp(x.X, x.serverRev, fsm.headRev)
                   /\ NoneOwn(c, x.serverRev) /\ x.nextSubmissionId \in Nat
                   /\ fsm'.clientLastSubmission[c] = x.nextSubmissionId
                   => SubmissionOK(c, x, <<>>, {})'
        BY <1>4, <3>1, GrownAuthor
      <4>5. /\ s.serverRev \in Nat /\ s.serverRev <= fsm.headRev /\ s.waitingForAck
            /\ cs = CaughtUp(s.X, s.serverRev, fsm.headRev) /\ s.nextSubmissionId \in Nat
            /\ NoneOwn(c, s.serverRev)
        BY <1>1, <1>2, <3>1, <4>2
      <4> HIDE DEF s, u, a
      <4>. QED
        BY <4>3, <4>4, <4>5, <2>2, <4>1
    <3>2. CASE c # a
      <4>1. Proposals(c)' = p
        BY <1>6, <3>2 DEF Proposals
      <4>2. s.waitingForAck => s.A # Null
        BY <2>1, ActiveWorks DEF PageOK, Working
      <4>3. \A x, y, z : PageOK(x) /\ SubmissionOK(c, x, y, z) /\ (x.waitingForAck => x.A # Null)
              => SubmissionOK(c, x, y, z)'
        BY <1>4, <3>2, GrownSubmission
      <4> HIDE DEF s, u, p
      <4>. QED
        BY <2>1, <2>2, <4>1, <4>2, <4>3
    <3>. QED
      BY <3>1, <3>2
  <2>. QED
    BY <2>3, <2>4, <2>5 DEF ThisClientOK, ClientOK
<1>. QED
  BY <1>3, <1>5, <1>7 DEF IInv

-------------------------------------------------------------------------------
(* The invariant.                                                          *)

\* The first state satisfies the invariant.
LEMMA InitOK ==
    ASSUME Init
    PROVE  IInv
<1>1. fsm.headText = <<>> /\ fsm.headRev = 0 /\ fsm.revisionLog = <<>>
      /\ fsm.clientLastSubmission = [c \in Client |-> -1]
  BY DEF Init, NewDocumentStateMachine, Unseen
<1>2. Sound(fsm)
  BY <1>1, ReplayIs DEF Sound
<1>3. \A f : IsRun(<<>>, f, 0, 0)
  BY RunEmpty
<1>4. DocumentOK
  <2>1. results = <<>> /\ nulls = {} /\ IsSeq(<<>>) /\ Len(<<>>) = 0
    BY EmptySeq DEF Init, IsSeq
  <2>. QED
    BY <1>1, <1>2, <1>3, <2>1 DEF DocumentOK
<1>5. ServersOK
  <2>1. \A n \in Node : Called(n) = 0 /\ IsRun(pending[n], results, 0, 0) /\ applied[n] = 0
    BY <1>3, EmptySeq DEF Init, Called
  <2>2. typed \in [Client -> 0..MaxTyped]
    BY SystemAssumption DEF Init
  <2>. QED
    BY <1>1, <2>1, <2>2 DEF ServersOK, Init
<1>6. ASSUME NEW c \in Client PROVE ThisClientOK(c)
  <2> DEFINE s == page[c]
  <2>1. s = NewPage(0, leader) /\ up[c] = <<>> /\ down[c] = <<>> /\ registered[c] = "no"
        /\ Proposals(c) = {} /\ leader \in Node
    BY DEF Init, Proposals
  <2>2. <<>> \in Seq(Char)
    BY EmptySeq
  <2>3. s \in PageType /\ s.A = Null /\ s.X = Null /\ s.serverRev = 0 /\ s.nextSubmissionId = 0
        /\ ~s.waitingForAck /\ ~s.active /\ s.editor = s.baseText /\ s.socket = "none" /\ s.closing = 0
    BY <2>1, <2>2 DEF NewPage, PageType
  <2> HIDE DEF s
  <2>4. PageOK(s)
    BY <2>3 DEF PageOK
  <2>5. ConnectionOK(c, s, <<>>, <<>>, "no")
    BY <2>3 DEF ConnectionOK, Away
  <2>6. SubmissionOK(c, s, <<>>, {})
    BY <1>1, <2>3 DEF SubmissionOK
  <2>. QED
    BY <2>1, <2>4, <2>5, <2>6 DEF ThisClientOK, ClientOK, s
<1>. QED
  BY <1>4, <1>5, <1>6 DEF IInv

\* Nothing happens.
LEMMA StutterStep ==
    ASSUME IInv, UNCHANGED vars
    PROVE  IInv'
<1>1. /\ Still /\ page' = page /\ up' = up /\ down' = down /\ registered' = registered
      /\ proposed' = proposed /\ typed' = typed
  BY DEF vars, Still, netVars, docVars, userVars
<1>2. PagesSame /\ leader \in Node \cup {None} /\ applied \in [Node -> 0..fsm.headRev] /\ DOMAIN pending = Node
  BY <1>1 DEF PagesSame, IInv, ServersOK
<1>3. \A n \in Node : Called(n)' = Called(n)
  BY <1>1 DEF Still, Called
<1>4. ASSUME NEW c \in Client PROVE ConnectionOK(c, page[c], up[c], down[c], registered[c])'
  <2>1. ConnectionOK(c, page[c], up[c], down[c], registered[c])
    BY DEF IInv, ThisClientOK, ClientOK
  <2>2. \A x, y, z, w : ConnectionOK(c, x, y, z, w) <=> ConnectionOK(c, x, y, z, w)'
    BY <1>1, ConnectionSame DEF Still
  <2>. QED
    BY <1>1, <2>1, <2>2
<1>. QED
  BY <1>1, <1>2, <1>3, <1>4, ServersStep, ServersAre DEF Still

\* No server has an earlier connection to notice the end of.
Noticed == \A c \in Client : leaving[c] = {}

\* It stays so, when it notices each at once.
LEMMA NoticedStep ==
    ASSUME Noticed, Orderly, [Next]_vars
    PROVE  Noticed'
<1>1. \A c : Hangup(c) => leaving' = leaving
  BY DEF Hangup, NoticedLate, Orderly
<1>2. \A c \in Client : ~Removal(c)
  BY DEF Noticed, Removal
<1>3. CASE UNCHANGED vars \/ Users \/ Pages
  BY <1>1, <1>3 DEF vars, netVars, Noticed, Users, Type, Erase, Connect, Pages, Open, Receive,
     ReceiveRedirect, LateClose, Tick, Retry
<1>4. CASE Servers
  BY <1>2, <1>4 DEF netVars, Noticed, Servers, Register, AnswerConnect, Submit, Commit, ApplyNext, Callback
<1>5. CASE Faulty
  <2>1. CASE \E n \in Node : Restart(n)
    BY <2>1 DEF Noticed, Restart
  <2>. QED
    BY <1>1, <1>5, <2>1 DEF netVars, Noticed, Faulty, Disconnect, Reload, ProposalFails, NewLeader
<1>. QED
  BY <1>3, <1>4, <1>5 DEF Next

\* Every step keeps the invariant.
LEMMA StepOK ==
    ASSUME IInv, Noticed, Orderly, OneByte, [Next]_vars
    PROVE  IInv'
<1>1. CASE UNCHANGED vars
  BY <1>1, StutterStep
<1>2. CASE Users
  BY <1>2, TypeStep, EraseStep, ConnectStep DEF Users
<1>3. CASE Pages
  BY <1>3, OpenStep, ReceiveStep, ReceiveRedirectStep, LateCloseStep, TickStep, RetryStep DEF Pages
<1>4. CASE Servers
  <2>1. CASE \E c \in Client : Register(c) \/ AnswerConnect(c) \/ Submit(c)
    BY <2>1, RegisterStep, AnswerConnectStep, SubmitStep
  <2>2. CASE \E e \in proposed : Commit(e)
    BY <2>2, CommitStep
  <2>3. CASE \E n \in Node : ApplyNext(n) \/ Callback(n)
    BY <2>3, ApplyNextStep, CallbackStep
  <2>4. ~\E c \in Client : Removal(c)
    BY DEF Noticed, Removal
  <2>. QED
    BY <1>4, <2>1, <2>2, <2>3, <2>4 DEF Servers
<1>5. CASE Faulty
  <2>1. CASE \E c \in Client : Disconnect(c) \/ Reload(c)
    BY <2>1, DisconnectStep, ReloadStep
  <2>2. CASE \E e \in proposed : ProposalFails(e)
    BY <2>2, ProposalFailsStep
  <2>3. CASE (\E n \in Node : NewLeader(n) \/ Restart(n)) \/ NewLeader(None)
    BY <2>3, NewLeaderStep, RestartStep
  <2>. QED
    BY <1>5, <2>1, <2>2, <2>3 DEF Faulty
<1>. QED
  BY <1>1, <1>2, <1>3, <1>4, <1>5 DEF Next

\* Every state of the orderly runs satisfies the inductive invariant.
LEMMA Invariance ==
    ASSUME Orderly, OneByte
    PROVE  Spec => []IInv
<1>1. Init => IInv /\ Noticed
  BY InitOK DEF Init, Noticed
<1>2. IInv /\ Noticed /\ [Next]_vars => IInv' /\ Noticed'
  BY StepOK, NoticedStep
<1>. QED
  BY <1>1, <1>2, PTL DEF Spec

-------------------------------------------------------------------------------
(* What it means.                                                          *)

\* There are n numbers from 1 to n.
LEMMA CountUpTo ==
    ASSUME NEW n \in Nat
    PROVE  Cardinality(1..n) = n
<1>1. Cardinality(1..n) = IF 1 > n THEN 0 ELSE n - 1 + 1
  BY FS_Interval
<1>. QED
  BY <1>1

\* Every committed entry made a revision, and is one of the results.
LEMMA AllApplied ==
    ASSUME IInv
    PROVE  fsm.headRev = Cardinality({i \in DOMAIN results : results[i].outcome = "applied"})
<1>1. /\ fsm.headRev \in Nat /\ Len(results) = fsm.headRev
      /\ \A r \in 1..fsm.headRev : results[r] = Result(r)
  BY ServersAre
<1>2. DOMAIN results = 1..Len(results)
  BY LenProperties DEF IInv, DocumentOK, IsRun, IsSeq
<1>3. \A r : Result(r).outcome = "applied"
  BY DEF Result
<1>4. {i \in DOMAIN results : results[i].outcome = "applied"} = 1..fsm.headRev
  BY <1>1, <1>2, <1>3
<1>5. Cardinality(1..fsm.headRev) = fsm.headRev
  BY <1>1, CountUpTo
<1>. QED
  BY <1>4, <1>5

\* The invariant gives the types.
LEMMA TypesHold ==
    ASSUME IInv
    PROVE  TypeOK
<1>1. ASSUME NEW c \in Client
      PROVE  /\ page[c].serverRev \in Nat /\ page[c].server \in Node
             /\ page[c].editor \in Seq(Char) /\ page[c].baseText \in Seq(Char)
             /\ page[c].socket \in {"none", "redirected", "opening", "open"}
             /\ page[c].socket # "open" => down[c] = <<>> /\ registered[c] = "no"
             /\ registered[c] \in {"no", "connecting", "yes"}
             /\ typed[c] \in 0..MaxTyped
  <2> DEFINE s == page[c]
             u == up[c]
             d == down[c]
             g == registered[c]
  <2>1. s \in PageType /\ ConnectionOK(c, s, u, d, g) /\ typed[c] \in 0..MaxTyped
    BY DEF IInv, ThisClientOK, ClientOK, PageOK, ServersOK
  <2> HIDE DEF s, u, d, g
  <2>2. /\ s.serverRev \in Nat /\ s.server \in Node
        /\ s.editor \in Seq(Char) /\ s.baseText \in Seq(Char)
        /\ s.socket \in {"none", "redirected", "opening", "open"}
    BY <2>1 DEF PageType
  <2>3. /\ s.socket # "open" => d = <<>> /\ g = "no"
        /\ g \in {"no", "connecting", "yes"}
    BY <2>1 DEF ConnectionOK, Away, Asking, SentAway, Answered, Working, AtLeader, OneSocket
  <2>. QED
    BY <2>1, <2>2, <2>3 DEF s, u, d, g
<1>2. Len(results) = fsm.headRev /\ applied \in [Node -> 0..fsm.headRev] /\ leader \in Node \cup {None}
  BY ServersAre DEF IInv, ServersOK
<1>3. fsm.headRev = Cardinality({i \in DOMAIN results : results[i].outcome = "applied"})
  BY AllApplied
<1>. QED
  BY <1>1, <1>2, <1>3 DEF TypeOK

\* In the orderly runs the page's texts are of what users type, a page without an
\* open socket is neither sent to nor registered, no node is ahead of the committed
\* entries, and the head revision of DocumentStateMachine counts the entries that
\* Apply accepted.
THEOREM EditorTypes ==
    ASSUME Orderly, OneByte
    PROVE  Spec => []TypeOK
<1>1. IInv => TypeOK
  BY TypesHold
<1>. QED
  BY <1>1, Invariance, PTL

\* In the orderly runs the base text of a page is the servers' text at serverRev,
\* and A inserts it: after handleConnectAck, also over any number of missed
\* revisions, handleAck and handleBroadcast.
THEOREM BasesAreRevisions ==
    ASSUME Orderly, OneByte
    PROVE  Spec => []BaseIsRevision
<1>1. IInv => BaseIsRevision
  BY DEF IInv, ThisClientOK, ClientOK, PageOK, BaseIsRevision
<1>. QED
  BY <1>1, Invariance, PTL

\* What is pending suits its text, so it is valid and applies.
LEMMA PendingHolds ==
    ASSUME IInv
    PROVE  PendingFits
<1>1. ASSUME NEW c \in Client, page[c].A # Null
      PROVE  /\ ~Throws(page[c].baseText, page[c].X) /\ Validate(page[c].X)
             /\ ~page[c].waitingForAck => isIdentity(page[c].X)
  <2>1. /\ Suits(page[c].baseText, page[c].X)
        /\ ~page[c].waitingForAck => isIdentity(page[c].X)
    BY <1>1 DEF IInv, ThisClientOK, ClientOK, PageOK
  <2>2. Validate(page[c].X)
    BY <2>1, SuitsIsValid
  <2>3. ~Throws(page[c].baseText, page[c].X)
    BY <2>1 DEF Throws, Suits
  <2>. QED
    BY <2>1, <2>2, <2>3
<1>. QED
  BY <1>1 DEF PendingFits

\* In the orderly runs X is valid and applies to the base text, through every
\* rebase of handleBroadcast and handleConnectAck, and is the identity when the
\* page may submit.
THEOREM PendingAlwaysFits ==
    ASSUME Orderly, OneByte
    PROVE  Spec => []PendingFits
<1>1. IInv => PendingFits
  BY PendingHolds
<1>. QED
  BY <1>1, Invariance, PTL

\* A submission as it was at its base.
LEMMA SubmissionFits ==
    ASSUME OneByte, NEW s, NEW sub, NEW b, NEW cs, IsSubmission(s, sub, b, cs)
    PROVE  /\ Validate(cs) /\ Decoded(cs) = cs /\ Applicable(TextAt(b), cs)
BY SuitsIsValid, DecodedIs DEF IsSubmission

\* A submission on its way, or proposed, is X as it was at its base.
LEMMA SubmissionsHold ==
    ASSUME IInv, OneByte
    PROVE  SubmissionsFit
<1>1. ASSUME NEW c \in Client, NEW m \in ToSet(up[c]), m.type = "SUBMIT"
      PROVE  /\ Validate(Decoded(m.submission.changeset))
             /\ Applicable(TextAt(m.submission.base), m.submission.changeset)
  <2> DEFINE s == page[c]
             u == up[c]
             d == down[c]
             g == registered[c]
             p == Proposals(c)
  <2>1. ConnectionOK(c, s, u, d, g) /\ SubmissionOK(c, s, u, p)
    BY DEF IInv, ThisClientOK, ClientOK
  <2>2. m \in ToSet(u) /\ m.type = "SUBMIT"
    BY <1>1
  <2> HIDE DEF s, u, d, g, p
  <2>3. u # <<>>
    BY <2>2, EmptySeq DEF ToSet
  <2>4. ToSet(<<ConnectMsg(s.serverRev)>>) = {ConnectMsg(s.serverRev)}
    BY DEF ToSet
  <2>5. u # <<ConnectMsg(s.serverRev)>>
    BY <2>2, <2>4 DEF ConnectMsg
  <2>6. s.waitingForAck
    BY <2>1, <2>3, <2>5 DEF ConnectionOK, Away, Asking, SentAway, Answered, Working
  <2>7. OnItsWay(c, s, u, p)
    BY <2>1, <2>3, <2>6 DEF SubmissionOK, Waiting, Unsent, Proposed, Committed
  <2>8. PICK x : /\ u = <<[type |-> "SUBMIT", submission |-> x]>>
                 /\ IsSubmission(s, x.sub, x.base, x.changeset)
    BY <2>7 DEF OnItsWay
  <2>9. m = [type |-> "SUBMIT", submission |-> x]
    BY <2>2, <2>8 DEF ToSet
  <2>. QED
    BY <2>8, <2>9, SubmissionFits
<1>2. ASSUME NEW e \in proposed
      PROVE  Applicable(TextAt(e.base), e.changeset)
  <2> DEFINE c == e.client
             s == page[c]
             u == up[c]
             p == Proposals(c)
  <2>1. c \in Client /\ SubmissionOK(c, s, u, p) /\ e \in p
    BY DEF IInv, ServersOK, ThisClientOK, ClientOK, Proposals
  <2> HIDE DEF s, u, p, c
  <2>2. Proposed(c, s, u, p)
    BY <2>1 DEF SubmissionOK, Waiting, Unsent, OnItsWay, Committed
  <2>3. PICK x \in p : p = {x} /\ IsSubmission(s, x.sub, x.base, x.changeset)
    BY <2>2 DEF Proposed
  <2>. QED
    BY <2>1, <2>3, SubmissionFits
<1>. QED
  BY <1>1, <1>2 DEF SubmissionsFit

\* In the orderly runs each submission under way, sent once or again by submitTick,
\* passes ValidateChangeset on the server, and it and each proposed entry apply to
\* the revision they name.
THEOREM SubmissionsAlwaysFit ==
    ASSUME Orderly, OneByte
    PROVE  Spec => []SubmissionsFit
<1>1. IInv => SubmissionsFit
  BY SubmissionsHold
<1>. QED
  BY <1>1, Invariance, PTL

\* A page that works and has handled all it was sent knows it up to the head.
LEMMA QuietHolds ==
    ASSUME IInv
    PROVE  QuietShowsHead
<1>1. ASSUME NEW c \in Client, Quiet(c)
      PROVE  /\ page[c].serverRev <= fsm.headRev
             /\ (page[c].serverRev + 1)..fsm.headRev \subseteq nulls
             /\ Idle(c) => page[c].editor = fsm.headText
  <2> DEFINE s == page[c]
             u == up[c]
             d == down[c]
             g == registered[c]
             n == page[c].server
  <2>1. /\ PageOK(s) /\ ConnectionOK(c, s, u, d, g)
        /\ s.active /\ d = <<>> /\ applied[n] = Len(results) /\ pending[n] = <<>>
    BY <1>1 DEF IInv, ThisClientOK, ClientOK, Quiet
  <2>2. Len(results) = fsm.headRev /\ fsm.headRev \in Nat /\ Sound(fsm)
    BY ServersAre DEF IInv, DocumentOK
  <2>3. s.serverRev \in Nat
    BY <2>1 DEF PageOK, PageType
  <2>4. Working(c, s, u, d, g)
    BY <2>1, ActiveWorks
  <2>5. Called(n) = fsm.headRev
    BY <2>1, <2>2, EmptySeq DEF Called
  <2>6. PICK p \in Nat : Told(c, s, d, p)
    BY <2>4 DEF Working
  <2>7. p = fsm.headRev
    <3>1. IsRun(<<>>, AllNews(c), p, fsm.headRev)
      BY <2>1, <2>5, <2>6 DEF Told
    <3>. QED
      BY <2>2, <3>1, RunEmpty
  <2>8. s.serverRev <= fsm.headRev /\ Passed(c, s.serverRev, fsm.headRev)
    BY <2>2, <2>3, <2>6, <2>7 DEF Told
  <2>9. s.baseText = TextAt(s.serverRev) /\ TextAt(s.serverRev) = TextAt(fsm.headRev)
    BY <2>1, <2>2, <2>3, <2>4, <2>8, PassedBy DEF PageOK, Working, IInv
  <2>10. s.baseText = fsm.headText
    BY <2>2, <2>9 DEF Sound, TextAt
  <2>11. (s.serverRev + 1)..fsm.headRev \subseteq nulls
    BY <2>8 DEF Passed
  <2>. QED
    BY <2>8, <2>10, <2>11 DEF Idle
<1>. QED
  BY <1>1 DEF QuietShowsHead

\* In the orderly runs no page misses a revision that changes the text: one that has
\* handled all it was sent, from a server that has applied and called back all, is
\* at the head of the state machine, but for revisions whose "ops":null
\* handleBroadcast throws on, and shows its text unless its user has edits
\* outstanding.
THEOREM QuietPagesShowHead ==
    ASSUME Orderly, OneByte
    PROVE  Spec => []QuietShowsHead
<1>1. IInv => QuietShowsHead
  BY QuietHolds
<1>. QED
  BY <1>1, Invariance, PTL

-------------------------------------------------------------------------------
(* What the page shows, when every event comes in a favourable order.      *)

LInv == \A c \in Client : LocalOK(page[c])

\* What Y is about is the same.
SameEdits(t, s) ==
    t.A = s.A /\ t.X = s.X /\ t.Y = s.Y /\ t.baseText = s.baseText /\ t.active = s.active

LEMMA LocalSame ==
    ASSUME NEW s, NEW t, LocalOK(s), SameEdits(t, s)
    PROVE  LocalOK(t)
BY DEF LocalOK, YSuits, SameEdits

\* One page changes.
LEMMA LocalOfPage ==
    ASSUME IInv, LInv, NEW c \in Client, NEW t, page' = [page EXCEPT ![c] = t], LocalOK(t)
    PROVE  LInv'
<1>1. DOMAIN page = Client
  BY DEF IInv, ServersOK
<1>2. ASSUME NEW b \in Client PROVE LocalOK(page'[b])
  <2>1. CASE b = c
    BY <1>1, <2>1
  <2>2. CASE b # c
    <3>1. page'[b] = page[b]
      BY <1>1, <2>2
    <3>. QED
      BY <3>1 DEF LInv
  <2>. QED
    BY <2>1, <2>2
<1>3. LInv' <=> \A b \in Client : LocalOK(page'[b])
  BY DEF LInv, LocalOK, YSuits
<1>. QED
  BY <1>2, <1>3

\* The user edits the text, connects, the socket opens, the page is sent away.
LEMMA LocalOfOthers ==
    ASSUME IInv, LInv, NEW c \in Client,
           \/ Type(c) \/ Erase(c) \/ \E n \in Node : Connect(c, n)
           \/ Open(c) \/ ReceiveRedirect(c)
    PROVE  LInv'
<1> DEFINE s == page[c]
<1>1. s \in PageType /\ LocalOK(s)
  BY DEF IInv, ThisClientOK, ClientOK, PageOK, LInv
<1>2. ASSUME NEW t, page' = [page EXCEPT ![c] = t], SameEdits(t, s) PROVE LInv'
  BY <1>1, <1>2, LocalSame, LocalOfPage
<1>3. ASSUME NEW text, page' = [page EXCEPT ![c] = [s EXCEPT !.editor = text]] PROVE LInv'
  <2> DEFINE t == [s EXCEPT !.editor = text]
  <2>1. SameEdits(t, s)
    BY <1>1 DEF SameEdits, PageType
  <2>. QED
    BY <1>2, <1>3, <2>1
<1>4. CASE Type(c)
  <2>1. PICK pos \in 0..Len(s.editor) :
           page' = [page EXCEPT ![c] = [s EXCEPT !.editor = InsertAt(s.editor, pos + 1, Letter[c])]]
    BY <1>4 DEF Type, Update
  <2>. QED
    BY <1>3, <2>1
<1>5. CASE Erase(c)
  <2>1. PICK pos \in DOMAIN s.editor :
           page' = [page EXCEPT ![c] = [s EXCEPT !.editor = RemoveAt(s.editor, pos)]]
    BY <1>5 DEF Erase, Update
  <2>. QED
    BY <1>3, <2>1
<1>6. ASSUME NEW n \in Node, Connect(c, n) PROVE LInv'
  <2> DEFINE t == [s EXCEPT !.server = n, !.socket = "opening", !.ws = TRUE]
  <2>1. page' = [page EXCEPT ![c] = t]
    BY <1>1, <1>6 DEF Connect, Update, connectToServer, PageType
  <2>2. SameEdits(t, s)
    BY <1>1 DEF SameEdits, PageType
  <2>. QED
    BY <1>2, <2>1, <2>2
<1>7. CASE Open(c)
  <2> DEFINE t == [s EXCEPT !.socket = "open"]
  <2>1. page' = [page EXCEPT ![c] = t]
    BY <1>7 DEF Open, Update
  <2>2. SameEdits(t, s)
    BY <1>1 DEF SameEdits, PageType
  <2>. QED
    BY <1>2, <2>1, <2>2
<1>8. CASE ReceiveRedirect(c)
  <2> DEFINE m == Head(down[c])
             n == IF m.to = None THEN s.server ELSE m.to
             t == [s EXCEPT !.server = n, !.socket = "redirected", !.closing = s.closing + 1]
  <2>1. page' = [page EXCEPT ![c] = t]
    BY <1>1, <1>8 DEF ReceiveRedirect, Update, handleRedirect, PageType
  <2>2. SameEdits(t, s)
    BY <1>1 DEF SameEdits, PageType
  <2>. QED
    BY <1>2, <2>1, <2>2
<1>. QED
  BY <1>4, <1>5, <1>6, <1>7, <1>8

\* A connection ends with nothing in Y, if it has not ended before; a page that is
\* loaded again has no Y.
LEMMA LocalOfEnds ==
    ASSUME IInv, LInv, Races = {}, NEW c \in Client, Disconnect(c) \/ LateClose(c) \/ Reload(c)
    PROVE  LInv'
<1> DEFINE s == page[c]
           u == up[c]
           d == down[c]
           g == registered[c]
<1>1. s \in PageType /\ LocalOK(s) /\ ConnectionOK(c, s, u, d, g) /\ PageOK(s)
  BY DEF IInv, ThisClientOK, ClientOK, PageOK, LInv
<1>2. ASSUME NEW t, page' = [page EXCEPT ![c] = t], LocalOK(t) PROVE LInv'
  BY <1>2, LocalOfPage
<1>3. ASSUME NEW t, t.A = s.A, t.X = s.X, t.Y = s.Y, t.baseText = s.baseText, ~t.active,
             s.A # Null => isIdentity(s.Y)
      PROVE  LocalOK(t)
  BY <1>1, <1>3 DEF LocalOK, YSuits
<1>4. CASE Disconnect(c)
  <2> DEFINE t == [s EXCEPT !.socket = "none", !.ws = FALSE, !.active = FALSE]
  <2>1. page' = [page EXCEPT ![c] = t] /\ (s.A # Null => isIdentity(s.Y))
    BY <1>1, <1>4 DEF Disconnect, Update, onWsClose, Allowed, Settled, PageType
  <2>2. t.A = s.A /\ t.X = s.X /\ t.Y = s.Y /\ t.baseText = s.baseText /\ ~t.active
    BY <1>1 DEF PageType
  <2> HIDE DEF t
  <2>. QED
    BY <1>2, <1>3, <2>1, <2>2
<1>5. CASE LateClose(c)
  <2> DEFINE t == [s EXCEPT !.closing = s.closing - 1, !.ws = FALSE, !.active = FALSE]
  <2>1. page' = [page EXCEPT ![c] = t] /\ s.closing > 0
    BY <1>1, <1>5 DEF LateClose, Update, onWsClose, PageType
  <2>2. t.A = s.A /\ t.X = s.X /\ t.Y = s.Y /\ t.baseText = s.baseText /\ ~t.active
    BY <1>1 DEF PageType
  <2> HIDE DEF t, s, u, d, g
  <2>3. ~s.active
    BY <1>1, <2>1 DEF ConnectionOK, Away, Asking, SentAway, Answered, Working, AtLeader, OneSocket, PageType
  <2>4. s.A # Null => isIdentity(s.Y)
    BY <1>1, <2>3 DEF LocalOK
  <2>. QED
    BY <1>2, <1>3, <2>1, <2>2, <2>4 DEF s
<1>6. CASE Reload(c)
  <2> DEFINE t == NewPage(s.nextSubmissionId, s.server)
  <2>1. page' = [page EXCEPT ![c] = t]
    BY <1>6 DEF Reload, Update
  <2>2. LocalOK(t)
    BY DEF LocalOK, NewPage
  <2> HIDE DEF t
  <2>. QED
    BY <1>2, <2>1, <2>2
<1>. QED
  BY <1>4, <1>5, <1>6

\* The page submits what is new.
LEMMA LocalOfTick ==
    ASSUME IInv, LInv, NEW c \in Client, Tick(c)
    PROVE  LInv'
<1> DEFINE s == page[c]
           u == up[c]
           d == down[c]
           g == registered[c]
           t == MoveToX(s)
<1>1. PageOK(s) /\ ConnectionOK(c, s, u, d, g) /\ s.active /\ ~s.waitingForAck
  BY DEF IInv, ThisClientOK, ClientOK, Tick, MayTick
<1>2. page' = [page EXCEPT ![c] = t]
  BY DEF Tick, Update
<1> HIDE DEF s, u, d, g
<1>3. Stands(s, TextAt(s.serverRev)) /\ isIdentity(s.X)
  BY <1>1, ActiveWorks, WorkingStands
<1>4. YSuits(t) /\ t.active = s.active
  BY <1>3, MoveY, MoveStands
<1> HIDE DEF t
<1>5. LocalOK(t)
  BY <1>1, <1>4 DEF LocalOK
<1>. QED
  BY <1>2, <1>5, LocalOfPage

\* The page handles a message.
LEMMA LocalOfReceive ==
    ASSUME IInv, LInv, Races = {}, NEW c \in Client, Receive(c)
    PROVE  LInv'
<1> DEFINE s == page[c]
           u == up[c]
           d == down[c]
           g == registered[c]
           k == s.serverRev
           r == s.serverRev + 1
           t == Handled(s, Head(d))
<1>1. /\ PageOK(s) /\ ConnectionOK(c, s, u, d, g) /\ LocalOK(s) /\ DocumentOK
      /\ s.socket = "open" /\ d # <<>> /\ Head(d).type # "REDIRECT"
  BY DEF IInv, ThisClientOK, ClientOK, Receive, LInv
<1>2. page' = [page EXCEPT ![c] = t]
  BY DEF Receive, Update
<1> HIDE DEF s, u, d, g
<1>3. s \in PageType /\ k \in Nat /\ fsm.headRev \in Nat /\ nulls = {}
  BY <1>1 DEF PageOK, PageType, DocumentOK, Sound
<1>4. CASE Answered(c, s, u, d, g)
  <2>1. PICK n \in k..fsm.headRev : Head(d) = ConnectAckMsg(k, n) /\ Near(s, n)
    BY <1>4 DEF Answered
  <2>2. n \in Nat /\ k <= n /\ n <= fsm.headRev /\ (k = 0 \/ n <= k + 1) /\ ~s.active
    BY <1>3, <1>4, <2>1 DEF Near, Answered
  <2>3. t = handleConnectAck(s, TextAt(n), n, RevisionsBetween(k, n))
    BY <2>1 DEF Handled, ConnectAckMsg
  <2>4. YSuits(t) /\ t.active
    BY <1>1, <1>3, <2>2, <2>3, ConnectAckY, ConnectAckStands
  <2> HIDE DEF t
  <2>. QED
    BY <1>2, <2>4, LocalOfPage DEF LocalOK
<1>5. CASE Working(c, s, u, d, g)
  <2>1. Stands(s, TextAt(k)) /\ s.active /\ YSuits(s)
    BY <1>1, <1>5, WorkingStands DEF LocalOK
  <2>2. r \in Nat /\ r <= fsm.headRev /\ Head(d) = News(c, r)
    <3>1. Told(c, s, d, k)
      BY <1>3, <1>5, AllTold
    <3>2. r \in 1..fsm.headRev /\ Head(d) = News(c, r)
      BY <1>1, <1>3, <3>1, NextNews
    <3>. QED
      BY <1>3, <3>2
  <2>3. CASE fsm.revisionLog[r].source = c
    <3>1. t = handleAck(s, r)
      BY <2>2, <2>3 DEF Handled, News, AckMsg
    <3> HIDE DEF t
    <3>2. YSuits(t) /\ t.active = s.active
      BY <2>1, <2>2, <3>1, AckY, AckStands
    <3>. QED
      BY <1>2, <2>1, <3>2, LocalOfPage DEF LocalOK
  <2>4. CASE fsm.revisionLog[r].source # c
    <3> DEFINE B == fsm.revisionLog[r].changeset
    <3>1. t = handleBroadcast(s, B, r)
      BY <1>3, <2>2, <2>4 DEF Handled, News, BroadcastMsg, Sent
    <3>2. B \in CharChangeset /\ Suits(TextAt(k), B)
      <4> HIDE DEF k
      <4>1. k + 1 <= fsm.headRev /\ r = k + 1
        BY <2>2 DEF k
      <4>. QED
        BY <1>1, <1>3, <4>1, RevisionIs
    <3> HIDE DEF t, B
    <3>3. YSuits(t) /\ t.active = s.active
      BY <2>1, <2>2, <3>1, <3>2, BroadcastY, BroadcastStands
    <3>. QED
      BY <1>2, <2>1, <3>3, LocalOfPage DEF LocalOK
  <2>. QED
    BY <2>3, <2>4
<1>. QED
  BY <1>1, <1>4, <1>5 DEF ConnectionOK, Away, Asking, SentAway

\* All other steps leave the pages alone.
LEMMA LocalOfServers ==
    ASSUME LInv, page' = page
    PROVE  LInv'
BY DEF LInv, LocalOK, YSuits

LEMMA LocalStep ==
    ASSUME IInv, LInv, Races = {}, [Next]_vars
    PROVE  LInv'
<1>1. CASE UNCHANGED vars
  BY <1>1, LocalOfServers DEF vars
<1>2. CASE Users
  BY <1>2, LocalOfOthers DEF Users
<1>3. CASE Pages
  <2>1. ASSUME NEW c \in Client, Retry(c) PROVE LInv'
    BY <2>1, LocalOfServers DEF Retry
  <2>. QED
    BY <1>3, <2>1, LocalOfOthers, LocalOfReceive, LocalOfEnds, LocalOfTick DEF Pages
<1>4. CASE Servers
  <2>1. ASSUME NEW c \in Client, Register(c) \/ AnswerConnect(c) \/ Removal(c) \/ Submit(c)
        PROVE  page' = page
    BY <2>1 DEF Register, AnswerConnect, Removal, Submit
  <2>2. ASSUME NEW e \in proposed, Commit(e) PROVE page' = page
    BY <2>2 DEF Commit
  <2>3. ASSUME NEW n \in Node, ApplyNext(n) \/ Callback(n) PROVE page' = page
    BY <2>3 DEF ApplyNext, Callback
  <2>. QED
    BY <1>4, <2>1, <2>2, <2>3, LocalOfServers DEF Servers
<1>5. CASE Faulty
  <2>1. ASSUME NEW e \in proposed, ProposalFails(e) PROVE page' = page
    BY <2>1 DEF ProposalFails
  <2>2. ASSUME NEW n, NewLeader(n) \/ Restart(n) PROVE page' = page
    BY <2>2 DEF NewLeader, Restart
  <2>3. ASSUME NEW c \in Client, Disconnect(c) \/ Reload(c) PROVE LInv'
    BY <2>3, LocalOfEnds
  <2>. QED
    BY <1>5, <2>1, <2>2, <2>3, LocalOfServers DEF Faulty
<1>. QED
  BY <1>1, <1>2, <1>3, <1>4, <1>5 DEF Next

\* No page has a Y at first.
LEMMA LocalInit ==
    ASSUME Init
    PROVE  LInv
BY DEF Init, LInv, LocalOK, NewPage

\* A Y that suits merges, and is valid.
LEMMA LocalHolds ==
    ASSUME IInv, LInv
    PROVE  LocalFits
<1>1. ASSUME NEW c \in Client, page[c].A # Null
      PROVE  Merges(page[c]) /\ Validate(page[c].Y)
  <2> DEFINE s == page[c]
  <2>1. Suits(s.baseText, s.X) /\ Suits(applyChangeset(s.baseText, s.X), s.Y)
    BY <1>1 DEF IInv, ThisClientOK, ClientOK, PageOK, LInv, LocalOK, YSuits
  <2> HIDE DEF s
  <2>2. Merges(s)
    BY <2>1 DEF Merges, Throws, Suits
  <2>3. Validate(s.Y)
    BY <2>1, SuitsIsValid
  <2>. QED
    BY <2>2, <2>3 DEF s
<1>. QED
  BY <1>1 DEF LocalFits

\* When every event comes in a favourable order, Y is valid and applies to the text
\* that A and X make: after each submitTick, ACK and BROADCAST, and after a
\* CONNECT_ACK, which rebases Y over the revision missed.  (Over more than one Y may
\* not apply: "behind" is excluded, as EditorFindingBehind.cfg shows it must be.)
THEOREM LocalEditsFit ==
    ASSUME Races = {}, OneByte
    PROVE  Spec => []LocalFits
<1>1. Orderly
  BY DEF Orderly
<1>2. Init => LInv
  BY LocalInit
<1>3. IInv /\ LInv /\ [Next]_vars => LInv'
  BY LocalStep
<1>4. IInv /\ LInv => LocalFits
  BY LocalHolds
<1>5. Spec => []IInv
  BY <1>1, Invariance
<1>. QED
  BY <1>2, <1>3, <1>4, <1>5, PTL DEF Spec

-------------------------------------------------------------------------------
(* What becomes of a page's text, a step at a time.                        *)

\* The text that A and X make: what Y is about.
Half(s) == IF s.active THEN applyChangeset(s.baseText, s.X) ELSE s.baseText

Author(f, r) == f.revisionLog[r].source
NoneBy(f, c, k) == \A r \in k + 1..f.headRev : Author(f, r) # c

\* What is known of the page of c in each state, the document being f.
IsPage(c, s, f) ==
    /\ s.serverRev \in Nat
    /\ s.editor \in Text /\ s.baseText \in Text /\ Half(s) \in Text
    /\ IF s.A = Null THEN s.serverRev = 0 /\ ~s.active
       ELSE /\ s.serverRev <= f.headRev
            /\ ~s.waitingForAck => NoneBy(f, c, s.serverRev) /\ Half(s) = s.baseText
    /\ IF s.active THEN /\ s.baseText = ReplayTo(f, s.serverRev)
                        /\ Suits(s.baseText, s.X) /\ Half(s) = ApplyChangeset(s.baseText, s.X)
                        /\ NewChars(s.X) \in Nat
       ELSE ~s.waitingForAck /\ s.editor = s.baseText

SamePlace(t, s) ==
    /\ t.A = s.A /\ t.serverRev = s.serverRev /\ t.baseText = s.baseText
    /\ t.waitingForAck = s.waitingForAck /\ t.active = s.active

\* The texts stay as they are.
IsAlike(s, t) == SamePlace(t, s) /\ t.X = s.X /\ t.editor = s.editor

\* The user of c types his character, or erases one.
IsTyped(c, s, t) ==
    /\ SamePlace(t, s) /\ t.X = s.X /\ s.active
    /\ \E u, v \in Text : s.editor = u \o v /\ t.editor = (u \o <<Letter[c]>>) \o v
IsErased(s, t) ==
    /\ SamePlace(t, s) /\ t.X = s.X /\ s.active
    /\ \E u, v \in Text : \E x \in Nat : s.editor = (u \o <<x>>) \o v /\ t.editor = u \o v

\* What is new becomes X.
IsSubmitted(s, t) ==
    /\ s.active /\ ~s.waitingForAck
    /\ t.A = s.A /\ t.serverRev = s.serverRev /\ t.baseText = s.baseText
    /\ t.waitingForAck /\ t.active
    /\ t.editor = s.editor /\ Half(t) = s.editor
    /\ NewChars(t.X) = Fewest(s.baseText, s.editor)

\* The next revision, by c, is X.
IsAcknowledged(c, s, t, f) ==
    LET r == s.serverRev + 1 IN
    /\ s.active /\ t.active /\ t.A # Null
    /\ r <= f.headRev /\ t.serverRev = r /\ Author(f, r) = c
    /\ NewChars(f.revisionLog[r].changeset) = NewChars(s.X)
    /\ ~t.waitingForAck /\ t.baseText = Half(s) /\ Half(t) = Half(s)
    /\ t.editor = s.editor /\ NewChars(t.X) = 0

\* The next revision, by another, is put under X and Y: neither loses a character,
\* and none comes but from that revision.
IsRebased(c, s, t, f) ==
    LET r == s.serverRev + 1
        more == NewChars(f.revisionLog[r].changeset)
    IN
    /\ s.active /\ t.active /\ t.A # Null
    /\ r <= f.headRev /\ t.serverRev = r /\ Author(f, r) # c
    /\ t.waitingForAck = s.waitingForAck
    /\ NewChars(t.X) = NewChars(s.X)
    /\ Fewest(Half(t), t.editor) <= Fewest(Half(s), s.editor)
    /\ \A l : /\ Times(l, t.baseText) + Times(l, Half(s)) <= Times(l, Half(t)) + Times(l, s.baseText)
              /\ Times(l, s.editor) + Times(l, Half(t)) <= Times(l, t.editor) + Times(l, Half(s))
              /\ Times(l, Half(t)) <= Times(l, Half(s)) + more
              /\ Times(l, t.editor) <= Times(l, s.editor) + more

\* A page with nothing of its own takes the text of a later revision over.
IsTakenOver(c, s, t, f) ==
    /\ ~s.active /\ t.active /\ t.A # Null /\ ~t.waitingForAck
    /\ s.serverRev <= t.serverRev /\ t.serverRev <= f.headRev
    /\ NoneBy(f, c, t.serverRev)
    /\ t.baseText = ReplayTo(f, t.serverRev)
    /\ t.editor = t.baseText /\ Half(t) = t.baseText /\ NewChars(t.X) = 0

\* A page with nothing of its own loses its connection, or is loaded again.
IsLaidDown(s, t) ==
    /\ ~s.waitingForAck /\ s.editor = s.baseText
    /\ ~t.waitingForAck /\ ~t.active
    /\ t.A = s.A /\ t.serverRev = s.serverRev
    /\ t.baseText = s.baseText /\ t.editor = s.editor
IsLeft(s, t) ==
    /\ ~s.waitingForAck /\ s.editor = s.baseText
    /\ ~t.waitingForAck /\ ~t.active /\ t.A = Null /\ t.serverRev = 0
    /\ t.editor = t.baseText /\ t.baseText \in Text

\* The invariant says that of every page.
LEMMA PagesAre ==
    ASSUME IInv, NEW c \in Client
    PROVE  IsPage(c, page[c], fsm)
<1> DEFINE s == page[c]
           mid == applyChangeset(s.baseText, s.X)
<1>1. /\ PageOK(s) /\ s \in PageType /\ DocumentOK
      /\ ConnectionOK(c, s, up[c], down[c], registered[c])
      /\ SubmissionOK(c, s, up[c], Proposals(c))
  BY DEF IInv, ThisClientOK, ClientOK, PageOK
<1> HIDE DEF s
<1>2. /\ s.serverRev \in Nat /\ s.editor \in Seq(Char) /\ s.baseText \in Seq(Char)
      /\ s.editor \in Text /\ s.baseText \in Text
  <2>1. s.serverRev \in Nat /\ s.editor \in Seq(Char) /\ s.baseText \in Seq(Char)
    BY <1>1 DEF PageType
  <2>. QED
    BY <2>1, CharIs
<1>3. s.active => s.A # Null
  BY <1>1, ActiveWorks DEF Working
<1>4. ASSUME s.A # Null
      PROVE  /\ s.serverRev <= fsm.headRev /\ s.baseText = TextAt(s.serverRev)
             /\ Suits(s.baseText, s.X) /\ mid = ApplyChangeset(s.baseText, s.X) /\ mid \in Text
             /\ ~s.waitingForAck => NoneOwn(c, s.serverRev) /\ mid = s.baseText
             /\ NewChars(s.X) \in Nat
  <2>1. s.serverRev <= fsm.headRev /\ s.baseText = TextAt(s.serverRev) /\ Suits(s.baseText, s.X)
        /\ (~s.waitingForAck => isIdentity(s.X) /\ NoneOwn(c, s.serverRev))
    BY <1>1, <1>4 DEF PageOK, SubmissionOK
  <2>2. mid = ApplyChangeset(s.baseText, s.X) /\ mid \in Text
    BY <2>1, ApplySame, SuitsText
  <2>3. ~s.waitingForAck => mid = s.baseText
    BY <1>2, <2>1, NothingApplied
  <2>4. NewChars(s.X) \in Nat
    <3>1. s.X.ops \in Seq(Op)
      BY <2>1 DEF Suits, Fits
    <3>2. Inserted(s.X.ops) \in Text
      BY <3>1, InsertedIs
    <3>. QED
      BY <3>2, TextNil DEF NewChars
  <2>. QED
    BY <2>1, <2>2, <2>3, <2>4
<1>5. NoneOwn(c, s.serverRev) <=> NoneBy(fsm, c, s.serverRev)
  BY DEF NoneOwn, NoneBy, Author
<1>6. Half(s) = IF s.active THEN mid ELSE s.baseText
  BY DEF Half
<1>7. /\ s.A = Null => s.serverRev = 0
      /\ ~s.active => ~s.waitingForAck /\ s.editor = s.baseText
  BY <1>1 DEF PageOK
<1> HIDE DEF mid
<1>. QED
  BY <1>2, <1>3, <1>4, <1>5, <1>6, <1>7 DEF IsPage, TextAt, s

\* An identity inserts nothing.
LEMMA IdentityAdds ==
    ASSUME NEW t \in Text
    PROVE  NewChars(Identity(Len(t))) = 0
<1>1. Inserted(<<>>) = <<>> /\ Len(<<>>) = 0 /\ Len(t) \in Nat
  BY InsertedIs, TextNil
<1>2. CASE Len(t) = 0
  BY <1>1, <1>2 DEF NewChars, Identity
<1>3. CASE Len(t) # 0
  <2> DEFINE o == Retain(Len(t))
             q == <<o>>
             nil == <<>>
  <2>1. Identity(Len(t)).ops = q
    BY <1>3 DEF Identity
  <2>2. o \in Op /\ o.chars = <<>>
    BY <1>1, TextNil DEF Op, Retain
  <2> HIDE DEF o
  <2>3. q \in Seq(Op) /\ q # <<>> /\ Head(q) = o /\ Tail(q) = nil
    BY <2>2
  <2> HIDE DEF q
  <2>4. Inserted(q) = <<>> \o Inserted(<<>>)
    BY <2>2, <2>3, InsertedIs
  <2>5. <<>> \o <<>> = nil
    BY TextNil, TextConcatNil
  <2>6. Len(Inserted(q)) = 0
    BY <1>1, <2>4, <2>5
  <2>. QED
    BY <2>1, <2>6 DEF NewChars
<1>. QED
  BY <1>2, <1>3

\* Half of a page that works.
LEMMA HalfIs ==
    ASSUME NEW s, NEW text, Stands(s, text), s.active
    PROVE  /\ Half(s) = ApplyChangeset(text, s.X) /\ Half(s) \in Seq(Char)
           /\ isIdentity(s.X) => Half(s) = text /\ NewChars(s.X) = 0
<1>1. /\ s.baseText = text /\ Suits(text, s.X) /\ text \in Seq(Char) /\ s.X \in CharChangeset
  BY StandsIs DEF Stands
<1>2. applyChangeset(text, s.X) = ApplyChangeset(text, s.X) /\ ApplyChangeset(text, s.X) \in Seq(Char)
  BY <1>1, ApplySame
<1>3. ASSUME isIdentity(s.X) PROVE ApplyChangeset(text, s.X) = text /\ NewChars(s.X) = 0
  <2>1. ApplyChangeset(text, s.X) = text /\ s.X = Identity(Len(text))
    BY <1>1, <1>3, NothingApplied, IsTheIdentity
  <2>2. NewChars(Identity(Len(text))) = 0
    BY <1>1, CharIs, IdentityAdds
  <2>. QED
    BY <2>1, <2>2
<1>. QED
  BY <1>1, <1>2, <1>3 DEF Half

\* What a BROADCAST does to the characters of a page.
LEMMA BroadcastCounts ==
    ASSUME NEW s, NEW text, Stands(s, text), s.active,
           NEW B \in CharChangeset, Suits(text, B), NEW r \in Nat, NEW t, t = handleBroadcast(s, B, r)
    PROVE  /\ NewChars(t.X) = NewChars(s.X)
           /\ Fewest(Half(t), t.editor) <= Fewest(Half(s), s.editor)
           /\ \A l :
                /\ Times(l, t.baseText) + Times(l, Half(s)) <= Times(l, Half(t)) + Times(l, s.baseText)
                /\ Times(l, s.editor) + Times(l, Half(t)) <= Times(l, t.editor) + Times(l, Half(s))
                /\ Times(l, Half(t)) <= Times(l, Half(s)) + NewChars(B)
                /\ Times(l, t.editor) <= Times(l, s.editor) + NewChars(B)
<1> DEFINE X == s.X
           Y == LocalEdits(s)
           over == Follow(X, B)
           mid == Half(s)
           new == ApplyChangeset(text, B)
           half == Half(t)
<1>1. /\ text \in Seq(Char) /\ X \in CharChangeset /\ s \in PageType
      /\ Suits(text, X) /\ s.editor \in Seq(Char) /\ s.baseText = text /\ ~Throws(text, X)
  BY StandsIs DEF Stands
<1>2. mid \in Seq(Char) /\ mid = ApplyChangeset(text, X) /\ applyChangeset(text, X) = mid
  <2>1. mid \in Seq(Char) /\ mid = ApplyChangeset(text, X)
    BY HalfIs
  <2>. QED
    BY <1>1, <2>1, ApplySame
<1>3. Suits(mid, Y) /\ ApplyChangeset(mid, Y) = s.editor /\ NewChars(Y) = Fewest(mid, s.editor)
  <2>1. Y = DiffToChangeset(mid, s.editor)
    BY <1>1, <1>2 DEF LocalEdits
  <2> HIDE DEF mid, Y
  <2>. QED
    BY <1>1, <1>2, <2>1, DiffChar DEF Fewest
<1>4. /\ Suits(mid, over) /\ Inserted(over.ops) = Inserted(B.ops)
      /\ Suits(new, Follow(B, X)) /\ Inserted(Follow(B, X).ops) = Inserted(X.ops)
      /\ ApplyChangeset(new, Follow(B, X)) = ApplyChangeset(mid, over)
  BY <1>1, <1>2, FollowSuits, Convergence
<1>5. Stands(t, new) /\ t.X = Follow(B, X) /\ t.active
  BY BroadcastStands
<1>6. half = ApplyChangeset(mid, over) /\ t.baseText = new
  BY <1>4, <1>5, HalfIs DEF Stands
<1>7. t.editor = applyChangeset(s.editor, Follow(Y, over))
  <2> HIDE DEF Y, over, X
  <2>1. BroadcastRebase(s, B, Y, over).editor = s.editor
    BY <1>1 DEF BroadcastRebase, PageType
  <2>. QED
    BY <1>1, <2>1, NullIs DEF handleBroadcast, PageType, CharChangeset, Y, over, X
<1> HIDE DEF X, Y, over, mid, new, half
<1>8. /\ Suits(s.editor, Follow(Y, over)) /\ Inserted(Follow(Y, over).ops) = Inserted(over.ops)
      /\ Suits(half, Follow(over, Y)) /\ Inserted(Follow(over, Y).ops) = Inserted(Y.ops)
      /\ ApplyChangeset(half, Follow(over, Y)) = ApplyChangeset(s.editor, Follow(Y, over))
  BY <1>3, <1>4, <1>6, FollowSuits, Convergence
<1>9. t.editor = ApplyChangeset(s.editor, Follow(Y, over))
  BY <1>7, <1>8, ApplySame
<1>10. NewChars(t.X) = NewChars(X)
  BY <1>4, <1>5 DEF NewChars
<1>11. Fewest(half, t.editor) <= Fewest(mid, s.editor)
  <2>1. Fewest(half, Run(half, Follow(over, Y).ops)) <= Len(Inserted(Follow(over, Y).ops))
    BY <1>8, DiffInsertsFewest DEF Suits
  <2>. QED
    BY <1>3, <1>8, <1>9, <2>1, ApplyIsRun DEF NewChars
<1>12. ASSUME NEW l
       PROVE  /\ Times(l, new) + Times(l, mid) <= Times(l, half) + Times(l, text)
              /\ Times(l, s.editor) + Times(l, half) <= Times(l, t.editor) + Times(l, mid)
              /\ Times(l, half) <= Times(l, mid) + NewChars(B)
              /\ Times(l, t.editor) <= Times(l, s.editor) + NewChars(B)
  <2>1. Times(l, new) + Times(l, mid) <= Times(l, half) + Times(l, text)
    <3>1. Times(l, ApplyChangeset(text, B)) + Times(l, ApplyChangeset(text, X))
            <= Times(l, ApplyChangeset(ApplyChangeset(text, B), Follow(B, X))) + Times(l, text)
      BY <1>1, FollowKeepsCount
    <3>. QED
      BY <1>2, <1>4, <1>6, <3>1 DEF new
  <2>2. Times(l, s.editor) + Times(l, half) <= Times(l, t.editor) + Times(l, mid)
    <3>1. Times(l, ApplyChangeset(mid, Y)) + Times(l, ApplyChangeset(mid, over))
            <= Times(l, ApplyChangeset(ApplyChangeset(mid, Y), Follow(Y, over))) + Times(l, mid)
      BY <1>3, <1>4, FollowKeepsCount
    <3>. QED
      BY <1>3, <1>6, <1>9, <3>1
  <2>3. Times(l, half) <= Times(l, mid) + NewChars(B)
    <3>1. Times(l, Run(mid, over.ops)) <= Times(l, mid) + Len(Inserted(over.ops))
      BY <1>4, TimesRun DEF Suits
    <3>. QED
      BY <1>4, <1>6, <3>1, ApplyIsRun DEF NewChars
  <2>4. Times(l, t.editor) <= Times(l, s.editor) + NewChars(B)
    <3>1. Times(l, Run(s.editor, Follow(Y, over).ops)) <= Times(l, s.editor) + Len(Inserted(Follow(Y, over).ops))
      BY <1>8, TimesRun DEF Suits
    <3>. QED
      BY <1>4, <1>8, <1>9, <3>1, ApplyIsRun DEF NewChars
  <2>. QED
    BY <2>1, <2>2, <2>3, <2>4
<1>. QED
  BY <1>1, <1>6, <1>10, <1>11, <1>12 DEF X, mid, half, Stands

\* A page without edits of its own shows the text that a CONNECT_ACK brings.
LEMMA ConnectAckShows ==
    ASSUME DocumentOK, nulls = {}, NEW s, PageOK(s), ~s.active, LocalOK(s),
           NEW r \in Nat, s.serverRev <= r, r <= fsm.headRev,
           s.serverRev = 0 \/ r <= s.serverRev + 1,
           NEW u, u = handleConnectAck(s, TextAt(r), r, RevisionsBetween(s.serverRev, r))
    PROVE  u.editor = TextAt(r)
<1> DEFINE m == s.serverRev
           q == RevisionsBetween(m, r)
           t == Reconnected(s, TextAt(r), r, q)
           text == TextAt(r)
           retains(x) == x.Y.ops \in Seq(Retains)
<1>1. /\ s \in PageType /\ m \in Nat /\ text \in Seq(Char) /\ ~s.waitingForAck
  BY TextChar DEF PageOK, PageType, DocumentOK, Sound
<1>2. /\ Stands(u, text) /\ isIdentity(u.X) /\ YSuits(u)
  BY ConnectAckStands, ConnectAckY
<1>3. ASSUME s.A # Null
      PROVE  retains(s) /\ s.baseText = TextAt(m) /\ s.Y \in CharChangeset /\ Catching(s, s, TextAt(m))
  <2>1. /\ s.baseText = TextAt(m) /\ Suits(s.baseText, s.X) /\ isIdentity(s.X) /\ s.Y # Null
        /\ YSuits(s) /\ isIdentity(s.Y)
    BY <1>1, <1>3 DEF PageOK, LocalOK
  <2>2. s.baseText \in Seq(Char) /\ s.Y \in CharChangeset
    BY <1>1, <2>1 DEF PageType
  <2>3. Suits(s.baseText, s.Y)
    BY <2>1, <2>2, NothingApplied DEF YSuits
  <2>4. s.Y = Identity(Len(s.baseText))
    BY <2>1, <2>3, IsTheIdentity
  <2>5. retains(s)
    BY <2>2, <2>4, CharIs, IdentitySuits
  <2>. QED
    BY <1>1, <2>1, <2>2, <2>5 DEF Catching, SameSocket
<1>4. ASSUME m # 0 PROVE s.A # Null
  BY <1>4 DEF PageOK
<1>5. t \in PageType /\ t.baseText = text /\ (Merges(t) => retains(t))
  <2>1. CASE m = 0
    <3>1. t = [s EXCEPT !.baseText = text, !.serverRev = r]
      BY <2>1 DEF Reconnected
    <3> HIDE DEF text, t
    <3>2. t \in PageType /\ t.X = s.X /\ t.Y = s.Y /\ t.baseText = text
      BY <1>1, <3>1 DEF PageType
    <3>3. ASSUME Merges(t) PROVE retains(t)
      <4>1. s.X # Null
        <5>1. s.X.old_len = Len(text)
          BY <3>2, <3>3 DEF Merges, Throws
        <5>. QED
          BY <1>1, <5>1, LenProperties DEF Null
      <4>. QED
        BY <1>3, <3>2, <4>1 DEF PageOK
    <3>. QED
      BY <3>2, <3>3
  <2>2. CASE m # 0
    <3>1. Catching(t, s, text)
      BY <1>1, <1>3, <1>4, <2>2, CaughtUpPage
    <3>2. CASE r = m
      <4>1. Len(q) = 0 /\ s.serverRev # 0
        <5>1. Len(q) = r - m
          BY <1>1, <3>2, RevisionsBetweenAre
        <5> HIDE DEF q
        <5>. QED
          BY <1>1, <2>2, <3>2, <5>1
      <4> HIDE DEF q
      <4>2. t = [s EXCEPT !.serverRev = r]
        BY <4>1, ReconnectedShort
      <4> HIDE DEF t, m, text
      <4>3. t.Y = s.Y
        BY <1>1, <4>2 DEF PageType
      <4>. QED
        BY <1>3, <1>4, <2>2, <3>1, <4>3 DEF Catching
    <3>3. CASE r = m + 1
      <4> DEFINE C == fsm.revisionLog[m + 1].changeset
      <4>1. Len(q) = 1 /\ q[1] = C /\ s.serverRev # 0
        <5>1. Len(q) = r - m /\ \A i \in 1..r - m : q[i] = fsm.revisionLog[m + i].changeset
          BY <1>1, <3>3, RevisionsBetweenAre DEF Sent
        <5> HIDE DEF q
        <5>2. r - m = 1
          BY <1>1, <3>3
        <5>3. 1 \in 1..r - m
          BY <5>2
        <5>. QED
          BY <2>2, <5>1, <5>2, <5>3
      <4>2. C \in CharChangeset /\ C \in Changeset /\ Suits(TextAt(m), C)
        <5>1. C \in CharChangeset /\ Suits(TextAt(m), C)
          BY <1>1, <3>3, RevisionIs
        <5>. QED
          BY <5>1 DEF CharChangeset
      <4> HIDE DEF q, C
      <4> DEFINE v == CatchUpOne(s, C)
                 X == Follow(C, s.X)
                 D == Follow(X, C)
      <4>3. t = [v EXCEPT !.serverRev = r]
        BY <4>1, ReconnectedShort
      <4>4. v \in PageType
        BY <1>3, <1>4, <2>2, <4>2, CatchUpOneIs DEF Catching
      <4>5. v.Y = Follow(D, s.Y)
        <5>1. ~Throws(s.baseText, C)
          BY <1>3, <1>4, <2>2, <4>2 DEF Throws, Suits
        <5> HIDE DEF D, X
        <5>. QED
          BY <1>1, <4>2, <5>1, NullIs DEF CatchUpOne, PageType, CharChangeset, D, X
      <4>6. t.Y = v.Y
        <5> HIDE DEF t, v
        <5>. QED
          BY <4>3, <4>4 DEF PageType
      <4>7. D.ops \in Seq(Op)
        <5>1. s.X \in Changeset
          BY <1>3, <1>4, <2>2 DEF Catching, Suits
        <5>2. D \in Changeset
          BY <4>2, <5>1, FollowChar
        <5>. QED
          BY <5>2 DEF Changeset
      <4> HIDE DEF D
      <4>8. Follow(D, s.Y).ops = FollowLoop[Pair(D.ops, s.Y.ops, <<>>)]
        BY DEF Follow, Pair
      <4>9. FollowLoop[Pair(D.ops, s.Y.ops, <<>>)] \in Seq(Retains)
        BY <1>3, <1>4, <2>2, <4>7, RetainsClosed, FollowWithin
      <4>. QED
        BY <3>1, <4>5, <4>6, <4>8, <4>9 DEF Catching
    <3>. QED
      BY <1>1, <2>2, <3>2, <3>3
  <2>. QED
    BY <1>1, <2>1, <2>2
<1> HIDE DEF t, text, q
<1> DEFINE A == TextToChangeset(text)
           none == Identity(Len(text))
           shown == Merged(t)
<1>6. u = IF Merges(t) THEN [[t EXCEPT !.editor = shown] EXCEPT !.A = A, !.active = TRUE]
          ELSE [[t EXCEPT !.editor = text, !.X = none, !.Y = none] EXCEPT !.A = A, !.active = TRUE]
  BY <1>5 DEF handleConnectAck, t, text, q
<1> HIDE DEF A, none, shown
<1>7. CASE ~Merges(t)
  BY <1>5, <1>6, <1>7 DEF PageType, text
<1>8. CASE Merges(t)
  <2>1. u.editor = shown /\ u.X = t.X /\ u.Y = t.Y
    BY <1>5, <1>6, <1>8 DEF PageType
  <2>2. applyChangeset(text, u.X) = text
    BY <1>1, <1>2, NothingApplied DEF Stands
  <2>3. Suits(text, u.Y)
    BY <1>2, <2>2 DEF YSuits, Stands
  <2>4. isIdentity(u.Y)
    <3>1. IsIdentity(u.Y)
      BY <1>5, <1>8, <2>1, <2>3, RetainsOnly
    <3>. QED
      BY <3>1 DEF IsIdentity, isIdentity
  <2>5. applyChangeset(text, u.Y) = text
    BY <1>1, <2>3, <2>4, NothingApplied
  <2>. QED
    BY <1>5, <2>1, <2>2, <2>5 DEF Merged, shown, text
<1>. QED
  BY <1>7, <1>8 DEF text

\* Where a character comes to stand that is typed, and stood that is erased.
LEMMA TypedParts ==
    ASSUME NEW q \in Text, NEW x \in Nat, NEW pos \in 0..Len(q)
    PROVE  \E u, v \in Text : q = u \o v /\ InsertAt(q, pos + 1, x) = (u \o <<x>>) \o v
<1> DEFINE u == SubSeq(q, 1, pos)
           v == SubSeq(q, pos + 1, Len(q))
<1>1. u \in Text /\ v \in Text /\ q = u \o v
  BY Cut DEF Text
<1>2. (pos + 1) - 1 = pos
  BY TextNil
<1>3. InsertAt(q, pos + 1, x) = u \o <<x>> \o v
  BY <1>2 DEF InsertAt
<1>. QED
  BY <1>1, <1>3

LEMMA ErasedParts ==
    ASSUME NEW q \in Text, NEW pos \in DOMAIN q
    PROVE  \E u, v \in Text : \E x \in Nat : q = (u \o <<x>>) \o v /\ RemoveAt(q, pos) = u \o v
<1> DEFINE u == SubSeq(q, 1, pos - 1)
           v == SubSeq(q, pos + 1, Len(q))
           x == q[pos]
           w == SubSeq(q, 1, pos)
<1>1. Len(q) \in Nat /\ pos \in 1..Len(q) /\ pos \in 0..Len(q) /\ DOMAIN q = 1..Len(q)
  BY TextNil DEF Text
<1>2. w \in Text /\ v \in Text /\ q = w \o v
  BY <1>1, Cut DEF Text
<1>3. u \in Text /\ x \in Nat /\ w = u \o <<x>>
  <2>1. x \in Nat
    BY <1>1 DEF Text
  <2>. QED
    BY <1>1, <2>1, PrefixGrows
<1>4. RemoveAt(q, pos) = u \o v
  BY DEF RemoveAt
<1>. QED
  BY <1>2, <1>3, <1>4

\* What a step that is not the user's makes of the page of c.
IsHandled(c, s, t, f) ==
    \/ IsAlike(s, t)
    \/ IsSubmitted(s, t)
    \/ IsAcknowledged(c, s, t, f)
    \/ IsRebased(c, s, t, f)
    \/ IsTakenOver(c, s, t, f)
    \/ IsLaidDown(s, t)
    \/ IsLeft(s, t)

\* The page of c becomes t.
Becomes(c, t) == page' = [page EXCEPT ![c] = t] /\ fsm' = fsm

UserSame == typed' = typed /\ erased' = erased

PageChanges(c) ==
    \E t : /\ Becomes(c, t)
           /\ \/ IsHandled(c, page[c], t, fsm) /\ UserSame
              \/ /\ IsTyped(c, page[c], t)
                 /\ typed' = [typed EXCEPT ![c] = @ + 1] /\ erased' = erased
              \/ /\ IsErased(page[c], t)
                 /\ typed' = typed /\ erased' = erased + 1

\* The user types or erases.
LEMMA EditChanges ==
    ASSUME IInv, NEW c \in Client, Type(c) \/ Erase(c)
    PROVE  PageChanges(c)
<1> DEFINE s == page[c]
<1>1. /\ s \in PageType /\ s.editor \in Text /\ s.active /\ Letter[c] \in Nat
      /\ fsm' = fsm
  <2>1. s \in PageType
    BY DEF IInv, ThisClientOK, ClientOK, PageOK
  <2>2. s.editor \in Text
    BY <2>1, CharIs DEF PageType
  <2>3. s.active /\ fsm' = fsm
    BY DEF Type, Erase, docVars
  <2>. QED
    BY <2>1, <2>2, <2>3, SystemAssumption
<1>2. ASSUME NEW text
      PROVE  LET t == [s EXCEPT !.editor = text] IN
             SamePlace(t, s) /\ t.X = s.X /\ t.editor = text
  BY <1>1 DEF SamePlace, PageType
<1>3. CASE Type(c)
  <2>1. PICK pos \in 0..Len(s.editor) :
           page' = [page EXCEPT ![c] = [s EXCEPT !.editor = InsertAt(s.editor, pos + 1, Letter[c])]]
    BY <1>3 DEF Type, Update
  <2> DEFINE text == InsertAt(s.editor, pos + 1, Letter[c])
             t == [s EXCEPT !.editor = text]
  <2>2. \E u, v \in Text : s.editor = u \o v /\ text = (u \o <<Letter[c]>>) \o v
    BY <1>1, TypedParts
  <2>3. IsTyped(c, s, t)
    <3> HIDE DEF text
    <3>. QED
      BY <1>1, <1>2, <2>2 DEF IsTyped
  <2>4. typed' = [typed EXCEPT ![c] = @ + 1] /\ erased' = erased
    BY <1>3 DEF Type
  <2> HIDE DEF t
  <2>. QED
    BY <1>1, <2>1, <2>3, <2>4 DEF PageChanges, Becomes, t
<1>4. CASE Erase(c)
  <2>1. PICK pos \in DOMAIN s.editor :
           page' = [page EXCEPT ![c] = [s EXCEPT !.editor = RemoveAt(s.editor, pos)]]
    BY <1>4 DEF Erase, Update
  <2> DEFINE text == RemoveAt(s.editor, pos)
             t == [s EXCEPT !.editor = text]
  <2>2. \E u, v \in Text : \E x \in Nat : s.editor = (u \o <<x>>) \o v /\ text = u \o v
    BY <1>1, ErasedParts
  <2>3. IsErased(s, t)
    <3> HIDE DEF text
    <3>. QED
      BY <1>1, <1>2, <2>2 DEF IsErased
  <2>4. erased' = erased + 1 /\ typed' = typed
    BY <1>4 DEF Erase
  <2> HIDE DEF t
  <2>. QED
    BY <1>1, <2>1, <2>3, <2>4 DEF PageChanges, Becomes, t
<1>. QED
  BY <1>3, <1>4

\* The socket changes.
LEMMA SocketChanges ==
    ASSUME IInv, Races = {}, NEW c \in Client,
           \/ \E n \in Node : Connect(c, n)
           \/ Open(c) \/ ReceiveRedirect(c) \/ Disconnect(c) \/ LateClose(c) \/ Reload(c)
    PROVE  PageChanges(c)
<1> DEFINE s == page[c]
           u == up[c]
           d == down[c]
           g == registered[c]
<1>1. /\ s \in PageType /\ PageOK(s) /\ ConnectionOK(c, s, u, d, g)
  BY DEF IInv, ThisClientOK, ClientOK, PageOK
<1>2. fsm' = fsm /\ UserSame
  BY DEF Connect, Open, ReceiveRedirect, Disconnect, LateClose, Reload, docVars, userVars, UserSame
<1>3. ASSUME NEW t, page' = [page EXCEPT ![c] = t], IsHandled(c, s, t, fsm) PROVE PageChanges(c)
  BY <1>2, <1>3 DEF PageChanges, Becomes
<1>4. ASSUME NEW n \in Node, Connect(c, n) PROVE PageChanges(c)
  <2> DEFINE t == [s EXCEPT !.server = n, !.socket = "opening", !.ws = TRUE]
  <2>1. page' = [page EXCEPT ![c] = t]
    BY <1>1, <1>4 DEF Connect, Update, connectToServer, PageType
  <2>2. IsAlike(s, t)
    BY <1>1 DEF IsAlike, SamePlace, PageType
  <2> HIDE DEF t
  <2>. QED
    BY <1>3, <2>1, <2>2 DEF IsHandled
<1>5. CASE Open(c)
  <2> DEFINE t == [s EXCEPT !.socket = "open"]
  <2>1. page' = [page EXCEPT ![c] = t]
    BY <1>5 DEF Open, Update
  <2>2. IsAlike(s, t)
    BY <1>1 DEF IsAlike, SamePlace, PageType
  <2> HIDE DEF t
  <2>. QED
    BY <1>3, <2>1, <2>2 DEF IsHandled
<1>6. CASE ReceiveRedirect(c)
  <2> DEFINE m == Head(down[c])
             n == IF m.to = None THEN s.server ELSE m.to
             t == [s EXCEPT !.server = n, !.socket = "redirected", !.closing = s.closing + 1]
  <2>1. page' = [page EXCEPT ![c] = t]
    BY <1>1, <1>6 DEF ReceiveRedirect, Update, handleRedirect, PageType
  <2>2. IsAlike(s, t)
    BY <1>1 DEF IsAlike, SamePlace, PageType
  <2> HIDE DEF t
  <2>. QED
    BY <1>3, <2>1, <2>2 DEF IsHandled
<1>7. CASE Disconnect(c)
  <2> DEFINE t == [s EXCEPT !.socket = "none", !.ws = FALSE, !.active = FALSE]
  <2>1. page' = [page EXCEPT ![c] = t] /\ Idle(c)
    BY <1>1, <1>7 DEF Disconnect, Update, onWsClose, Allowed, Settled, PageType
  <2>2. IsLaidDown(s, t)
    BY <1>1, <2>1 DEF IsLaidDown, PageType, Idle
  <2> HIDE DEF t
  <2>. QED
    BY <1>3, <2>1, <2>2 DEF IsHandled
<1>8. CASE LateClose(c)
  <2> DEFINE t == [s EXCEPT !.closing = s.closing - 1, !.ws = FALSE, !.active = FALSE]
  <2>1. page' = [page EXCEPT ![c] = t] /\ s.closing > 0
    BY <1>1, <1>8 DEF LateClose, Update, onWsClose, PageType
  <2>2. IsAlike(s, t)
    <3>1. ~s.active
      <4> HIDE DEF s, u, d, g
      <4>. QED
        BY <1>1, <2>1 DEF ConnectionOK, Away, Asking, SentAway, Answered, Working, AtLeader, OneSocket, PageType, s
    <3>. QED
      BY <1>1, <3>1 DEF IsAlike, SamePlace, PageType
  <2> HIDE DEF t
  <2>. QED
    BY <1>3, <2>1, <2>2 DEF IsHandled
<1>9. CASE Reload(c)
  <2> DEFINE t == NewPage(s.nextSubmissionId, s.server)
  <2>1. page' = [page EXCEPT ![c] = t] /\ Idle(c)
    BY <1>9 DEF Reload, Update, Allowed
  <2>2. IsLeft(s, t)
    BY <2>1, TextNil DEF IsLeft, NewPage, Idle
  <2> HIDE DEF t
  <2>. QED
    BY <1>3, <2>1, <2>2 DEF IsHandled
<1>. QED
  BY <1>4, <1>5, <1>6, <1>7, <1>8, <1>9

\* The page submits what is new.
LEMMA TickChanges ==
    ASSUME IInv, NEW c \in Client, Tick(c)
    PROVE  PageChanges(c)
<1> DEFINE s == page[c]
           u == up[c]
           d == down[c]
           g == registered[c]
           t == MoveToX(s)
           text == TextAt(s.serverRev)
<1>1. /\ PageOK(s) /\ ConnectionOK(c, s, u, d, g) /\ s \in PageType /\ s.active /\ ~s.waitingForAck
  BY DEF IInv, ThisClientOK, ClientOK, PageOK, Tick, MayTick
<1>2. page' = [page EXCEPT ![c] = t] /\ fsm' = fsm /\ UserSame
  BY DEF Tick, Update, docVars, userVars, UserSame
<1> HIDE DEF s, u, d, g
<1>3. Stands(s, text) /\ isIdentity(s.X)
  BY <1>1, ActiveWorks, WorkingStands
<1> HIDE DEF text
<1>4. /\ Stands(t, text) /\ t.waitingForAck /\ t.serverRev = s.serverRev /\ t.active
      /\ t.editor = s.editor /\ ApplyChangeset(text, t.X) = s.editor
  BY <1>1, <1>3, MoveStands
<1>5. t.X = DiffToChangeset(text, s.editor)
  BY <1>1, <1>3 DEF MoveToX, NewEdits, PageType, Stands
<1> HIDE DEF t
<1>6. Half(t) = s.editor
  BY <1>4, HalfIs
<1>7. t.A = s.A /\ t.baseText = s.baseText /\ s.baseText = text
  BY <1>3, <1>4 DEF Stands
<1>8. NewChars(t.X) = Fewest(s.baseText, s.editor)
  BY <1>5, <1>7 DEF Fewest
<1>9. IsSubmitted(s, t)
  BY <1>1, <1>4, <1>6, <1>7, <1>8 DEF IsSubmitted
<1>. QED
  BY <1>2, <1>9 DEF PageChanges, Becomes, IsHandled, s

\* The page handles a message.
LEMMA ReceiveChanges ==
    ASSUME IInv, LInv, Races = {}, NEW c \in Client, Receive(c)
    PROVE  PageChanges(c)
<1> DEFINE s == page[c]
           u == up[c]
           d == down[c]
           g == registered[c]
           k == s.serverRev
           r == s.serverRev + 1
           t == Handled(s, Head(d))
<1>1. /\ PageOK(s) /\ ConnectionOK(c, s, u, d, g) /\ LocalOK(s) /\ DocumentOK
      /\ SubmissionOK(c, s, u, Proposals(c))
      /\ s.socket = "open" /\ d # <<>> /\ Head(d).type # "REDIRECT"
  BY DEF IInv, ThisClientOK, ClientOK, Receive, LInv
<1>2. page' = [page EXCEPT ![c] = t] /\ fsm' = fsm /\ UserSame
  BY DEF Receive, Update, docVars, userVars, UserSame
<1> HIDE DEF s, u, d, g
<1>3. s \in PageType /\ k \in Nat /\ fsm.headRev \in Nat /\ nulls = {}
  BY <1>1 DEF PageOK, PageType, DocumentOK, Sound
<1>4. SUFFICES IsHandled(c, s, t, fsm)
  <2> HIDE DEF t
  <2>. QED
    BY <1>2 DEF PageChanges, Becomes, s
<1>5. CASE Answered(c, s, u, d, g)
  <2>1. PICK n \in k..fsm.headRev : Head(d) = ConnectAckMsg(k, n) /\ Near(s, n) /\ NoneOwn(c, n)
    BY <1>5 DEF Answered
  <2>2. n \in Nat /\ k <= n /\ n <= fsm.headRev /\ (k = 0 \/ n <= k + 1) /\ ~s.active
    BY <1>3, <1>5, <2>1 DEF Near, Answered
  <2>3. t = handleConnectAck(s, TextAt(n), n, RevisionsBetween(k, n))
    BY <2>1 DEF Handled, ConnectAckMsg
  <2>4. /\ Stands(t, TextAt(n)) /\ isIdentity(t.X) /\ t.active /\ t.serverRev = n
        /\ t.waitingForAck = s.waitingForAck
    BY <1>1, <2>2, <2>3, ConnectAckStands
  <2>5. t.editor = TextAt(n)
    BY <1>1, <1>3, <2>2, <2>3, ConnectAckShows
  <2> HIDE DEF t
  <2>6. Half(t) = TextAt(n) /\ NewChars(t.X) = 0 /\ t.baseText = TextAt(n) /\ t.A # Null
    BY <2>4, HalfIs, StandsIs DEF Stands
  <2>7. ~s.waitingForAck
    BY <1>1, <2>2 DEF PageOK
  <2>8. NoneBy(fsm, c, n)
    BY <2>1 DEF NoneOwn, NoneBy, Author
  <2>9. IsTakenOver(c, s, t, fsm)
    BY <2>2, <2>4, <2>5, <2>6, <2>7, <2>8 DEF IsTakenOver, TextAt
  <2>. QED
    BY <2>9 DEF IsHandled
<1>6. CASE Working(c, s, u, d, g)
  <2>1. Stands(s, TextAt(k)) /\ s.active
    BY <1>1, <1>6, WorkingStands
  <2>2. r \in Nat /\ r <= fsm.headRev /\ Head(d) = News(c, r)
    <3>1. Told(c, s, d, k)
      BY <1>3, <1>6, AllTold
    <3>2. r \in 1..fsm.headRev /\ Head(d) = News(c, r)
      BY <1>1, <1>3, <3>1, NextNews
    <3>. QED
      BY <1>3, <3>2
  <2>3. CASE fsm.revisionLog[r].source = c
    <3>1. t = handleAck(s, r)
      BY <2>2, <2>3 DEF Handled, News, AckMsg
    <3>2. /\ Stands(t, ApplyChangeset(TextAt(k), s.X)) /\ isIdentity(t.X) /\ ~t.waitingForAck
          /\ t.serverRev = r /\ t.active
      BY <2>1, <2>2, <3>1, AckStands
    <3>3. t.editor = s.editor
      BY <1>3, <3>1 DEF handleAck, PageType
    <3>4. Half(s) = ApplyChangeset(TextAt(k), s.X)
      BY <2>1, HalfIs
    <3>5. fsm.revisionLog[r].changeset = s.X
      <4>1. r \in k + 1..fsm.headRev
        BY <1>3, <2>2
      <4>2. ~NoneOwn(c, k)
        BY <2>3, <4>1 DEF NoneOwn
      <4>3. Committed(c, s, u, Proposals(c))
        BY <1>1, <2>1, <4>2, StandsIs DEF SubmissionOK, Waiting, Unsent, OnItsWay, Proposed
      <4>4. fsm.revisionLog[r].changeset = CaughtUp(s.X, k, r - 1)
        BY <2>3, <4>1, <4>3 DEF Committed
      <4>5. r - 1 = k
        BY <1>3
      <4> HIDE DEF k
      <4>6. CaughtUp(s.X, k, k) = s.X
        BY <1>3, CaughtUpStart DEF CaughtUp
      <4>. QED
        BY <4>4, <4>5, <4>6
    <3> HIDE DEF t
    <3>6. t.baseText = Half(s) /\ Half(t) = Half(s) /\ NewChars(t.X) = 0 /\ t.A # Null
      BY <3>2, <3>4, HalfIs, StandsIs DEF Stands
    <3>7. IsAcknowledged(c, s, t, fsm)
      BY <2>1, <2>2, <2>3, <3>2, <3>3, <3>5, <3>6 DEF IsAcknowledged, Author
    <3>. QED
      BY <3>7 DEF IsHandled
  <2>4. CASE fsm.revisionLog[r].source # c
    <3> DEFINE B == fsm.revisionLog[r].changeset
    <3>1. t = handleBroadcast(s, B, r)
      BY <1>3, <2>2, <2>4 DEF Handled, News, BroadcastMsg, Sent
    <3>2. B \in CharChangeset /\ Suits(TextAt(k), B)
      <4> HIDE DEF k
      <4>1. k + 1 <= fsm.headRev /\ r = k + 1
        BY <2>2 DEF k
      <4>. QED
        BY <1>1, <1>3, <4>1, RevisionIs
    <3> HIDE DEF t
    <3>3. /\ Stands(t, ApplyChangeset(TextAt(k), B)) /\ t.waitingForAck = s.waitingForAck
          /\ t.serverRev = r /\ t.active
      <4> HIDE DEF B
      <4>. QED
        BY <2>1, <2>2, <3>1, <3>2, BroadcastStands
    <3>4. /\ NewChars(t.X) = NewChars(s.X)
          /\ Fewest(Half(t), t.editor) <= Fewest(Half(s), s.editor)
          /\ \A l :
               /\ Times(l, t.baseText) + Times(l, Half(s)) <= Times(l, Half(t)) + Times(l, s.baseText)
               /\ Times(l, s.editor) + Times(l, Half(t)) <= Times(l, t.editor) + Times(l, Half(s))
               /\ Times(l, Half(t)) <= Times(l, Half(s)) + NewChars(B)
               /\ Times(l, t.editor) <= Times(l, s.editor) + NewChars(B)
      <4> HIDE DEF B
      <4>. QED
        BY <2>1, <2>2, <3>1, <3>2, BroadcastCounts
    <3>5. t.A # Null
      BY <3>3, StandsIs
    <3>6. IsRebased(c, s, t, fsm)
      BY <2>1, <2>2, <2>4, <3>3, <3>4, <3>5 DEF IsRebased, Author
    <3>. QED
      BY <3>6 DEF IsHandled
  <2>. QED
    BY <2>3, <2>4
<1>. QED
  BY <1>1, <1>5, <1>6 DEF ConnectionOK, Away, Asking, SentAway

\* A step changes a page, or commits an entry, or nothing of these.
LEMMA StepChanges ==
    ASSUME IInv, LInv, Races = {}, [Next]_vars
    PROVE  \/ \E c \in Client : PageChanges(c)
           \/ \E e \in proposed : Commit(e)
           \/ page' = page /\ fsm' = fsm /\ UserSame
<1> DEFINE Same == page' = page /\ fsm' = fsm /\ UserSame
<1>1. CASE UNCHANGED vars
  BY <1>1 DEF vars, docVars, userVars, UserSame
<1>2. CASE Users
  BY <1>2, EditChanges, SocketChanges DEF Users
<1>3. CASE Pages
  <2>1. ASSUME NEW c \in Client, Retry(c) PROVE Same
    BY <2>1 DEF Retry, docVars, userVars, UserSame
  <2>. QED
    BY <1>3, <2>1, SocketChanges, ReceiveChanges, TickChanges DEF Pages
<1>4. CASE Servers
  <2>1. ASSUME NEW c \in Client, Register(c) \/ AnswerConnect(c) \/ Removal(c) \/ Submit(c)
        PROVE  Same
    BY <2>1 DEF Register, AnswerConnect, Removal, Submit, docVars, userVars, UserSame
  <2>2. ASSUME NEW n \in Node, ApplyNext(n) \/ Callback(n) PROVE Same
    BY <2>2 DEF ApplyNext, Callback, docVars, userVars, UserSame
  <2>. QED
    BY <1>4, <2>1, <2>2 DEF Servers
<1>5. CASE Faulty
  <2>1. ASSUME NEW e \in proposed, ProposalFails(e) PROVE Same
    BY <2>1 DEF ProposalFails, docVars, userVars, UserSame
  <2>2. ASSUME NEW n, NewLeader(n) \/ Restart(n) PROVE Same
    BY <2>2 DEF NewLeader, Restart, docVars, userVars, UserSame
  <2>. QED
    BY <1>5, <2>1, <2>2, SocketChanges DEF Faulty
<1>. QED
  BY <1>1, <1>2, <1>3, <1>4, <1>5 DEF Next

-------------------------------------------------------------------------------
(* No character is lost but those that are erased.                         *)
(*                                                                         *)
(* Each erasure is given a mark, a number up to erased.  The mark is first *)
(* in the Y of the user who erased, then in his X, and then in a revision. *)
(* For a user o, W[k] counts the characters that o typed and that came     *)
(* with the revisions up to k, x those that came with X and y those that   *)
(* are on the screen only.  What a text lacks of them is made up for by    *)
(* the marks on the way to it.                                             *)

Mark == [who : Client, stage : {"Y", "X", "revision"}, at : Nat]

\* The marks in the Y or the X of d, and those in the revisions up to k.
Marked(tag, d, stage) == {i \in DOMAIN tag : tag[i].who = d /\ tag[i].stage = stage}
MarkedUpto(tag, k) == {i \in DOMAIN tag : tag[i].at \in 1..k}

\* A mark in an X that is committed is in its revision as well.
MarksOK(tag, n, pg, f) ==
    /\ n \in Nat /\ tag \in [1..n -> Mark]
    /\ \A i \in 1..n :
          /\ tag[i].at <= f.headRev
          /\ tag[i].stage = "Y" => tag[i].at = 0
          /\ tag[i].stage = "X" =>
                /\ pg[tag[i].who].waitingForAck
                /\ \/ tag[i].at = 0
                   \/ /\ tag[i].at > pg[tag[i].who].serverRev
                      /\ Author(f, tag[i].at) = tag[i].who

\* Where the page s of o stands: a new page is to take over the newest revision.
Place(s, f) == IF s.A = Null THEN f.headRev ELSE s.serverRev

\* What o typed came with the revisions of o, up to the page's and the one that is
\* not acknowledged, with X, and with Y.
OwnerOK(o, s, f, W, x, y, total) ==
    /\ \A i, j \in 0..f.headRev : i <= j /\ (\A q \in i + 1..j : Author(f, q) # o) => W[i] = W[j]
    /\ s.A # Null => \A q \in s.serverRev + 1..f.headRev :
                        Author(f, q) = o => W[q] = W[s.serverRev] + x
    /\ ~s.waitingForAck => x = 0
    /\ W[Place(s, f)] + x + y = total

\* What the text of each revision lacks.
TextsKeep(l, f, W, tag) ==
    \A k \in 0..f.headRev : W[k] <= Times(l, ReplayTo(f, k)) + Cardinality(MarkedUpto(tag, k))

\* What the page of d lacks, which has x and y in X and Y.
ShowsKept(l, d, s, tag, x, y) ==
    /\ Times(l, s.baseText) + x <= Times(l, Half(s)) + Cardinality(Marked(tag, d, "X"))
    /\ Times(l, Half(s)) + y <= Times(l, s.editor) + Cardinality(Marked(tag, d, "Y"))

Mine(d, o, x) == IF d = o THEN x ELSE 0

KeptBy(o, pg, f, total, gone, tag, W, x, y) ==
    /\ W \in [Nat -> Nat] /\ x \in Nat /\ y \in Nat /\ f.headRev \in Nat
    /\ MarksOK(tag, gone, pg, f)
    /\ OwnerOK(o, pg[o], f, W, x, y, total)
    /\ TextsKeep(Letter[o], f, W, tag)
    /\ \A d \in Client : ShowsKept(Letter[o], d, pg[d], tag, Mine(d, o, x), Mine(d, o, y))

Kept(o, pg, f, total, gone) == \E tag, W, x, y : KeptBy(o, pg, f, total, gone, tag, W, x, y)

\* There are at most n marks.
LEMMA MarkedFinite ==
    ASSUME NEW n \in Nat, NEW tag \in [1..n -> Mark]
    PROVE  /\ \A d, stage : /\ IsFiniteSet(Marked(tag, d, stage)) /\ Cardinality(Marked(tag, d, stage)) \in Nat
                            /\ Marked(tag, d, stage) \subseteq 1..n
           /\ \A k : /\ IsFiniteSet(MarkedUpto(tag, k)) /\ Cardinality(MarkedUpto(tag, k)) \in Nat
                     /\ MarkedUpto(tag, k) \subseteq 1..n
<1>1. IsFiniteSet(1..n)
  BY FS_Interval
<1>2. ASSUME NEW S, S \subseteq 1..n PROVE IsFiniteSet(S) /\ Cardinality(S) \in Nat
  BY <1>1, <1>2, FS_Subset, FS_CardinalityType
<1>3. \A d, stage : Marked(tag, d, stage) \subseteq 1..n
  BY DEF Marked
<1>4. \A k : MarkedUpto(tag, k) \subseteq 1..n
  BY DEF MarkedUpto
<1>. QED
  BY <1>2, <1>3, <1>4

\* What is to be shown of a page that changes.
Recounted(o, c, t, pg, pg2, f, total, more, lost, tag, tag2, W, x, y, x2, y2) ==
    /\ c \in Client /\ DOMAIN pg = Client /\ pg2 = [pg EXCEPT ![c] = t]
    /\ x2 \in Nat /\ y2 \in Nat
    /\ MarksOK(tag2, lost, pg2, f)
    /\ c # o => x2 = x /\ y2 = y /\ more = total
    /\ c = o => OwnerOK(o, t, f, W, x2, y2, more)
    /\ \A k : MarkedUpto(tag2, k) = MarkedUpto(tag, k)
    /\ \A d, stage : d # c => Marked(tag2, d, stage) = Marked(tag, d, stage)
    /\ ShowsKept(Letter[o], c, t, tag2, Mine(c, o, x2), Mine(c, o, y2))

LEMMA KeptPage ==
    ASSUME NEW o \in Client, NEW pg, NEW f, NEW total, NEW gone,
           NEW tag, NEW W, NEW x, NEW y, KeptBy(o, pg, f, total, gone, tag, W, x, y),
           NEW c, NEW t, NEW pg2, NEW more, NEW lost, NEW tag2, NEW x2, NEW y2,
           Recounted(o, c, t, pg, pg2, f, total, more, lost, tag, tag2, W, x, y, x2, y2)
    PROVE  KeptBy(o, pg2, f, more, lost, tag2, W, x2, y2)
<1>0. /\ c \in Client /\ DOMAIN pg = Client /\ pg2 = [pg EXCEPT ![c] = t]
      /\ x2 \in Nat /\ y2 \in Nat
      /\ MarksOK(tag2, lost, pg2, f)
      /\ c # o => x2 = x /\ y2 = y /\ more = total
      /\ c = o => OwnerOK(o, t, f, W, x2, y2, more)
      /\ \A k : MarkedUpto(tag2, k) = MarkedUpto(tag, k)
      /\ \A d, stage : d # c => Marked(tag2, d, stage) = Marked(tag, d, stage)
      /\ ShowsKept(Letter[o], c, t, tag2, Mine(c, o, x2), Mine(c, o, y2))
  BY DEF Recounted
<1>1. /\ W \in [Nat -> Nat] /\ f.headRev \in Nat
      /\ OwnerOK(o, pg[o], f, W, x, y, total)
      /\ TextsKeep(Letter[o], f, W, tag)
      /\ \A d \in Client : ShowsKept(Letter[o], d, pg[d], tag, Mine(d, o, x), Mine(d, o, y))
  BY DEF KeptBy
<1>2. pg2[c] = t /\ \A d \in Client : d # c => pg2[d] = pg[d]
  BY <1>0
<1>3. OwnerOK(o, pg2[o], f, W, x2, y2, more)
  BY <1>0, <1>1, <1>2
<1>4. TextsKeep(Letter[o], f, W, tag2)
  BY <1>0, <1>1 DEF TextsKeep
<1>5. ASSUME NEW d \in Client
      PROVE  ShowsKept(Letter[o], d, pg2[d], tag2, Mine(d, o, x2), Mine(d, o, y2))
  <2>1. CASE d = c
    BY <1>0, <1>2, <2>1
  <2>2. CASE d # c
    <3>1. ShowsKept(Letter[o], d, pg[d], tag2, Mine(d, o, x), Mine(d, o, y))
      BY <1>0, <1>1, <2>2 DEF ShowsKept
    <3>2. Mine(d, o, x2) = Mine(d, o, x) /\ Mine(d, o, y2) = Mine(d, o, y)
      BY <1>0, <2>2 DEF Mine
    <3>. QED
      BY <1>2, <2>2, <3>1, <3>2
  <2>. QED
    BY <2>1, <2>2
<1>. QED
  BY <1>0, <1>1, <1>3, <1>4, <1>5 DEF KeptBy

\* The same, when the marks stay as they are and the page neither gives up an X nor
\* goes past a revision of its own.
LEMMA KeptPageMarks ==
    ASSUME NEW o \in Client, NEW pg, DOMAIN pg = Client, NEW f, NEW total, NEW gone,
           NEW tag, NEW W, NEW x, NEW y, KeptBy(o, pg, f, total, gone, tag, W, x, y),
           NEW c \in Client, NEW s, s = pg[c], NEW t, NEW pg2, pg2 = [pg EXCEPT ![c] = t],
           s.waitingForAck => t.waitingForAck,
           s.serverRev \in Nat, t.serverRev \in Nat,
           s.waitingForAck => \A q \in s.serverRev + 1..t.serverRev : Author(f, q) # c
    PROVE  MarksOK(tag, gone, pg2, f)
<1>1. MarksOK(tag, gone, pg, f) /\ f.headRev \in Nat
  BY DEF KeptBy
<1>2. pg2[c] = t /\ \A d \in Client : d # c => pg2[d] = pg[d]
  OBVIOUS
<1>3. ASSUME NEW i \in 1..gone, tag[i].stage = "X"
      PROVE  /\ pg2[tag[i].who].waitingForAck
             /\ \/ tag[i].at = 0
                \/ /\ tag[i].at > pg2[tag[i].who].serverRev
                   /\ Author(f, tag[i].at) = tag[i].who
  <2> DEFINE d == tag[i].who
             k == tag[i].at
  <2>1. d \in Client /\ k \in Nat
    BY <1>1 DEF MarksOK, Mark
  <2>2. pg[d].waitingForAck /\ (k = 0 \/ (k > pg[d].serverRev /\ Author(f, k) = d))
    BY <1>1, <1>3 DEF MarksOK
  <2> HIDE DEF d, k
  <2>3. CASE d # c
    BY <1>2, <2>1, <2>2, <2>3 DEF d, k
  <2>4. CASE d = c
    <3>1. t.waitingForAck /\ (k = 0 \/ (k > s.serverRev /\ Author(f, k) = c))
      BY <2>2, <2>4
    <3>2. k > s.serverRev /\ Author(f, k) = c => k > t.serverRev
      BY <2>1, <2>2, <2>4
    <3>. QED
      BY <1>2, <2>4, <3>1, <3>2 DEF d, k
  <2>. QED
    BY <2>3, <2>4
<1>. QED
  BY <1>1, <1>3 DEF MarksOK

\* The page of c turns from s into t.
Turns(c, s, t, pg, pg2, f) ==
    /\ c \in Client /\ DOMAIN pg = Client /\ s = pg[c] /\ pg2 = [pg EXCEPT ![c] = t]
    /\ IsPage(c, s, f) /\ IsPage(c, t, f)

\* The same, when all that is counted stays as it is.
LEMMA KeptQuiet ==
    ASSUME NEW o \in Client, NEW pg, NEW f, NEW total, NEW gone,
           NEW tag, NEW W, NEW x, NEW y, KeptBy(o, pg, f, total, gone, tag, W, x, y),
           NEW c, NEW s, NEW t, NEW pg2, Turns(c, s, t, pg, pg2, f),
           s.waitingForAck => t.waitingForAck /\ \A q \in s.serverRev + 1..t.serverRev : Author(f, q) # c,
           c = o => OwnerOK(o, t, f, W, x, y, total),
           ShowsKept(Letter[o], c, t, tag, Mine(c, o, x), Mine(c, o, y))
    PROVE  Kept(o, pg2, f, total, gone)
<1>1. /\ c \in Client /\ DOMAIN pg = Client /\ s = pg[c] /\ pg2 = [pg EXCEPT ![c] = t]
      /\ s.serverRev \in Nat /\ t.serverRev \in Nat
  BY DEF Turns, IsPage
<1>2. MarksOK(tag, gone, pg2, f)
  BY <1>1, KeptPageMarks
<1>3. x \in Nat /\ y \in Nat
  BY DEF KeptBy
<1>4. /\ \A k : MarkedUpto(tag, k) = MarkedUpto(tag, k)
      /\ \A d, stage : d # c => Marked(tag, d, stage) = Marked(tag, d, stage)
  OBVIOUS
<1>5. Recounted(o, c, t, pg, pg2, f, total, total, gone, tag, tag, W, x, y, x, y)
  BY <1>1, <1>2, <1>3, <1>4 DEF Recounted
<1>. QED
  BY <1>5, KeptPage DEF Kept

\* What KeptBy says of the page of c, and what is counted there.
LEMMA KeptCounts ==
    ASSUME NEW o \in Client, NEW pg, NEW f, NEW total, NEW gone,
           NEW tag, NEW W, NEW x, NEW y, KeptBy(o, pg, f, total, gone, tag, W, x, y),
           NEW c \in Client, IsPage(c, pg[c], f)
    PROVE  /\ Mine(c, o, x) \in Nat /\ Mine(c, o, y) \in Nat
           /\ Times(Letter[o], pg[c].baseText) \in Nat /\ Times(Letter[o], pg[c].editor) \in Nat
           /\ Times(Letter[o], Half(pg[c])) \in Nat
           /\ Cardinality(Marked(tag, c, "X")) \in Nat /\ Cardinality(Marked(tag, c, "Y")) \in Nat
           /\ ShowsKept(Letter[o], c, pg[c], tag, Mine(c, o, x), Mine(c, o, y))
<1>1. x \in Nat /\ y \in Nat /\ gone \in Nat /\ tag \in [1..gone -> Mark]
      /\ ShowsKept(Letter[o], c, pg[c], tag, Mine(c, o, x), Mine(c, o, y))
  BY DEF KeptBy, MarksOK
<1>2. pg[c].baseText \in Text /\ pg[c].editor \in Text /\ Half(pg[c]) \in Text
  BY DEF IsPage
<1>. QED
  BY <1>1, <1>2, TimesIs, MarkedFinite DEF Mine

\* The counts by revision that one user's page has gone past, and has not.
LEMMA OwnerLevel ==
    ASSUME NEW o, NEW s, NEW f, f.headRev \in Nat, NEW W, NEW x, NEW y, NEW total,
           OwnerOK(o, s, f, W, x, y, total), NEW k \in Nat, k <= f.headRev, NoneBy(f, o, k)
    PROVE  W[k] = W[f.headRev]
<1>1. k \in 0..f.headRev /\ f.headRev \in 0..f.headRev /\ k <= f.headRev
  OBVIOUS
<1>2. \A q \in k + 1..f.headRev : Author(f, q) # o
  BY DEF NoneBy
<1>. QED
  BY <1>1, <1>2 DEF OwnerOK

\* A page that stays as it is.
LEMMA KeptAlike ==
    ASSUME NEW o \in Client, NEW pg, NEW f, NEW total, NEW gone, Kept(o, pg, f, total, gone),
           NEW c, NEW s, NEW t, NEW pg2, Turns(c, s, t, pg, pg2, f), IsAlike(s, t)
    PROVE  Kept(o, pg2, f, total, gone)
<1>1. PICK tag, W, x, y : KeptBy(o, pg, f, total, gone, tag, W, x, y)
  BY DEF Kept
<1>2. /\ t.A = s.A /\ t.serverRev = s.serverRev /\ t.baseText = s.baseText
      /\ t.waitingForAck = s.waitingForAck /\ t.editor = s.editor /\ Half(t) = Half(s)
      /\ s = pg[c] /\ c \in Client /\ s.serverRev \in Nat
  BY DEF IsAlike, SamePlace, Half, Turns, IsPage
<1>3. c = o => OwnerOK(o, t, f, W, x, y, total)
  BY <1>1, <1>2 DEF KeptBy, OwnerOK, Place
<1>4. ShowsKept(Letter[o], c, t, tag, Mine(c, o, x), Mine(c, o, y))
  <2>1. ShowsKept(Letter[o], c, s, tag, Mine(c, o, x), Mine(c, o, y))
    BY <1>1, <1>2 DEF KeptBy
  <2>. QED
    BY <1>2, <2>1 DEF ShowsKept
<1>5. \A q \in s.serverRev + 1..t.serverRev : Author(f, q) # c
  <2>1. s.serverRev + 1..s.serverRev = {}
    BY <1>2
  <2>. QED
    BY <1>2, <2>1
<1>. QED
  BY <1>1, <1>2, <1>3, <1>4, <1>5, KeptQuiet

\* A page with nothing of its own, that takes a text over, that loses its connection,
\* or that is left.
LEMMA KeptTakenOver ==
    ASSUME NEW o \in Client, NEW pg, NEW f, NEW total, NEW gone, Kept(o, pg, f, total, gone),
           NEW c, NEW s, NEW t, NEW pg2, Turns(c, s, t, pg, pg2, f),
           IsTakenOver(c, s, t, f) \/ IsLaidDown(s, t) \/ IsLeft(s, t)
    PROVE  Kept(o, pg2, f, total, gone)
<1>1. PICK tag, W, x, y : KeptBy(o, pg, f, total, gone, tag, W, x, y)
  BY DEF Kept
<1>2. /\ c \in Client /\ s = pg[c] /\ IsPage(c, s, f) /\ IsPage(c, t, f)
      /\ f.headRev \in Nat /\ W \in [Nat -> Nat] /\ x \in Nat /\ y \in Nat
  BY <1>1 DEF Turns, KeptBy
<1>3. /\ ~s.waitingForAck /\ s.editor = Half(s) /\ s.editor = s.baseText
      /\ ~t.waitingForAck /\ t.editor = Half(t) /\ t.editor = t.baseText
  BY <1>2 DEF IsPage, Half, IsTakenOver, IsLaidDown, IsLeft
<1>4. /\ s.A # Null => s.serverRev <= f.headRev /\ s.serverRev \in Nat /\ NoneBy(f, c, s.serverRev)
      /\ t.A # Null => t.serverRev <= f.headRev /\ t.serverRev \in Nat /\ NoneBy(f, c, t.serverRev)
  BY <1>2, <1>3 DEF IsPage
<1>5. ASSUME c = o PROVE OwnerOK(o, t, f, W, x, y, total)
  <2>1. OwnerOK(o, s, f, W, x, y, total) /\ x = 0
    BY <1>1, <1>2, <1>3, <1>5 DEF KeptBy, OwnerOK
  <2>2. W[Place(s, f)] = W[f.headRev] /\ W[Place(t, f)] = W[f.headRev]
    BY <1>2, <1>4, <1>5, <2>1, OwnerLevel DEF Place
  <2>3. t.A # Null => \A q \in t.serverRev + 1..f.headRev : Author(f, q) # o
    BY <1>4, <1>5 DEF NoneBy
  <2>. QED
    BY <2>1, <2>2, <2>3 DEF OwnerOK
<1>6. ShowsKept(Letter[o], c, t, tag, Mine(c, o, x), Mine(c, o, y))
  <2> DEFINE l == Letter[o]
             a == Mine(c, o, x)
             b == Mine(c, o, y)
             m == Cardinality(Marked(tag, c, "X"))
             n == Cardinality(Marked(tag, c, "Y"))
  <2>1. /\ a \in Nat /\ b \in Nat /\ m \in Nat /\ n \in Nat
        /\ Times(l, s.editor) \in Nat /\ Times(l, s.editor) + b <= Times(l, s.editor) + n
    BY <1>1, <1>2, <1>3, KeptCounts DEF ShowsKept
  <2>2. a = 0
    BY <1>1, <1>2, <1>3 DEF Mine, KeptBy, OwnerOK
  <2>3. Times(l, t.editor) \in Nat
    BY <1>2, TimesIs DEF IsPage
  <2> HIDE DEF a, b, m, n, l
  <2>4. Times(l, t.editor) + a <= Times(l, t.editor) + m /\ Times(l, t.editor) + b <= Times(l, t.editor) + n
    BY <2>1, <2>2, <2>3
  <2>. QED
    BY <1>3, <2>4 DEF ShowsKept, a, b, m, n, l
<1>. QED
  BY <1>1, <1>3, <1>5, <1>6, KeptQuiet

\* The user types a character.
LEMMA KeptTyped ==
    ASSUME NEW o \in Client, NEW pg, NEW f, NEW total, NEW gone, Kept(o, pg, f, total, gone),
           NEW c, NEW s, NEW t, NEW pg2, Turns(c, s, t, pg, pg2, f), IsTyped(c, s, t)
    PROVE  Kept(o, pg2, f, IF c = o THEN total + 1 ELSE total, gone)
<1>1. PICK tag, W, x, y : KeptBy(o, pg, f, total, gone, tag, W, x, y)
  BY DEF Kept
<1> DEFINE more == IF c = o THEN total + 1 ELSE total
           y2 == IF c = o THEN y + 1 ELSE y
           l == Letter[o]
<1>2. /\ c \in Client /\ DOMAIN pg = Client /\ s = pg[c] /\ pg2 = [pg EXCEPT ![c] = t]
      /\ IsPage(c, s, f) /\ IsPage(c, t, f) /\ s.serverRev \in Nat
      /\ f.headRev \in Nat /\ W \in [Nat -> Nat] /\ x \in Nat /\ y \in Nat
      /\ OwnerOK(o, pg[o], f, W, x, y, total)
  BY <1>1 DEF Turns, KeptBy, IsPage
<1>3. /\ t.A = s.A /\ t.serverRev = s.serverRev /\ t.baseText = s.baseText
      /\ t.waitingForAck = s.waitingForAck /\ Half(t) = Half(s)
  BY DEF IsTyped, SamePlace, Half
<1>4. Times(l, t.editor) = Times(l, s.editor) + IF Letter[c] = l THEN 1 ELSE 0
  <2>1. PICK u, v \in Text : s.editor = u \o v /\ t.editor = (u \o <<Letter[c]>>) \o v
    BY DEF IsTyped
  <2>2. Letter[c] \in Nat
    BY <1>2, SystemAssumption
  <2>. QED
    BY <2>1, <2>2, TimesBeside
<1>5. c = o => OwnerOK(o, t, f, W, x, y2, more)
  <2>1. Place(s, f) \in Nat
    BY <1>2 DEF Place
  <2>2. W[Place(s, f)] \in Nat
    BY <1>2, <2>1
  <2>. QED
    BY <1>2, <1>3, <2>2 DEF OwnerOK, Place
<1>6. ShowsKept(l, c, t, tag, Mine(c, o, x), Mine(c, o, y2))
  <2> DEFINE m == Cardinality(Marked(tag, c, "X"))
             n == Cardinality(Marked(tag, c, "Y"))
  <2>1. /\ Times(l, s.editor) \in Nat /\ Times(l, Half(s)) \in Nat /\ m \in Nat /\ n \in Nat
        /\ Times(l, s.baseText) + Mine(c, o, x) <= Times(l, Half(s)) + m
        /\ Times(l, Half(s)) + Mine(c, o, y) <= Times(l, s.editor) + n
    BY <1>1, <1>2, KeptCounts DEF ShowsKept
  <2> HIDE DEF m, n
  <2>2. Times(l, Half(s)) + Mine(c, o, y2) <= Times(l, t.editor) + n
    BY <1>2, <1>4, <2>1 DEF Mine
  <2>. QED
    BY <1>3, <2>1, <2>2 DEF ShowsKept, m, n
<1>7. MarksOK(tag, gone, pg2, f)
  <2>1. s.serverRev + 1..t.serverRev = {}
    BY <1>2, <1>3
  <2>. QED
    BY <1>1, <1>2, <1>3, <2>1, KeptPageMarks
<1>8. y2 \in Nat /\ (c # o => y2 = y /\ more = total)
  BY <1>2
<1>9. /\ \A k : MarkedUpto(tag, k) = MarkedUpto(tag, k)
      /\ \A d, stage : d # c => Marked(tag, d, stage) = Marked(tag, d, stage)
  OBVIOUS
<1> HIDE DEF y2, more, l
<1>10. Recounted(o, c, t, pg, pg2, f, total, more, gone, tag, tag, W, x, y, x, y2)
  BY <1>2, <1>5, <1>6, <1>7, <1>8, <1>9 DEF Recounted, l
<1>. QED
  BY <1>1, <1>10, KeptPage DEF Kept, more

\* One mark more.
LEMMA MarkAdded ==
    ASSUME NEW n, NEW tag, NEW pg, NEW f, MarksOK(tag, n, pg, f), f.headRev \in Nat, NEW c \in Client,
           NEW tag2, tag2 = [i \in 1..n + 1 |-> IF i <= n THEN tag[i] ELSE [who |-> c, stage |-> "Y", at |-> 0]]
    PROVE  /\ MarksOK(tag2, n + 1, pg, f)
           /\ \A k : MarkedUpto(tag2, k) = MarkedUpto(tag, k)
           /\ \A d, stage : d # c \/ stage # "Y" => Marked(tag2, d, stage) = Marked(tag, d, stage)
           /\ Cardinality(Marked(tag2, c, "Y")) = Cardinality(Marked(tag, c, "Y")) + 1
<1>1. n \in Nat /\ tag \in [1..n -> Mark] /\ n + 1 \in Nat
  BY DEF MarksOK
<1>2. /\ DOMAIN tag = 1..n /\ DOMAIN tag2 = 1..n + 1 /\ 1..n + 1 = (1..n) \cup {n + 1} /\ n + 1 \notin 1..n
      /\ \A i \in 1..n : tag2[i] = tag[i]
      /\ tag2[n + 1] = [who |-> c, stage |-> "Y", at |-> 0]
  BY <1>1
<1>3. /\ tag2[n + 1] \in Mark /\ tag2[n + 1].who = c /\ tag2[n + 1].stage = "Y" /\ tag2[n + 1].at = 0
  BY <1>2 DEF Mark
<1>4. MarksOK(tag2, n + 1, pg, f)
  <2>1. tag2 \in [1..n + 1 -> Mark]
    <3>1. \A i \in 1..n + 1 : tag2[i] \in Mark
      BY <1>1, <1>2, <1>3
    <3>. QED
      BY <1>2, <3>1
  <2>2. ASSUME NEW i \in 1..n + 1
        PROVE  /\ tag2[i].at <= f.headRev
               /\ tag2[i].stage = "Y" => tag2[i].at = 0
               /\ tag2[i].stage = "X" =>
                     /\ pg[tag2[i].who].waitingForAck
                     /\ \/ tag2[i].at = 0
                        \/ /\ tag2[i].at > pg[tag2[i].who].serverRev
                           /\ Author(f, tag2[i].at) = tag2[i].who
    <3>1. CASE i \in 1..n
      <4>1. tag2[i] = tag[i]
        BY <1>2, <3>1
      <4>. QED
        BY <3>1, <4>1 DEF MarksOK
    <3>2. CASE i = n + 1
      BY <1>3, <3>2
    <3>. QED
      BY <1>2, <3>1, <3>2
  <2>. QED
    BY <1>1, <2>1, <2>2 DEF MarksOK
<1>5. ASSUME NEW k PROVE MarkedUpto(tag2, k) = MarkedUpto(tag, k)
  <2>1. 0 \notin 1..k
    OBVIOUS
  <2>. QED
    BY <1>2, <1>3, <2>1 DEF MarkedUpto
<1>6. ASSUME NEW d, NEW stage, d # c \/ stage # "Y" PROVE Marked(tag2, d, stage) = Marked(tag, d, stage)
  BY <1>2, <1>3, <1>6 DEF Marked
<1>7. Cardinality(Marked(tag2, c, "Y")) = Cardinality(Marked(tag, c, "Y")) + 1
  <2>1. Marked(tag2, c, "Y") = Marked(tag, c, "Y") \cup {n + 1}
    BY <1>2, <1>3 DEF Marked
  <2>2. n + 1 \notin Marked(tag, c, "Y") /\ IsFiniteSet(Marked(tag, c, "Y"))
    BY <1>1, <1>2, MarkedFinite
  <2>. QED
    BY <2>1, <2>2, FS_AddElement
<1>. QED
  BY <1>4, <1>5, <1>6, <1>7

\* The user erases a character.
LEMMA KeptErased ==
    ASSUME NEW o \in Client, NEW pg, NEW f, NEW total, NEW gone, Kept(o, pg, f, total, gone),
           NEW c, NEW s, NEW t, NEW pg2, Turns(c, s, t, pg, pg2, f), IsErased(s, t)
    PROVE  Kept(o, pg2, f, total, gone + 1)
<1>1. PICK tag, W, x, y : KeptBy(o, pg, f, total, gone, tag, W, x, y)
  BY DEF Kept
<1> DEFINE tag2 == [i \in 1..gone + 1 |-> IF i <= gone THEN tag[i] ELSE [who |-> c, stage |-> "Y", at |-> 0]]
           l == Letter[o]
<1>2. /\ c \in Client /\ DOMAIN pg = Client /\ s = pg[c] /\ pg2 = [pg EXCEPT ![c] = t]
      /\ IsPage(c, s, f) /\ IsPage(c, t, f) /\ s.serverRev \in Nat
      /\ f.headRev \in Nat /\ x \in Nat /\ y \in Nat
      /\ OwnerOK(o, pg[o], f, W, x, y, total)
  BY <1>1 DEF Turns, KeptBy, IsPage
<1>3. /\ t.A = s.A /\ t.serverRev = s.serverRev /\ t.baseText = s.baseText
      /\ t.waitingForAck = s.waitingForAck /\ Half(t) = Half(s)
  BY DEF IsErased, SamePlace, Half
<1>4. Times(l, s.editor) <= Times(l, t.editor) + 1
  <2>1. PICK u, v \in Text : \E e \in Nat : s.editor = (u \o <<e>>) \o v /\ t.editor = u \o v
    BY DEF IsErased
  <2>2. PICK e \in Nat : s.editor = (u \o <<e>>) \o v /\ t.editor = u \o v
    BY <2>1
  <2>3. Times(l, s.editor) = Times(l, t.editor) + IF e = l THEN 1 ELSE 0
    BY <2>2, TimesBeside
  <2>4. Times(l, t.editor) \in Nat
    BY <1>2, TimesIs DEF IsPage
  <2> HIDE DEF l
  <2>. QED
    BY <2>3, <2>4
<1>5. c = o => OwnerOK(o, t, f, W, x, y, total)
  BY <1>2, <1>3 DEF OwnerOK, Place
<1>6. /\ MarksOK(tag2, gone + 1, pg2, f)
      /\ \A k : MarkedUpto(tag2, k) = MarkedUpto(tag, k)
      /\ \A d, stage : d # c \/ stage # "Y" => Marked(tag2, d, stage) = Marked(tag, d, stage)
      /\ Cardinality(Marked(tag2, c, "Y")) = Cardinality(Marked(tag, c, "Y")) + 1
  <2>1. s.serverRev + 1..t.serverRev = {}
    BY <1>2, <1>3
  <2>2. MarksOK(tag, gone, pg2, f)
    BY <1>1, <1>2, <1>3, <2>1, KeptPageMarks
  <2> HIDE DEF tag2
  <2>. QED
    BY <1>2, <2>2, MarkAdded DEF tag2
<1> HIDE DEF tag2
<1>7. ShowsKept(l, c, t, tag2, Mine(c, o, x), Mine(c, o, y))
  <2> DEFINE n == Cardinality(Marked(tag, c, "Y"))
             b == Mine(c, o, y)
  <2>1. /\ Times(l, s.editor) \in Nat /\ Times(l, Half(s)) \in Nat /\ n \in Nat /\ b \in Nat
        /\ Times(l, s.baseText) + Mine(c, o, x) <= Times(l, Half(s)) + Cardinality(Marked(tag, c, "X"))
        /\ Times(l, Half(s)) + b <= Times(l, s.editor) + n
    BY <1>1, <1>2, KeptCounts DEF ShowsKept
  <2>2. Times(l, t.editor) \in Nat
    BY <1>2, TimesIs DEF IsPage
  <2>3. Marked(tag2, c, "X") = Marked(tag, c, "X") /\ Cardinality(Marked(tag2, c, "Y")) = n + 1
    BY <1>6
  <2> HIDE DEF n, b, l
  <2>4. Times(l, Half(s)) + b <= Times(l, t.editor) + (n + 1)
    BY <1>4, <2>1, <2>2
  <2>. QED
    BY <1>3, <2>1, <2>3, <2>4 DEF ShowsKept, b
<1>8. \A d, stage : d # c => Marked(tag2, d, stage) = Marked(tag, d, stage)
  BY <1>6
<1> DEFINE lost == gone + 1
<1>9. MarksOK(tag2, lost, pg2, f) /\ \A k : MarkedUpto(tag2, k) = MarkedUpto(tag, k)
  BY <1>6
<1>10. c \in Client /\ DOMAIN pg = Client /\ pg2 = [pg EXCEPT ![c] = t] /\ x \in Nat /\ y \in Nat
  BY <1>2
<1> HIDE DEF l, lost
<1>11. Recounted(o, c, t, pg, pg2, f, total, total, lost, tag, tag2, W, x, y, x, y)
  BY <1>5, <1>7, <1>8, <1>9, <1>10 DEF Recounted, l
<1>. QED
  BY <1>1, <1>11, KeptPage DEF Kept, lost

\* The marks of c in one place come to stand in another, or in a revision.
Restaged(tag, n, c, from, to) ==
    [i \in 1..n |-> IF tag[i].who = c /\ tag[i].stage = from THEN [tag[i] EXCEPT !.stage = to] ELSE tag[i]]

LEMMA MarksMoved ==
    ASSUME NEW n, NEW tag, NEW pg, NEW f, MarksOK(tag, n, pg, f), f.headRev \in Nat, NEW c \in Client,
           NEW from \in {"Y", "X"}, NEW to \in {"X", "revision"}, from # to,
           NEW tag2, tag2 = Restaged(tag, n, c, from, to)
    PROVE  /\ tag2 \in [1..n -> Mark]
           /\ \A i \in 1..n : /\ tag2[i].who = tag[i].who /\ tag2[i].at = tag[i].at
                              /\ tag2[i].stage = IF tag[i].who = c /\ tag[i].stage = from THEN to ELSE tag[i].stage
           /\ \A k : MarkedUpto(tag2, k) = MarkedUpto(tag, k)
           /\ \A d, stage : d # c \/ stage \notin {from, to} => Marked(tag2, d, stage) = Marked(tag, d, stage)
           /\ Marked(tag2, c, from) = {}
           /\ Marked(tag2, c, to) = Marked(tag, c, to) \cup Marked(tag, c, from)
<1>1. n \in Nat /\ tag \in [1..n -> Mark] /\ DOMAIN tag = 1..n /\ DOMAIN tag2 = 1..n
  BY DEF MarksOK, Restaged
<1>2. ASSUME NEW i \in 1..n
      PROVE  /\ tag2[i] \in Mark
             /\ tag2[i].who = tag[i].who /\ tag2[i].at = tag[i].at
             /\ tag2[i].stage = IF tag[i].who = c /\ tag[i].stage = from THEN to ELSE tag[i].stage
  <2>1. tag[i] \in Mark
    BY <1>1
  <2>2. tag2[i] = IF tag[i].who = c /\ tag[i].stage = from THEN [tag[i] EXCEPT !.stage = to] ELSE tag[i]
    BY DEF Restaged
  <2>. QED
    BY <2>1, <2>2 DEF Mark
<1>3. tag2 \in [1..n -> Mark]
  <2>1. \A i \in 1..n : tag2[i] \in Mark
    BY <1>2
  <2>2. tag2 = [i \in 1..n |-> tag2[i]]
    BY DEF Restaged
  <2>. QED
    BY <2>1, <2>2
<1>4. \A k : MarkedUpto(tag2, k) = MarkedUpto(tag, k)
  BY <1>1, <1>2 DEF MarkedUpto
<1>5. ASSUME NEW d, NEW stage, d # c \/ stage \notin {from, to}
      PROVE  Marked(tag2, d, stage) = Marked(tag, d, stage)
  BY <1>1, <1>2, <1>5 DEF Marked
<1>6. Marked(tag2, c, from) = {}
  BY <1>1, <1>2 DEF Marked
<1>7. Marked(tag2, c, to) = Marked(tag, c, to) \cup Marked(tag, c, from)
  BY <1>1, <1>2 DEF Marked
<1>. QED
  BY <1>2, <1>3, <1>4, <1>5, <1>6, <1>7

\* What is new becomes X, and the marks in Y go with it.
LEMMA KeptSubmitted ==
    ASSUME NEW o \in Client, NEW pg, NEW f, NEW total, NEW gone, Kept(o, pg, f, total, gone),
           NEW c, NEW s, NEW t, NEW pg2, Turns(c, s, t, pg, pg2, f), IsSubmitted(s, t)
    PROVE  Kept(o, pg2, f, total, gone)
<1>1. PICK tag, W, x, y : KeptBy(o, pg, f, total, gone, tag, W, x, y)
  BY DEF Kept
<1> DEFINE tag2 == Restaged(tag, gone, c, "Y", "X")
           x2 == IF c = o THEN y ELSE x
           y2 == IF c = o THEN 0 ELSE y
           l == Letter[o]
<1>2. /\ c \in Client /\ DOMAIN pg = Client /\ s = pg[c] /\ pg2 = [pg EXCEPT ![c] = t]
      /\ IsPage(c, s, f) /\ IsPage(c, t, f) /\ s.serverRev \in Nat
      /\ f.headRev \in Nat /\ x \in Nat /\ y \in Nat /\ W \in [Nat -> Nat]
      /\ OwnerOK(o, pg[o], f, W, x, y, total)
      /\ gone \in Nat /\ tag \in [1..gone -> Mark] /\ MarksOK(tag, gone, pg, f)
  BY <1>1 DEF Turns, KeptBy, IsPage, MarksOK
<1>3. /\ t.A = s.A /\ t.serverRev = s.serverRev /\ t.baseText = s.baseText /\ s.A # Null
      /\ ~s.waitingForAck /\ t.waitingForAck /\ t.editor = s.editor /\ Half(t) = s.editor
      /\ Half(s) = s.baseText /\ NoneBy(f, c, s.serverRev) /\ s.serverRev <= f.headRev
  BY <1>2 DEF IsSubmitted, IsPage
<1>4. /\ tag2 \in [1..gone -> Mark]
      /\ \A i \in 1..gone : /\ tag2[i].who = tag[i].who /\ tag2[i].at = tag[i].at
                            /\ tag2[i].stage = IF tag[i].who = c /\ tag[i].stage = "Y" THEN "X" ELSE tag[i].stage
      /\ \A k : MarkedUpto(tag2, k) = MarkedUpto(tag, k)
      /\ \A d, stage : d # c \/ stage \notin {"Y", "X"} => Marked(tag2, d, stage) = Marked(tag, d, stage)
      /\ Marked(tag2, c, "Y") = {}
      /\ Marked(tag2, c, "X") = Marked(tag, c, "X") \cup Marked(tag, c, "Y")
  <2>1. "Y" \in {"Y", "X"} /\ "X" \in {"X", "revision"} /\ "Y" # "X"
    OBVIOUS
  <2>2. MarksOK(tag, gone, pg, f) /\ f.headRev \in Nat /\ c \in Client
    BY <1>2
  <2> HIDE DEF tag2
  <2>. QED
    BY <2>1, <2>2, MarksMoved DEF tag2
<1> HIDE DEF tag2
<1>5. pg2[c] = t /\ \A d \in Client : d # c => pg2[d] = pg[d]
  BY <1>2
<1>6. MarksOK(tag2, gone, pg2, f)
  <2>1. ASSUME NEW i \in 1..gone
        PROVE  /\ tag2[i].at <= f.headRev
               /\ tag2[i].stage = "Y" => tag2[i].at = 0
               /\ tag2[i].stage = "X" =>
                     /\ pg2[tag2[i].who].waitingForAck
                     /\ \/ tag2[i].at = 0
                        \/ /\ tag2[i].at > pg2[tag2[i].who].serverRev
                           /\ Author(f, tag2[i].at) = tag2[i].who
    <3>1. /\ tag[i].at <= f.headRev /\ tag[i].who \in Client
          /\ tag[i].stage = "Y" => tag[i].at = 0
          /\ tag[i].stage = "X" => /\ pg[tag[i].who].waitingForAck
                                   /\ \/ tag[i].at = 0
                                      \/ /\ tag[i].at > pg[tag[i].who].serverRev
                                         /\ Author(f, tag[i].at) = tag[i].who
      BY <1>2 DEF MarksOK, Mark
    <3>2. CASE tag[i].who = c
      BY <1>2, <1>3, <1>4, <1>5, <3>1, <3>2
    <3>3. CASE tag[i].who # c
      BY <1>4, <1>5, <3>1, <3>3
    <3>. QED
      BY <3>2, <3>3
  <2>. QED
    BY <1>2, <1>4, <2>1 DEF MarksOK
<1>7. c = o => OwnerOK(o, t, f, W, x2, y2, total)
  <2>1. ASSUME c = o
        PROVE  /\ \A q \in t.serverRev + 1..f.headRev : Author(f, q) # o
               /\ W[Place(t, f)] + x2 + y2 = total
    <3>1. /\ x = 0 /\ W[s.serverRev] + x + y = total /\ W[s.serverRev] \in Nat
      BY <1>2, <1>3, <2>1 DEF OwnerOK, Place
    <3>. QED
      <4>1. Place(t, f) = s.serverRev /\ x2 = y /\ y2 = 0
        BY <1>3, <2>1 DEF Place
      <4>2. \A q \in t.serverRev + 1..f.headRev : Author(f, q) # o
        BY <1>3, <2>1 DEF NoneBy
      <4>. QED
        BY <1>2, <3>1, <4>1, <4>2, SMTT(40)
  <2>. QED
    BY <1>2, <1>3, <2>1 DEF OwnerOK
<1>8. ShowsKept(l, c, t, tag2, Mine(c, o, x2), Mine(c, o, y2))
  <2> DEFINE n == Cardinality(Marked(tag, c, "Y"))
             b == Mine(c, o, y)
  <2>1. /\ Times(l, s.editor) \in Nat /\ n \in Nat /\ b \in Nat
        /\ Times(l, s.baseText) + b <= Times(l, s.editor) + n
    BY <1>1, <1>2, <1>3, KeptCounts DEF ShowsKept
  <2>2. Marked(tag2, c, "X") = Marked(tag, c, "Y")
    <3>1. Marked(tag, c, "X") = {}
      BY <1>2, <1>3 DEF Marked, MarksOK
    <3>. QED
      BY <1>4, <3>1
  <2>3. Mine(c, o, x2) = b /\ Mine(c, o, y2) = 0
    BY DEF Mine
  <2>4. Cardinality(Marked(tag2, c, "Y")) = 0
    BY <1>4, FS_EmptySet
  <2> HIDE DEF n, b, l
  <2>5. Times(l, s.editor) + 0 <= Times(l, s.editor) + 0
    BY <2>1
  <2>. QED
    BY <1>3, <2>1, <2>2, <2>3, <2>4, <2>5 DEF ShowsKept, n
<1>9. \A d, stage : d # c => Marked(tag2, d, stage) = Marked(tag, d, stage)
  BY <1>4
<1>10. x2 \in Nat /\ y2 \in Nat /\ (c # o => x2 = x /\ y2 = y /\ total = total)
  BY <1>2
<1>11. /\ c \in Client /\ DOMAIN pg = Client /\ pg2 = [pg EXCEPT ![c] = t]
       /\ \A k : MarkedUpto(tag2, k) = MarkedUpto(tag, k)
  BY <1>2, <1>4
<1> HIDE DEF l, x2, y2
<1>12. Recounted(o, c, t, pg, pg2, f, total, total, gone, tag, tag2, W, x, y, x2, y2)
  BY <1>2, <1>6, <1>7, <1>8, <1>9, <1>10, <1>11 DEF Recounted, l
<1>. QED
  BY <1>1, <1>12, KeptPage DEF Kept

\* X is acknowledged, and its marks are in its revision.
LEMMA KeptAcknowledged ==
    ASSUME NEW o \in Client, NEW pg, NEW f, NEW total, NEW gone, Kept(o, pg, f, total, gone),
           NEW c, NEW s, NEW t, NEW pg2, Turns(c, s, t, pg, pg2, f), IsAcknowledged(c, s, t, f)
    PROVE  Kept(o, pg2, f, total, gone)
<1>1. PICK tag, W, x, y : KeptBy(o, pg, f, total, gone, tag, W, x, y)
  BY DEF Kept
<1> DEFINE tag2 == Restaged(tag, gone, c, "X", "revision")
           x2 == IF c = o THEN 0 ELSE x
           r == s.serverRev + 1
           l == Letter[o]
<1>2. /\ c \in Client /\ DOMAIN pg = Client /\ s = pg[c] /\ pg2 = [pg EXCEPT ![c] = t]
      /\ IsPage(c, s, f) /\ IsPage(c, t, f) /\ s.serverRev \in Nat
      /\ f.headRev \in Nat /\ x \in Nat /\ y \in Nat /\ W \in [Nat -> Nat]
      /\ OwnerOK(o, pg[o], f, W, x, y, total)
      /\ gone \in Nat /\ tag \in [1..gone -> Mark] /\ MarksOK(tag, gone, pg, f)
  BY <1>1 DEF Turns, KeptBy, IsPage, MarksOK
<1>3. /\ t.serverRev = r /\ r <= f.headRev /\ Author(f, r) = c /\ t.A # Null /\ s.A # Null
      /\ ~t.waitingForAck /\ t.editor = s.editor /\ t.baseText = Half(s) /\ Half(t) = Half(s)
      /\ NoneBy(f, c, r)
  BY <1>2 DEF IsAcknowledged, IsPage
<1>4. /\ tag2 \in [1..gone -> Mark]
      /\ \A i \in 1..gone : /\ tag2[i].who = tag[i].who /\ tag2[i].at = tag[i].at
                            /\ tag2[i].stage = IF tag[i].who = c /\ tag[i].stage = "X" THEN "revision" ELSE tag[i].stage
      /\ \A k : MarkedUpto(tag2, k) = MarkedUpto(tag, k)
      /\ \A d, stage : d # c \/ stage \notin {"X", "revision"} => Marked(tag2, d, stage) = Marked(tag, d, stage)
      /\ Marked(tag2, c, "X") = {}
  <2>1. "X" \in {"Y", "X"} /\ "revision" \in {"X", "revision"} /\ "X" # "revision"
    OBVIOUS
  <2>2. MarksOK(tag, gone, pg, f) /\ f.headRev \in Nat /\ c \in Client
    BY <1>2
  <2> HIDE DEF tag2
  <2>. QED
    BY <2>1, <2>2, MarksMoved DEF tag2
<1> HIDE DEF tag2
<1>5. pg2[c] = t /\ \A d \in Client : d # c => pg2[d] = pg[d]
  BY <1>2
<1>6. MarksOK(tag2, gone, pg2, f)
  <2>1. ASSUME NEW i \in 1..gone
        PROVE  /\ tag2[i].at <= f.headRev
               /\ tag2[i].stage = "Y" => tag2[i].at = 0
               /\ tag2[i].stage = "X" =>
                     /\ pg2[tag2[i].who].waitingForAck
                     /\ \/ tag2[i].at = 0
                        \/ /\ tag2[i].at > pg2[tag2[i].who].serverRev
                           /\ Author(f, tag2[i].at) = tag2[i].who
    <3>1. /\ tag[i].at <= f.headRev /\ tag[i].who \in Client
          /\ tag[i].stage = "Y" => tag[i].at = 0
          /\ tag[i].stage = "X" => /\ pg[tag[i].who].waitingForAck
                                   /\ \/ tag[i].at = 0
                                      \/ /\ tag[i].at > pg[tag[i].who].serverRev
                                         /\ Author(f, tag[i].at) = tag[i].who
      BY <1>2 DEF MarksOK, Mark
    <3>2. CASE tag[i].who = c
      BY <1>2, <1>4, <3>1, <3>2
    <3>3. CASE tag[i].who # c
      BY <1>4, <1>5, <3>1, <3>3
    <3>. QED
      BY <3>2, <3>3
  <2>. QED
    BY <1>2, <1>4, <2>1 DEF MarksOK
<1>7. c = o => OwnerOK(o, t, f, W, x2, y, total)
  <2>1. ASSUME c = o
        PROVE  /\ \A q \in t.serverRev + 1..f.headRev : Author(f, q) # o
               /\ W[Place(t, f)] + x2 + y = total
    <3>1. W[s.serverRev] + x + y = total /\ W[s.serverRev] \in Nat
      BY <1>2, <1>3, <2>1 DEF OwnerOK, Place
    <3>2. W[r] = W[s.serverRev] + x
      <4>1. r \in s.serverRev + 1..f.headRev
        <5>1. s.serverRev \in Nat /\ f.headRev \in Nat
          BY <1>2
        <5>2. r <= f.headRev
          BY <1>3
        <5>. QED
          BY <5>1, <5>2
      <4>2. Author(f, r) = o
        BY <1>3, <2>1
      <4> HIDE DEF r
      <4>. QED
        BY <1>2, <1>3, <2>1, <4>1, <4>2 DEF OwnerOK
    <3> HIDE DEF r
    <3>. QED
      <4>1. Place(t, f) = r /\ x2 = 0
        BY <1>3, <2>1 DEF Place
      <4>2. \A q \in t.serverRev + 1..f.headRev : Author(f, q) # o
        BY <1>3, <2>1 DEF NoneBy
      <4>3. W[s.serverRev] \in Nat /\ x \in Nat /\ y \in Nat
        BY <1>2, <3>1
      <4>4. W[Place(t, f)] = W[s.serverRev] + x
        BY <3>2, <4>1
      <4> HIDE DEF x2
      <4>5. W[Place(t, f)] + x2 + y = total
        BY <3>1, <4>1, <4>3, <4>4
      <4>. QED
        BY <4>2, <4>5
  <2>. QED
    BY <1>2, <1>3, <2>1 DEF OwnerOK
<1>8. ShowsKept(l, c, t, tag2, Mine(c, o, x2), Mine(c, o, y))
  <2> DEFINE n == Cardinality(Marked(tag, c, "Y"))
             b == Mine(c, o, y)
  <2>1. /\ Times(l, Half(s)) \in Nat /\ Times(l, Half(s)) + b <= Times(l, s.editor) + n
    BY <1>1, <1>2, KeptCounts DEF ShowsKept
  <2>2. Mine(c, o, x2) = 0
    BY DEF Mine
  <2>3. Marked(tag2, c, "Y") = Marked(tag, c, "Y") /\ Cardinality(Marked(tag2, c, "X")) = 0
    BY <1>4, FS_EmptySet
  <2> HIDE DEF n, b, l
  <2>4. Times(l, Half(s)) + 0 <= Times(l, Half(s)) + 0
    BY <2>1
  <2>. QED
    BY <1>3, <2>1, <2>2, <2>3, <2>4 DEF ShowsKept, n, b
<1>9. \A d, stage : d # c => Marked(tag2, d, stage) = Marked(tag, d, stage)
  BY <1>4
<1>10. x2 \in Nat /\ (c # o => x2 = x /\ y = y /\ total = total)
  BY <1>2
<1>11. /\ c \in Client /\ DOMAIN pg = Client /\ pg2 = [pg EXCEPT ![c] = t]
       /\ \A k : MarkedUpto(tag2, k) = MarkedUpto(tag, k)
  BY <1>2, <1>4
<1> HIDE DEF l, x2
<1>12. Recounted(o, c, t, pg, pg2, f, total, total, gone, tag, tag2, W, x, y, x2, y)
  BY <1>2, <1>6, <1>7, <1>8, <1>9, <1>10, <1>11 DEF Recounted, l
<1>. QED
  BY <1>1, <1>12, KeptPage DEF Kept

\* Another's revision is put under X and Y.
LEMMA KeptRebased ==
    ASSUME NEW o \in Client, NEW pg, NEW f, NEW total, NEW gone, Kept(o, pg, f, total, gone),
           NEW c, NEW s, NEW t, NEW pg2, Turns(c, s, t, pg, pg2, f), IsRebased(c, s, t, f)
    PROVE  Kept(o, pg2, f, total, gone)
<1>1. PICK tag, W, x, y : KeptBy(o, pg, f, total, gone, tag, W, x, y)
  BY DEF Kept
<1> DEFINE r == s.serverRev + 1
           l == Letter[o]
<1>2. /\ c \in Client /\ s = pg[c] /\ IsPage(c, s, f) /\ IsPage(c, t, f) /\ s.serverRev \in Nat
      /\ f.headRev \in Nat /\ W \in [Nat -> Nat] /\ x \in Nat /\ y \in Nat
      /\ OwnerOK(o, pg[o], f, W, x, y, total)
  BY <1>1 DEF Turns, KeptBy, IsPage
<1>3. /\ t.serverRev = r /\ r <= f.headRev /\ Author(f, r) # c /\ t.A # Null /\ s.A # Null
      /\ t.waitingForAck = s.waitingForAck
      /\ Times(l, t.baseText) + Times(l, Half(s)) <= Times(l, Half(t)) + Times(l, s.baseText)
      /\ Times(l, s.editor) + Times(l, Half(t)) <= Times(l, t.editor) + Times(l, Half(s))
  BY <1>2 DEF IsRebased, IsPage
<1>4. \A q \in s.serverRev + 1..t.serverRev : Author(f, q) # c
  <2>1. s.serverRev + 1..t.serverRev = {r}
    BY <1>2, <1>3
  <2>. QED
    BY <1>3, <2>1
<1>5. ASSUME c = o PROVE OwnerOK(o, t, f, W, x, y, total)
  <2>1. W[r] = W[s.serverRev]
    <3>1. s.serverRev \in 0..f.headRev /\ r \in 0..f.headRev /\ s.serverRev <= r
      BY <1>2, <1>3
    <3> HIDE DEF r
    <3>. QED
      BY <1>2, <1>3, <1>4, <1>5, <3>1 DEF OwnerOK
  <2>2. \A q \in r + 1..f.headRev : q \in s.serverRev + 1..f.headRev
    BY <1>2
  <2> HIDE DEF r
  <2>. QED
    BY <1>2, <1>3, <1>5, <2>1, <2>2 DEF OwnerOK, Place
<1>6. ShowsKept(l, c, t, tag, Mine(c, o, x), Mine(c, o, y))
  <2> DEFINE a == Mine(c, o, x)
             b == Mine(c, o, y)
             m == Cardinality(Marked(tag, c, "X"))
             n == Cardinality(Marked(tag, c, "Y"))
  <2>1. /\ a \in Nat /\ b \in Nat /\ m \in Nat /\ n \in Nat
        /\ Times(l, s.baseText) \in Nat /\ Times(l, Half(s)) \in Nat /\ Times(l, s.editor) \in Nat
        /\ Times(l, s.baseText) + a <= Times(l, Half(s)) + m
        /\ Times(l, Half(s)) + b <= Times(l, s.editor) + n
    BY <1>1, <1>2, KeptCounts DEF ShowsKept
  <2>2. Times(l, t.baseText) \in Nat /\ Times(l, Half(t)) \in Nat /\ Times(l, t.editor) \in Nat
    BY <1>2, TimesIs DEF IsPage
  <2> HIDE DEF a, b, m, n, l
  <2>3. Times(l, t.baseText) + a <= Times(l, Half(t)) + m
    BY <1>3, <2>1, <2>2
  <2>4. Times(l, Half(t)) + b <= Times(l, t.editor) + n
    BY <1>3, <2>1, <2>2
  <2>. QED
    BY <2>3, <2>4 DEF ShowsKept, a, b, m, n
<1> HIDE DEF l, r
<1>. QED
  BY <1>1, <1>3, <1>4, <1>5, <1>6, KeptQuiet DEF l

\* Whatever a page does that is not the user's doing.
LEMMA KeptHandled ==
    ASSUME NEW o \in Client, NEW pg, NEW f, NEW total, NEW gone, Kept(o, pg, f, total, gone),
           NEW c, NEW s, NEW t, NEW pg2, Turns(c, s, t, pg, pg2, f), IsHandled(c, s, t, f)
    PROVE  Kept(o, pg2, f, total, gone)
<1>1. CASE IsAlike(s, t)
  BY <1>1, KeptAlike
<1>2. CASE IsSubmitted(s, t)
  BY <1>2, KeptSubmitted
<1>3. CASE IsAcknowledged(c, s, t, f)
  BY <1>3, KeptAcknowledged
<1>4. CASE IsRebased(c, s, t, f)
  BY <1>4, KeptRebased
<1>5. CASE IsTakenOver(c, s, t, f) \/ IsLaidDown(s, t) \/ IsLeft(s, t)
  BY <1>5, KeptTakenOver
<1>. QED
  BY <1>1, <1>2, <1>3, <1>4, <1>5 DEF IsHandled

-------------------------------------------------------------------------------
(* A commit: X goes under the texts of the later revisions, one after the  *)
(* other, and makes the next one.                                          *)

\* The texts that X makes of the revisions from k to h; B is a revision's changeset.
Onward(g, f, k, h) ==
    \A j \in Nat : k <= j /\ j + 1 <= h =>
       \A l : /\ Times(l, ReplayTo(f, j + 1)) + Times(l, g[j]) <= Times(l, g[j + 1]) + Times(l, ReplayTo(f, j))
              /\ Times(l, g[j + 1]) <= Times(l, g[j]) + NewChars(f.revisionLog[j + 1].changeset)

\* The X of the page s of a is committed.
IsGained(a, s, f, f2) ==
    /\ s.active /\ s.waitingForAck /\ s.A # Null
    /\ s.serverRev \in Nat /\ s.serverRev <= f.headRev /\ NoneBy(f, a, s.serverRev)
    /\ f.headRev \in Nat /\ f2.headRev = f.headRev + 1
    /\ \A r \in 0..f.headRev : ReplayTo(f2, r) = ReplayTo(f, r) /\ ReplayTo(f, r) \in Text
    /\ \A r \in 1..f.headRev : f2.revisionLog[r] = f.revisionLog[r]
    /\ \A r \in 1..f.headRev : NewChars(f.revisionLog[r].changeset) \in Nat
    /\ Author(f2, f.headRev + 1) = a
    /\ NewChars(f2.revisionLog[f.headRev + 1].changeset) = NewChars(s.X)
    /\ ReplayTo(f2, f.headRev + 1) \in Text
    /\ \A l : Times(l, ReplayTo(f2, f.headRev + 1)) <= Times(l, ReplayTo(f, f.headRev)) + NewChars(s.X)
    /\ \E g : /\ g[s.serverRev] = Half(s) /\ g[f.headRev] = ReplayTo(f2, f.headRev + 1)
              /\ \A j \in s.serverRev..f.headRev : g[j] \in Text
              /\ Onward(g, f, s.serverRev, f.headRev)

\* How many characters a changeset inserts is a number.
LEMMA NewCharsIs ==
    ASSUME NEW text, NEW cs, Suits(text, cs)
    PROVE  NewChars(cs) \in Nat
<1>1. cs.ops \in Seq(Op)
  BY DEF Suits, Fits
<1>2. Inserted(cs.ops) \in Text
  BY <1>1, InsertedIs
<1>. QED
  BY <1>2, TextNil DEF NewChars

\* X put under one revision after another.
LEMMA XOnward ==
    ASSUME DocumentOK, NEW X, NEW k \in Nat, k <= fsm.headRev, Suits(TextAt(k), X)
    PROVE  LET cs(j) == CaughtUp(X, k, j)
               g == [j \in Nat |-> ApplyChangeset(TextAt(j), CaughtUp(X, k, j))]
           IN  /\ g[k] = ApplyChangeset(TextAt(k), X)
               /\ \A j \in k..fsm.headRev :
                     /\ g[j] = ApplyChangeset(TextAt(j), cs(j)) /\ g[j] \in Text
                     /\ Suits(TextAt(j), cs(j)) /\ Inserted(cs(j).ops) = Inserted(X.ops)
               /\ Onward(g, fsm, k, fsm.headRev)
<1> DEFINE cs(j) == CaughtUp(X, k, j)
           g == [j \in Nat |-> ApplyChangeset(TextAt(j), CaughtUp(X, k, j))]
           H == fsm.headRev
           B(j) == fsm.revisionLog[j + 1].changeset
           good(j) == Suits(TextAt(j), cs(j)) /\ Inserted(cs(j).ops) = Inserted(X.ops)
           T == {j \in Nat : k <= j /\ j <= H => good(j)}
<1>1. H \in Nat
  BY DEF DocumentOK, Sound
<1>2. cs(k) = X
  BY CaughtUpStart DEF CaughtUp
<1>3. \A j \in Nat : k <= j => cs(j + 1) = Follow(B(j), cs(j))
  BY CaughtUpNext DEF CaughtUp
<1>4. \A j \in Nat : j + 1 <= H => Suits(TextAt(j), B(j)) /\ TextAt(j + 1) = ApplyChangeset(TextAt(j), B(j))
  BY RevisionIs
<1>5. \A j \in Nat : g[j] = ApplyChangeset(TextAt(j), cs(j))
  OBVIOUS
<1> HIDE DEF cs, g, B, H
<1>6. 0 \in T
  <2>1. ASSUME k <= 0 PROVE good(0)
    <3>1. k = 0
      BY <2>1
    <3>. QED
      BY <1>2, <3>1
  <2>. QED
    BY <2>1
<1>7. ASSUME NEW j \in T PROVE j + 1 \in T
  <2>1. SUFFICES ASSUME k <= j + 1, j + 1 <= H PROVE good(j + 1)
    OBVIOUS
  <2>2. CASE k = j + 1
    BY <1>2, <2>2
  <2>3. CASE k # j + 1
    <3>1. k <= j /\ j <= H /\ j \in Nat
      BY <1>1, <2>1, <2>3
    <3>2. good(j)
      BY <3>1
    <3>3. Suits(TextAt(j), B(j)) /\ TextAt(j + 1) = ApplyChangeset(TextAt(j), B(j)) /\ cs(j + 1) = Follow(B(j), cs(j))
      BY <1>3, <1>4, <2>1, <3>1
    <3>4. /\ Suits(ApplyChangeset(TextAt(j), B(j)), Follow(B(j), cs(j)))
          /\ Inserted(Follow(B(j), cs(j)).ops) = Inserted(cs(j).ops)
      BY <3>2, <3>3, FollowSuits
    <3>. QED
      BY <3>2, <3>3, <3>4
  <2>. QED
    BY <2>2, <2>3
<1>8. ASSUME NEW j \in Nat, k <= j, j <= H PROVE good(j)
  <2> HIDE DEF good
  <2>1. T \subseteq Nat
    OBVIOUS
  <2> HIDE DEF T
  <2>2. j \in T
    BY <1>6, <1>7, <2>1, SetInduction
  <2>. QED
    BY <1>8, <2>2 DEF T
<1>9. ASSUME NEW j \in k..H
      PROVE  /\ g[j] = ApplyChangeset(TextAt(j), cs(j)) /\ g[j] \in Text
             /\ Suits(TextAt(j), cs(j)) /\ Inserted(cs(j).ops) = Inserted(X.ops)
  <2>1. j \in Nat /\ k <= j /\ j <= H
    BY <1>1
  <2>. QED
    BY <1>5, <1>8, <2>1, SuitsText
<1>10. ASSUME NEW j \in Nat, k <= j, j + 1 <= H, NEW l
       PROVE  /\ Times(l, TextAt(j + 1)) + Times(l, g[j]) <= Times(l, g[j + 1]) + Times(l, TextAt(j))
              /\ Times(l, g[j + 1]) <= Times(l, g[j]) + NewChars(B(j))
  <2> DEFINE text == TextAt(j)
             C == B(j)
             D == cs(j)
             next == cs(j + 1)
             i == j + 1
  <2>1. /\ Suits(text, C) /\ TextAt(i) = ApplyChangeset(text, C) /\ next = Follow(C, D)
        /\ Suits(text, D)
        /\ g[j] = ApplyChangeset(text, D) /\ g[i] = ApplyChangeset(TextAt(i), next)
    BY <1>1, <1>3, <1>4, <1>5, <1>8, <1>10
  <2> HIDE DEF text, C, D, next, i
  <2>2. /\ Times(l, ApplyChangeset(text, C)) + Times(l, ApplyChangeset(text, D))
             <= Times(l, ApplyChangeset(ApplyChangeset(text, C), Follow(C, D))) + Times(l, text)
    BY <2>1, FollowKeepsCount
  <2>3. /\ ApplyChangeset(ApplyChangeset(text, C), Follow(C, D)) = ApplyChangeset(g[j], Follow(D, C))
        /\ Suits(g[j], Follow(D, C)) /\ Inserted(Follow(D, C).ops) = Inserted(C.ops)
    BY <2>1, FollowSuits, Convergence
  <2>4. Times(l, ApplyChangeset(g[j], Follow(D, C))) <= Times(l, g[j]) + NewChars(C)
    <3>1. Times(l, Run(g[j], Follow(D, C).ops)) <= Times(l, g[j]) + Len(Inserted(Follow(D, C).ops))
      BY <2>3, TimesRun DEF Suits
    <3>. QED
      BY <2>3, <3>1, ApplyIsRun DEF NewChars
  <2>5. /\ Times(l, TextAt(i)) + Times(l, g[j]) <= Times(l, g[i]) + Times(l, text)
        /\ Times(l, g[i]) <= Times(l, g[j]) + NewChars(C)
    BY <2>1, <2>2, <2>3, <2>4
  <2>. QED
    BY <2>5 DEF i, C, text
<1>11. Onward(g, fsm, k, H)
  BY <1>10 DEF Onward, TextAt, B
<1>12. g[k] = ApplyChangeset(TextAt(k), X)
  BY <1>2, <1>5
<1>. QED
  BY <1>9, <1>11, <1>12 DEF g, cs, H

\* A commit is that of an X.
LEMMA CommitChanges ==
    ASSUME IInv, NEW e \in proposed, Commit(e)
    PROVE  /\ page' = page /\ UserSame
           /\ \E a \in Client : IsGained(a, page[a], fsm, fsm')
<1> DEFINE a == e.client
           s == page[a]
           k == s.serverRev
           H == fsm.headRev
           cs == CaughtUp(s.X, k, H)
           text == TextAt(H)
           new == ApplyChangeset(text, cs)
           n == H + 1
<1>1. page' = page /\ UserSame
  BY DEF Commit, userVars, UserSame
<1>2. /\ a \in Client /\ s.waitingForAck /\ s.active
      /\ Proposed(a, s, up[a], Proposals(a)) /\ k \in Nat /\ k <= H
      /\ fsm' = Accept(fsm, e, cs)
      /\ Sound(fsm') /\ \A r \in 0..H : TextAt(r)' = TextAt(r)
  BY CommitGrows
<1>3. DocumentOK /\ H \in Nat /\ fsm.headText = text /\ IsPage(a, s, fsm)
  BY <1>2, PagesAre DEF IInv, DocumentOK, Sound, TextAt
<1>4. /\ s.A # Null /\ s.baseText = TextAt(k) /\ Suits(TextAt(k), s.X) /\ Half(s) = ApplyChangeset(TextAt(k), s.X)
      /\ NewChars(s.X) \in Nat
  BY <1>2, <1>3 DEF IsPage, TextAt
<1>5. NoneBy(fsm, a, k)
  BY <1>2 DEF Proposed, NoneOwn, NoneBy, Author
<1>6. Grown(a, cs)
  <2> HIDE DEF cs
  <2>. QED
    BY <1>2, <1>3, AcceptGrows
<1>7. /\ fsm'.headRev = n /\ \A r \in 1..H : fsm'.revisionLog[r] = fsm.revisionLog[r]
      /\ fsm'.revisionLog[n].source = a /\ fsm'.revisionLog[n].changeset = cs
  <2> HIDE DEF cs
  <2>. QED
    BY <1>6 DEF Grown
<1>8. ReplayTo(fsm', n) = new
  <2>1. ReplayTo(fsm', n) = fsm'.headText
    BY <1>2, <1>7 DEF Sound
  <2>2. fsm'.headText = ApplyChangeset(fsm.headText, cs)
    <3> HIDE DEF cs
    <3>. QED
      BY <1>2 DEF Accept
  <2>. QED
    BY <1>3, <2>1, <2>2
<1>9. \E g : /\ g[k] = Half(s) /\ g[H] = new
             /\ \A j \in k..H : g[j] \in Text
             /\ Onward(g, fsm, k, H)
  <2> DEFINE g == [j \in Nat |-> ApplyChangeset(TextAt(j), CaughtUp(s.X, k, j))]
  <2>1. /\ g[k] = ApplyChangeset(TextAt(k), s.X)
        /\ \A j \in k..H : g[j] = ApplyChangeset(TextAt(j), CaughtUp(s.X, k, j)) /\ g[j] \in Text
        /\ Onward(g, fsm, k, H)
    BY <1>2, <1>3, <1>4, XOnward
  <2> HIDE DEF g
  <2>2. H \in k..H
    BY <1>2, <1>3
  <2>3. g[H] = new
    BY <2>1, <2>2
  <2>. QED
    BY <1>4, <2>1, <2>3
<1>10. Suits(text, cs) /\ Inserted(cs.ops) = Inserted(s.X.ops)
  <2>1. \A j \in k..H : Suits(TextAt(j), CaughtUp(s.X, k, j)) /\ Inserted(CaughtUp(s.X, k, j).ops) = Inserted(s.X.ops)
    BY <1>2, <1>3, <1>4, XOnward
  <2>2. H \in k..H
    BY <1>2, <1>3
  <2>. QED
    BY <2>1, <2>2
<1> HIDE DEF cs, text
<1>11. new \in Text /\ NewChars(cs) = NewChars(s.X)
  BY <1>10, SuitsText DEF NewChars
<1>12. ASSUME NEW l PROVE Times(l, new) <= Times(l, text) + NewChars(s.X)
  <2>1. Times(l, Run(text, cs.ops)) <= Times(l, text) + Len(Inserted(cs.ops))
    BY <1>10, TimesRun DEF Suits
  <2>. QED
    BY <1>10, <2>1, ApplyIsRun DEF NewChars
<1>13. \A r \in 0..H : ReplayTo(fsm', r) = ReplayTo(fsm, r) /\ ReplayTo(fsm, r) \in Text
  <2>1. \A r \in 0..H : TextAt(r) \in Text
    <3>1. \A r \in 0..H : TextAt(r) \in Seq(Char)
      BY <1>3, TextChar
    <3>. QED
      BY <3>1, CharIs
  <2>. QED
    BY <1>2, <2>1 DEF TextAt
<1>14. ASSUME NEW r \in 1..H PROVE NewChars(fsm.revisionLog[r].changeset) \in Nat
  <2>1. Suits(ReplayTo(fsm, r - 1), fsm.revisionLog[r].changeset)
    BY <1>3 DEF DocumentOK, Sound
  <2>. QED
    BY <2>1, NewCharsIs
<1> HIDE DEF new, n
<1>15. /\ Author(fsm', n) = a
       /\ NewChars(fsm'.revisionLog[n].changeset) = NewChars(s.X)
       /\ ReplayTo(fsm', n) \in Text
       /\ \A l : Times(l, ReplayTo(fsm', n)) <= Times(l, ReplayTo(fsm, H)) + NewChars(s.X)
       /\ fsm'.headRev = n /\ \A r \in 1..H : fsm'.revisionLog[r] = fsm.revisionLog[r]
  BY <1>7, <1>8, <1>11, <1>12 DEF Author, text, TextAt
<1>16. \E g : /\ g[k] = Half(s) /\ g[H] = ReplayTo(fsm', n)
              /\ \A j \in k..H : g[j] \in Text
              /\ Onward(g, fsm, k, H)
  BY <1>8, <1>9
<1>17. IsGained(a, s, fsm, fsm')
  BY <1>2, <1>3, <1>4, <1>5, <1>13, <1>14, <1>15, <1>16 DEF IsGained, n
<1>. QED
  BY <1>1, <1>2, <1>17

\* On the way no character of X is lost, and none comes but from the revisions.
LEMMA OnwardKeeps ==
    ASSUME NEW f, NEW g, NEW k \in Nat, NEW h \in Nat, k <= h, Onward(g, f, k, h),
           \A j \in k..h : g[j] \in Text /\ ReplayTo(f, j) \in Text
    PROVE  \A l : Times(l, g[k]) + Times(l, ReplayTo(f, h)) <= Times(l, g[h]) + Times(l, ReplayTo(f, k))
<1> SUFFICES ASSUME NEW l
             PROVE  Times(l, g[k]) + Times(l, ReplayTo(f, h)) <= Times(l, g[h]) + Times(l, ReplayTo(f, k))
  OBVIOUS
<1> DEFINE gs(j) == Times(l, g[j])
           ts(j) == Times(l, ReplayTo(f, j))
           keeps(j) == gs(k) + ts(j) <= gs(j) + ts(k)
           T == {j \in Nat : k <= j /\ j <= h => keeps(j)}
<1>1. ASSUME NEW j \in Nat, k <= j, j <= h PROVE gs(j) \in Nat /\ ts(j) \in Nat
  <2>1. j \in k..h
    BY <1>1
  <2>. QED
    BY <2>1, TimesIs
<1>2. ASSUME NEW j \in Nat, k <= j, j + 1 <= h PROVE ts(j + 1) + gs(j) <= gs(j + 1) + ts(j)
  BY <1>2 DEF Onward
<1> HIDE DEF gs, ts
<1>3. gs(k) \in Nat /\ ts(k) \in Nat
  BY <1>1
<1>4. 0 \in T
  <2>1. ASSUME k <= 0 PROVE keeps(0)
    <3>1. k = 0
      BY <2>1
    <3>. QED
      BY <1>3, <3>1
  <2>. QED
    BY <2>1
<1>5. ASSUME NEW j \in T PROVE j + 1 \in T
  <2>1. SUFFICES ASSUME k <= j + 1, j + 1 <= h PROVE keeps(j + 1)
    OBVIOUS
  <2>2. CASE k = j + 1
    <3>1. keeps(k)
      BY <1>3
    <3>. QED
      BY <2>2, <3>1
  <2>3. CASE k # j + 1
    <3> DEFINE i == j + 1
    <3>1. k <= j /\ j <= h /\ j \in Nat /\ i \in Nat /\ k <= i
      BY <2>1, <2>3
    <3>2. gs(j) \in Nat /\ ts(j) \in Nat /\ gs(i) \in Nat /\ ts(i) \in Nat
      BY <1>1, <2>1, <3>1
    <3>3. ts(i) + gs(j) <= gs(i) + ts(j) /\ gs(k) + ts(j) <= gs(j) + ts(k)
      BY <1>2, <2>1, <3>1
    <3> HIDE DEF i
    <3>. QED
      BY <1>3, <3>2, <3>3 DEF i
  <2>. QED
    BY <2>2, <2>3
<1>6. keeps(h)
  <2> HIDE DEF keeps
  <2>1. T \subseteq Nat
    OBVIOUS
  <2> HIDE DEF T
  <2>2. h \in T
    BY <1>4, <1>5, <2>1, SetInduction
  <2>. QED
    BY <2>2 DEF T
<1>. QED
  BY <1>6 DEF gs, ts

\* What the marks of a are when his X is committed: those in X are in revision k as well.
Dated(tag, n, a, k) ==
    [i \in 1..n |-> IF tag[i].who = a /\ tag[i].stage = "X" THEN [tag[i] EXCEPT !.at = k] ELSE tag[i]]

DatedWith(a, n, tag, tag2, pg, f, f2) ==
    /\ a \in Client /\ \A d \in Client : pg[d].serverRev \in Nat
    /\ MarksOK(tag, n, pg, f) /\ IsGained(a, pg[a], f, f2)
    /\ tag2 = Dated(tag, n, a, f.headRev + 1)

LEMMA MarksGained ==
    ASSUME NEW n, NEW tag, NEW tag2, NEW pg, NEW f, NEW f2, NEW a,
           DatedWith(a, n, tag, tag2, pg, f, f2)
    PROVE  /\ MarksOK(tag2, n, pg, f2)
           /\ \A d, stage : Marked(tag2, d, stage) = Marked(tag, d, stage)
           /\ \A k \in 0..f.headRev : MarkedUpto(tag2, k) = MarkedUpto(tag, k)
           /\ Cardinality(MarkedUpto(tag2, f.headRev + 1))
                 = Cardinality(MarkedUpto(tag, f.headRev)) + Cardinality(Marked(tag, a, "X"))
<1> DEFINE h == f.headRev
           m == h + 1
           mine(i) == tag[i].who = a /\ tag[i].stage = "X"
           s == pg[a]
<1>0. /\ a \in Client /\ \A d \in Client : pg[d].serverRev \in Nat
      /\ MarksOK(tag, n, pg, f) /\ IsGained(a, s, f, f2)
      /\ tag2 = Dated(tag, n, a, m)
  BY DEF DatedWith
<1>1. /\ n \in Nat /\ tag \in [1..n -> Mark] /\ DOMAIN tag = 1..n /\ DOMAIN tag2 = 1..n
      /\ h \in Nat /\ m \in Nat /\ f2.headRev = m
  BY <1>0 DEF MarksOK, IsGained, Dated
<1>2. ASSUME NEW i \in 1..n
      PROVE  /\ tag[i].who \in Client /\ tag[i].at \in Nat /\ tag[i].at <= h
             /\ tag2[i] \in Mark /\ tag2[i].who = tag[i].who /\ tag2[i].stage = tag[i].stage
             /\ tag2[i].at = IF mine(i) THEN m ELSE tag[i].at
  <2>1. tag[i] \in Mark /\ tag[i].at <= h
    BY <1>0, <1>1 DEF MarksOK
  <2>2. tag2[i] = IF mine(i) THEN [tag[i] EXCEPT !.at = m] ELSE tag[i]
    BY <1>0 DEF Dated
  <2>. QED
    BY <1>1, <2>1, <2>2 DEF Mark
<1>3. tag2 \in [1..n -> Mark]
  <2>1. \A i \in 1..n : tag2[i] \in Mark
    BY <1>2
  <2>2. tag2 = [i \in 1..n |-> tag2[i]]
    BY <1>0 DEF Dated
  <2>. QED
    BY <2>1, <2>2
<1>4. ASSUME NEW i \in 1..n, mine(i) PROVE tag[i].at = 0
  <2>1. NoneBy(f, a, s.serverRev) /\ s.serverRev \in Nat
    BY <1>0 DEF IsGained
  <2>2. tag[i].at = 0 \/ (tag[i].at > s.serverRev /\ Author(f, tag[i].at) = a)
    BY <1>0, <1>4 DEF MarksOK
  <2>3. ASSUME tag[i].at > s.serverRev, Author(f, tag[i].at) = a PROVE FALSE
    <3>1. tag[i].at \in s.serverRev + 1..h
      <4> DEFINE q == tag[i].at
                 k == s.serverRev
      <4>1. q \in Nat /\ q <= h /\ h \in Nat /\ k \in Nat /\ q > k
        BY <1>1, <1>2, <2>1, <2>3
      <4> HIDE DEF q, k, h
      <4>2. q \in k + 1..h
        BY <4>1
      <4>. QED
        BY <4>2 DEF q, k
    <3>. QED
      BY <2>1, <2>3, <3>1 DEF NoneBy
  <2>. QED
    BY <2>2, <2>3
<1>5. MarksOK(tag2, n, pg, f2)
  <2>1. ASSUME NEW i \in 1..n
        PROVE  /\ tag2[i].at <= f2.headRev
               /\ tag2[i].stage = "Y" => tag2[i].at = 0
               /\ tag2[i].stage = "X" =>
                     /\ pg[tag2[i].who].waitingForAck
                     /\ \/ tag2[i].at = 0
                        \/ /\ tag2[i].at > pg[tag2[i].who].serverRev
                           /\ Author(f2, tag2[i].at) = tag2[i].who
    <3>1. CASE mine(i)
      <4>1. s.waitingForAck /\ s.serverRev <= h /\ Author(f2, m) = a /\ s.serverRev \in Nat
        BY <1>0 DEF IsGained
      <4>2. m > s.serverRev
        BY <1>1, <4>1
      <4> HIDE DEF m
      <4>. QED
        BY <1>1, <1>2, <3>1, <4>1, <4>2
    <3>2. CASE ~mine(i)
      <4> DEFINE q == tag[i].at
                 d == tag[i].who
      <4>1. tag2[i].at = q /\ tag2[i].who = d /\ tag2[i].stage = tag[i].stage /\ d \in Client /\ q \in Nat /\ q <= h
        BY <1>2, <3>2
      <4>2. /\ tag[i].stage = "Y" => q = 0
            /\ tag[i].stage = "X" => /\ pg[d].waitingForAck
                                     /\ q = 0 \/ (q > pg[d].serverRev /\ Author(f, q) = d)
        BY <1>0 DEF MarksOK
      <4>3. pg[d].serverRev \in Nat
        BY <1>0, <4>1
      <4> HIDE DEF q, d
      <4>4. q > pg[d].serverRev => Author(f2, q) = Author(f, q)
        <5>1. q > pg[d].serverRev => q \in 1..h
          BY <1>1, <4>1, <4>3
        <5>. QED
          BY <1>0, <5>1 DEF IsGained, Author
      <4>5. q <= f2.headRev
        BY <1>1, <4>1
      <4>. QED
        BY <4>1, <4>2, <4>4, <4>5
    <3>. QED
      BY <3>1, <3>2
  <2>. QED
    BY <1>1, <1>3, <2>1 DEF MarksOK
<1>6. ASSUME NEW d, NEW stage PROVE Marked(tag2, d, stage) = Marked(tag, d, stage)
  BY <1>1, <1>2 DEF Marked
<1>7. ASSUME NEW k \in 0..h PROVE MarkedUpto(tag2, k) = MarkedUpto(tag, k)
  <2>1. m \notin 1..k /\ 0 \notin 1..k
    BY <1>1
  <2> HIDE DEF m
  <2>2. \A i \in 1..n : tag2[i].at \in 1..k <=> tag[i].at \in 1..k
    BY <1>2, <1>4, <2>1
  <2>. QED
    BY <1>1, <2>2 DEF MarkedUpto
<1>8. Cardinality(MarkedUpto(tag2, m)) = Cardinality(MarkedUpto(tag, h)) + Cardinality(Marked(tag, a, "X"))
  <2> DEFINE P == MarkedUpto(tag, h)
             Q == Marked(tag, a, "X")
  <2>1. ASSUME NEW i \in 1..n PROVE tag2[i].at \in 1..m <=> tag[i].at \in 1..h \/ mine(i)
    <3>1. CASE mine(i)
      BY <1>1, <1>2, <3>1
    <3>2. CASE ~mine(i)
      <4> DEFINE q == tag[i].at
      <4>1. q \in Nat /\ q <= h /\ tag2[i].at = q
        BY <1>2, <3>2
      <4> HIDE DEF q, h, mine
      <4>2. q \in 1..m <=> q \in 1..h
        BY <1>1, <4>1
      <4>. QED
        BY <3>2, <4>1, <4>2 DEF q
    <3>. QED
      BY <3>1, <3>2
  <2>2. MarkedUpto(tag2, m) = P \cup Q
    <3> HIDE DEF m
    <3>. QED
      BY <1>1, <2>1 DEF MarkedUpto, Marked
  <2>3. P \cap Q = {}
    <3>1. \A i \in 1..n : mine(i) => tag[i].at \notin 1..h
      BY <1>4
    <3>. QED
      BY <1>1, <3>1 DEF MarkedUpto, Marked
  <2>4. IsFiniteSet(P) /\ IsFiniteSet(Q)
    BY <1>1, MarkedFinite
  <2>5. Cardinality(P) \in Nat /\ Cardinality(Q) \in Nat
    BY <1>1, MarkedFinite
  <2> HIDE DEF P, Q
  <2>6. Cardinality(P \cup Q) = Cardinality(P) + Cardinality(Q) - Cardinality(P \cap Q)
    BY <2>4, FS_Union
  <2>7. Cardinality(P \cap Q) = 0
    BY <2>3, FS_EmptySet
  <2>8. Cardinality(P \cup Q) = Cardinality(P) + Cardinality(Q)
    BY <2>5, <2>6, <2>7
  <2>. QED
    BY <2>2, <2>8 DEF P, Q
<1>. QED
  BY <1>5, <1>6, <1>7, <1>8

\* The document grows by the X of a page.
LEMMA KeptGained ==
    ASSUME NEW o \in Client, NEW pg, NEW f, NEW f2, NEW total, NEW gone, Kept(o, pg, f, total, gone),
           \A d \in Client : IsPage(d, pg[d], f),
           NEW a \in Client, IsGained(a, pg[a], f, f2)
    PROVE  Kept(o, pg, f2, total, gone)
<1>1. PICK tag, W, x, y : KeptBy(o, pg, f, total, gone, tag, W, x, y)
  BY DEF Kept
<1> DEFINE h == f.headRev
           m == f.headRev + 1
           s == pg[o]
           p == pg[a]
           k == pg[a].serverRev
           l == Letter[o]
           z == Mine(a, o, x)
           W2 == [W EXCEPT ![m] = W[h] + z]
           tag2 == Dated(tag, gone, a, f.headRev + 1)
           new == ReplayTo(f2, m)
<1>2. h \in Nat /\ m \in Nat /\ m = h + 1 /\ h = f.headRev
  BY <1>1 DEF KeptBy
<1>3. /\ W \in [Nat -> Nat] /\ x \in Nat /\ y \in Nat /\ MarksOK(tag, gone, pg, f)
      /\ OwnerOK(o, s, f, W, x, y, total)
      /\ TextsKeep(l, f, W, tag)
      /\ \A d \in Client : ShowsKept(l, d, pg[d], tag, Mine(d, o, x), Mine(d, o, y))
  BY <1>1 DEF KeptBy
<1>4. gone \in Nat /\ tag \in [1..gone -> Mark]
  BY <1>3 DEF MarksOK
<1>5. /\ p.A # Null /\ p.active /\ k \in Nat /\ k <= h /\ NoneBy(f, a, k)
      /\ f2.headRev = m /\ Author(f2, m) = a
      /\ \A r \in 0..h : ReplayTo(f2, r) = ReplayTo(f, r) /\ ReplayTo(f, r) \in Text
      /\ \A r \in 1..h : Author(f2, r) = Author(f, r)
      /\ new \in Text
  BY <1>2 DEF IsGained, Author
<1>6. /\ MarksOK(tag2, gone, pg, f2)
      /\ \A d, stage : Marked(tag2, d, stage) = Marked(tag, d, stage)
      /\ \A r \in 0..h : MarkedUpto(tag2, r) = MarkedUpto(tag, r)
      /\ Cardinality(MarkedUpto(tag2, m)) = Cardinality(MarkedUpto(tag, h)) + Cardinality(Marked(tag, a, "X"))
  <2>1. \A d \in Client : pg[d].serverRev \in Nat
    BY DEF IsPage
  <2>2. DatedWith(a, gone, tag, tag2, pg, f, f2)
    BY <1>3, <2>1 DEF DatedWith
  <2> HIDE DEF tag2
  <2>. QED
    BY <2>2, MarksGained
<1>7. Times(l, Half(p)) + Times(l, ReplayTo(f, h)) <= Times(l, new) + Times(l, ReplayTo(f, k))
  <2>1. PICK g : /\ g[k] = Half(p) /\ g[h] = new
                 /\ \A j \in k..h : g[j] \in Text
                 /\ Onward(g, f, k, h)
    BY DEF IsGained
  <2>2. \A j \in k..h : ReplayTo(f, j) \in Text
    <3>1. \A j \in k..h : j \in 0..h
      BY <1>2, <1>5
    <3>. QED
      BY <1>5, <3>1
  <2> HIDE DEF h, k, l, new, p
  <2>3. Times(l, g[k]) + Times(l, ReplayTo(f, h)) <= Times(l, g[h]) + Times(l, ReplayTo(f, k))
    BY <1>2, <1>5, <2>1, <2>2, OnwardKeeps
  <2>. QED
    BY <2>1, <2>3
<1> HIDE DEF tag2, h, m
<1>8. z \in Nat /\ W[h] \in Nat
  BY <1>2, <1>3 DEF Mine
<1>9. W2 \in [Nat -> Nat] /\ W2[m] = W[h] + z /\ \A r \in 0..h : W2[r] = W[r] /\ r # m
  BY <1>2, <1>3, <1>8
<1> HIDE DEF W2
<1>10. TextsKeep(l, f2, W2, tag2)
  <2>1. W[h] <= Times(l, ReplayTo(f, h)) + Cardinality(MarkedUpto(tag, h))
    <3>1. h \in 0..h
      BY <1>2, <1>3
    <3>. QED
      BY <1>2, <1>3, <3>1 DEF TextsKeep
  <2>2. /\ p.baseText = ReplayTo(f, k) /\ IsPage(a, p, f)
        /\ Times(l, p.baseText) + z <= Times(l, Half(p)) + Cardinality(Marked(tag, a, "X"))
    BY <1>2, <1>3, <1>5 DEF IsPage, ShowsKept
  <2>3. /\ Times(l, ReplayTo(f, h)) \in Nat /\ Times(l, Half(p)) \in Nat /\ Times(l, new) \in Nat
        /\ Times(l, ReplayTo(f, k)) \in Nat
        /\ Cardinality(MarkedUpto(tag, h)) \in Nat /\ Cardinality(Marked(tag, a, "X")) \in Nat
    <3>1. h \in 0..h /\ k \in 0..h /\ Half(p) \in Text
      BY <1>2, <1>3, <1>5, <2>2 DEF IsPage
    <3> HIDE DEF new, p, l
    <3>. QED
      BY <1>2, <1>3, <1>5, <3>1, <1>4, TimesIs, MarkedFinite
  <2>4. W2[m] <= Times(l, new) + Cardinality(MarkedUpto(tag2, m))
    <3> DEFINE u == Times(l, ReplayTo(f, h))
               v == Times(l, Half(p))
               w == Times(l, new)
               b == Times(l, ReplayTo(f, k))
               i == Cardinality(MarkedUpto(tag, h))
               j == Cardinality(Marked(tag, a, "X"))
               c == W[h]
    <3>1. /\ u \in Nat /\ v \in Nat /\ w \in Nat /\ b \in Nat /\ i \in Nat /\ j \in Nat /\ c \in Nat /\ z \in Nat
          /\ c <= u + i /\ b + z <= v + j /\ v + u <= w + b
      BY <1>2, <1>8, <1>7, <2>1, <2>2, <2>3
    <3>2. W2[m] = c + z /\ Cardinality(MarkedUpto(tag2, m)) = i + j
      BY <1>6, <1>9
    <3> HIDE DEF u, v, w, b, i, j, c, z
    <3>3. c + z <= w + (i + j)
      BY <3>1
    <3>. QED
      BY <3>2, <3>3 DEF w
  <2>5. ASSUME NEW r \in 0..f2.headRev PROVE W2[r] <= Times(l, ReplayTo(f2, r)) + Cardinality(MarkedUpto(tag2, r))
    <3>1. CASE r = m
      BY <2>4, <3>1
    <3>2. CASE r # m
      <4>1. r \in 0..h
        BY <1>2, <1>3, <1>5, <3>2
      <4>. QED
        BY <1>2, <1>3, <1>5, <1>6, <1>9, <4>1 DEF TextsKeep
    <3>. QED
      BY <3>1, <3>2
  <2>. QED
    BY <2>5 DEF TextsKeep
<1>11. \A d \in Client : ShowsKept(l, d, pg[d], tag2, Mine(d, o, x), Mine(d, o, y))
  BY <1>2, <1>3, <1>6 DEF ShowsKept
<1>12. OwnerOK(o, s, f2, W2, x, y, total)
  <2>0. IsPage(o, s, f) /\ s.serverRev \in Nat /\ (s.A # Null => s.serverRev <= h)
    BY <1>2 DEF IsPage
  <2>1. ASSUME a # o PROVE W2[m] = W[h]
    BY <1>2, <1>3, <1>8, <1>9, <2>1 DEF Mine
  <2>2. ASSUME NEW i \in 0..m, NEW j \in 0..m, i <= j, \A q \in i + 1..j : Author(f2, q) # o
        PROVE  W2[i] = W2[j]
    <3>1. CASE i = j
      BY <3>1
    <3>2. CASE i # j /\ j # m
      <4>1. i \in 0..h /\ j \in 0..h
        BY <1>2, <1>3, <2>2, <3>2
      <4>2. \A q \in i + 1..j : Author(f, q) # o
        <5>1. \A q \in i + 1..j : q \in 1..h
          BY <1>2, <1>3, <4>1
        <5>. QED
          BY <1>5, <2>2, <5>1
      <4>. QED
        BY <1>2, <1>3, <1>9, <2>2, <4>1, <4>2 DEF OwnerOK
    <3>3. CASE i # j /\ j = m
      <4>1. i \in 0..h /\ h \in 0..h /\ i <= h /\ m \in i + 1..m
        BY <1>2, <1>3, <2>2, <3>3
      <4>2. a # o
        BY <1>5, <2>2, <3>3, <4>1
      <4>3. \A q \in i + 1..h : Author(f, q) # o
        <5>1. \A q \in i + 1..h : q \in 1..h /\ q \in i + 1..m
          BY <1>2, <1>3, <4>1
        <5>. QED
          BY <1>5, <2>2, <3>3, <5>1
      <4>4. W[i] = W[h]
        BY <1>2, <1>3, <4>1, <4>3 DEF OwnerOK
      <4>. QED
        BY <1>9, <2>1, <3>3, <4>1, <4>2, <4>4
    <3>. QED
      BY <3>1, <3>2, <3>3
  <2>3. ASSUME s.A # Null, NEW q \in s.serverRev + 1..m, Author(f2, q) = o
        PROVE  W2[q] = W2[s.serverRev] + x
    <3>1. s.serverRev \in 0..h /\ W2[s.serverRev] = W[s.serverRev]
      BY <1>2, <1>3, <1>9, <2>0, <2>3
    <3>2. CASE q # m
      <4>1. q \in 1..h /\ q \in s.serverRev + 1..h
        BY <1>2, <1>3, <2>0, <3>2
      <4>2. Author(f, q) = o
        BY <1>5, <2>3, <4>1
      <4>3. q \in 0..h
        BY <4>1
      <4>. QED
        BY <1>2, <1>3, <1>9, <2>3, <3>1, <4>1, <4>2, <4>3 DEF OwnerOK
    <3>3. CASE q = m
      <4>1. a = o
        BY <1>5, <2>3, <3>3
      <4>2. W[k] = W[h]
        BY <1>2, <1>3, <1>5, <4>1, OwnerLevel
      <4>3. z = x /\ W2[m] = W[h] + z
        BY <1>9, <4>1 DEF Mine
      <4>. QED
        BY <3>1, <3>3, <4>1, <4>2, <4>3
    <3>. QED
      BY <3>2, <3>3
  <2>4. W2[Place(s, f2)] + x + y = total
    <3>1. W[Place(s, f)] + x + y = total
      BY <1>2, <1>3 DEF OwnerOK
    <3>2. W2[Place(s, f2)] = W[Place(s, f)]
      <4>1. CASE s.A = Null
        BY <1>2, <1>5, <2>1, <4>1 DEF Place
      <4>2. CASE s.A # Null
        <5>1. s.serverRev \in 0..h
          BY <1>2, <1>3, <2>0, <4>2
        <5>. QED
          BY <1>2, <1>9, <4>2, <5>1 DEF Place
      <4>. QED
        BY <4>1, <4>2
    <3>. QED
      BY <3>1, <3>2
  <2>5. ~s.waitingForAck => x = 0
    BY <1>2, <1>3 DEF OwnerOK
  <2> HIDE DEF s
  <2>. QED
    BY <1>2, <1>5, <2>2, <2>3, <2>4, <2>5 DEF OwnerOK
<1>13. f2.headRev \in Nat
  BY <1>2, <1>3, <1>5
<1>14. KeptBy(o, pg, f2, total, gone, tag2, W2, x, y)
  BY <1>2, <1>3, <1>6, <1>9, <1>10, <1>11, <1>12, <1>13 DEF KeptBy
<1>. QED
  BY <1>14 DEF Kept

-------------------------------------------------------------------------------
(* What a user types stays.                                                *)

PInv == \A c \in Client : IsPage(c, page[c], fsm)
KInv == \A o \in Client : Kept(o, page, fsm, typed[o], erased)

\* Nothing is typed and nothing erased.
LEMMA KeptInit ==
    ASSUME Init, DocumentOK, PInv
    PROVE  KInv
<1> SUFFICES ASSUME NEW o \in Client PROVE Kept(o, page, fsm, typed[o], erased)
  BY DEF KInv
<1> DEFINE tag == [i \in 1..0 |-> [who |-> o, stage |-> "Y", at |-> 0]]
           W == [k \in Nat |-> 0]
           l == Letter[o]
<1>1. fsm.headRev = 0 /\ typed[o] = 0 /\ erased = 0
      /\ \A c \in Client : ~page[c].active /\ page[c].serverRev = 0
  BY DEF Init, NewDocumentStateMachine, NewPage
<1>2. W \in [Nat -> Nat] /\ \A k \in Nat : W[k] = 0
  OBVIOUS
<1>3. tag \in [1..0 -> Mark] /\ 1..0 = {}
  OBVIOUS
<1> HIDE DEF tag, W
<1>4. MarksOK(tag, 0, page, fsm)
  BY <1>3 DEF MarksOK
<1>5. OwnerOK(o, page[o], fsm, W, 0, 0, 0)
  <2>1. page[o].serverRev + 1..fsm.headRev = {} /\ Place(page[o], fsm) = 0
    BY <1>1 DEF Place
  <2>2. \A i, j \in 0..fsm.headRev : W[i] = W[j]
    BY <1>1, <1>2
  <2>. QED
    BY <1>2, <2>1, <2>2 DEF OwnerOK
<1>6. TextsKeep(l, fsm, W, tag)
  <2>1. ASSUME NEW k \in 0..fsm.headRev
        PROVE  W[k] <= Times(l, ReplayTo(fsm, k)) + Cardinality(MarkedUpto(tag, k))
    <3>1. ReplayTo(fsm, k) \in Text
      BY TextChar, CharIs DEF TextAt
    <3>2. Times(l, ReplayTo(fsm, k)) \in Nat /\ Cardinality(MarkedUpto(tag, k)) \in Nat
      BY <1>3, <3>1, TimesIs, MarkedFinite
    <3>3. W[k] = 0
      BY <1>1, <1>2
    <3>. QED
      BY <3>2, <3>3
  <2>. QED
    BY <2>1 DEF TextsKeep
<1>7. ASSUME NEW d \in Client PROVE ShowsKept(l, d, page[d], tag, Mine(d, o, 0), Mine(d, o, 0))
  <2>1. Half(page[d]) = page[d].baseText /\ page[d].editor = page[d].baseText /\ page[d].baseText \in Text
    BY <1>1 DEF PInv, IsPage, Half
  <2>2. /\ Times(l, page[d].baseText) \in Nat
        /\ Cardinality(Marked(tag, d, "X")) \in Nat /\ Cardinality(Marked(tag, d, "Y")) \in Nat
    BY <1>3, <2>1, TimesIs, MarkedFinite
  <2>. QED
    BY <2>1, <2>2 DEF ShowsKept, Mine
<1>8. KeptBy(o, page, fsm, 0, 0, tag, W, 0, 0)
  BY <1>1, <1>2, <1>4, <1>5, <1>6, <1>7 DEF KeptBy
<1>. QED
  BY <1>1, <1>8 DEF Kept

LEMMA KeptStep ==
    ASSUME IInv, LInv, PInv, PInv', KInv, Races = {}, [Next]_vars
    PROVE  KInv'
<1> SUFFICES ASSUME NEW o \in Client PROVE Kept(o, page', fsm', typed'[o], erased')
  BY DEF KInv
<1>1. Kept(o, page, fsm, typed[o], erased) /\ DOMAIN page = Client /\ DOMAIN typed = Client
  BY DEF KInv, IInv, ServersOK
<1>2. CASE page' = page /\ fsm' = fsm /\ UserSame
  BY <1>1, <1>2 DEF UserSame
<1>3. ASSUME NEW e \in proposed, Commit(e) PROVE Kept(o, page', fsm', typed'[o], erased')
  <2>1. page' = page /\ UserSame
    BY <1>3, CommitChanges
  <2>2. PICK a \in Client : IsGained(a, page[a], fsm, fsm')
    BY <1>3, CommitChanges
  <2>3. \A d \in Client : IsPage(d, page[d], fsm)
    BY DEF PInv
  <2>4. Kept(o, page, fsm', typed[o], erased)
    BY <1>1, <2>2, <2>3, KeptGained
  <2>. QED
    BY <2>1, <2>4 DEF UserSame
<1>4. ASSUME NEW c \in Client, PageChanges(c) PROVE Kept(o, page', fsm', typed'[o], erased')
  <2> DEFINE s == page[c]
  <2>1. PICK t : /\ page' = [page EXCEPT ![c] = t] /\ fsm' = fsm
                 /\ \/ IsHandled(c, s, t, fsm) /\ UserSame
                    \/ /\ IsTyped(c, s, t)
                       /\ typed' = [typed EXCEPT ![c] = @ + 1] /\ erased' = erased
                    \/ /\ IsErased(s, t)
                       /\ typed' = typed /\ erased' = erased + 1
    BY <1>4 DEF PageChanges, Becomes
  <2>2. Turns(c, s, t, page, page', fsm)
    <3>1. page'[c] = t
      BY <1>1, <2>1
    <3>2. IsPage(c, s, fsm) /\ IsPage(c, page'[c], fsm')
      BY DEF PInv
    <3>. QED
      BY <1>1, <2>1, <3>1, <3>2 DEF Turns
  <2> HIDE DEF s
  <2>3. CASE IsHandled(c, s, t, fsm) /\ UserSame
    <3>1. Kept(o, page', fsm, typed[o], erased)
      BY <1>1, <2>2, <2>3, KeptHandled
    <3>. QED
      BY <2>1, <2>3, <3>1 DEF UserSame
  <2>4. CASE IsTyped(c, s, t) /\ typed' = [typed EXCEPT ![c] = @ + 1] /\ erased' = erased
    <3>1. Kept(o, page', fsm, IF c = o THEN typed[o] + 1 ELSE typed[o], erased)
      BY <1>1, <2>2, <2>4, KeptTyped
    <3>2. typed'[o] = IF c = o THEN typed[o] + 1 ELSE typed[o]
      BY <1>1, <2>4
    <3>. QED
      BY <2>1, <2>4, <3>1, <3>2
  <2>5. CASE IsErased(s, t) /\ typed' = typed /\ erased' = erased + 1
    <3>1. Kept(o, page', fsm, typed[o], erased + 1)
      BY <1>1, <2>2, <2>5, KeptErased
    <3>. QED
      BY <2>1, <2>5, <3>1
  <2>. QED
    BY <2>1, <2>3, <2>4, <2>5
<1>. QED
  BY <1>2, <1>3, <1>4, StepChanges

\* At most the erased characters are missing.
LEMMA KeptHolds ==
    ASSUME PInv, KInv
    PROVE  OwnTextStays
<1> SUFFICES ASSUME NEW o \in Client, page[o].active PROVE Shown(o) >= typed[o] - erased
  BY DEF OwnTextStays
<1> DEFINE s == page[o]
           k == page[o].serverRev
           l == Letter[o]
<1>1. PICK tag, W, x, y : KeptBy(o, page, fsm, typed[o], erased, tag, W, x, y)
  BY DEF KInv, Kept
<1> DEFINE P == MarkedUpto(tag, k)
           Q == Marked(tag, o, "X")
           R == Marked(tag, o, "Y")
<1>2. /\ IsPage(o, s, fsm) /\ s.A # Null /\ k \in Nat /\ k <= fsm.headRev /\ s.baseText = ReplayTo(fsm, k)
      /\ s.baseText \in Text /\ s.editor \in Text /\ Half(s) \in Text
  BY DEF PInv, IsPage
<1>3. /\ W \in [Nat -> Nat] /\ x \in Nat /\ y \in Nat /\ fsm.headRev \in Nat
      /\ MarksOK(tag, erased, page, fsm) /\ erased \in Nat /\ tag \in [1..erased -> Mark]
      /\ OwnerOK(o, s, fsm, W, x, y, typed[o])
      /\ TextsKeep(l, fsm, W, tag)
  BY <1>1 DEF KeptBy, MarksOK
<1>4. ShowsKept(l, o, s, tag, x, y)
  BY <1>1 DEF KeptBy, Mine
<1>5. W[k] + x + y = typed[o] /\ W[k] \in Nat
  BY <1>2, <1>3 DEF OwnerOK, Place
<1>6. W[k] <= Times(l, s.baseText) + Cardinality(P)
  <2>1. k \in 0..fsm.headRev
    BY <1>2, <1>3
  <2>. QED
    BY <1>2, <1>3, <2>1 DEF TextsKeep
<1>7. /\ IsFiniteSet(P) /\ IsFiniteSet(Q) /\ IsFiniteSet(R)
      /\ Cardinality(P) \in Nat /\ Cardinality(Q) \in Nat /\ Cardinality(R) \in Nat
      /\ P \subseteq 1..erased /\ Q \subseteq 1..erased /\ R \subseteq 1..erased
  BY <1>3, MarkedFinite
<1>8. P \cap Q = {} /\ (P \cup Q) \cap R = {}
  <2>1. Q \cap R = {}
    BY DEF Marked
  <2>2. ASSUME NEW i \in 1..erased, i \in P PROVE i \notin Q /\ i \notin R
    <3>1. tag[i].at \in 1..k
      BY <2>2 DEF MarkedUpto
    <3>2. tag[i].at # 0 /\ ~(tag[i].at > k)
      BY <1>2, <3>1
    <3>. QED
      BY <1>3, <3>2 DEF MarksOK, Marked
  <2>. QED
    BY <1>7, <2>1, <2>2
<1> HIDE DEF P, Q, R
<1>9. Cardinality(P) + Cardinality(Q) + Cardinality(R) <= erased
  <2> DEFINE U == P \cup Q
  <2>1. IsFiniteSet(U) /\ Cardinality(U) = Cardinality(P) + Cardinality(Q)
    <3>1. Cardinality(U) = Cardinality(P) + Cardinality(Q) - Cardinality(P \cap Q) /\ IsFiniteSet(U)
      BY <1>7, FS_Union
    <3>2. Cardinality(P \cap Q) = 0
      BY <1>8, FS_EmptySet
    <3>. QED
      BY <1>7, <3>1, <3>2
  <2>2. U \cap R = {} /\ U \cup R \subseteq 1..erased
    BY <1>7, <1>8
  <2> HIDE DEF U
  <2>3. Cardinality(U \cup R) = Cardinality(U) + Cardinality(R)
    <3>1. Cardinality(U \cup R) = Cardinality(U) + Cardinality(R) - Cardinality(U \cap R)
      BY <1>7, <2>1, FS_Union
    <3>2. Cardinality(U \cap R) = 0
      BY <2>2, FS_EmptySet
    <3>. QED
      BY <1>7, <2>1, <3>1, <3>2
  <2>4. Cardinality(U \cup R) <= Cardinality(1..erased) /\ Cardinality(1..erased) = erased
    <3>1. IsFiniteSet(1..erased) /\ Cardinality(1..erased) = erased
      BY <1>3, FS_Interval
    <3>. QED
      BY <2>2, <3>1, FS_Subset
  <2>. QED
    BY <2>1, <2>3, <2>4
<1>10. Times(l, s.baseText) \in Nat /\ Times(l, s.editor) \in Nat /\ Times(l, Half(s)) \in Nat
  BY <1>2, TimesIs
<1>11. Times(l, s.editor) >= typed[o] - erased
  <2> DEFINE tb == Times(l, s.baseText)
             th == Times(l, Half(s))
             te == Times(l, s.editor)
             p == Cardinality(P)
             q == Cardinality(Q)
             r == Cardinality(R)
             w == W[k]
  <2>1. /\ tb \in Nat /\ th \in Nat /\ te \in Nat /\ p \in Nat /\ q \in Nat /\ r \in Nat /\ w \in Nat
        /\ x \in Nat /\ y \in Nat /\ erased \in Nat
        /\ w <= tb + p /\ tb + x <= th + q /\ th + y <= te + r
        /\ p + q + r <= erased /\ w + x + y = typed[o]
    BY <1>3, <1>4, <1>5, <1>6, <1>7, <1>9, <1>10 DEF ShowsKept, P, Q, R
  <2> HIDE DEF tb, th, te, p, q, r, w
  <2>2. w + x + y - erased <= te
    BY <2>1
  <2>3. te >= typed[o] - erased
    BY <2>1, <2>2
  <2>. QED
    BY <2>3 DEF te
<1>12. Shown(o) = Times(l, s.editor)
  BY DEF Shown, Times
<1>. QED
  BY <1>11, <1>12

\* What a user types stays on his screen until it is erased, whatever others do to
\* the text, and through submission, acknowledgement and reconnection: no diff, no
\* Follow and no catch-up loses a character, for any number of users and edits.
THEOREM TypedTextStays ==
    ASSUME Races = {}, OneByte
    PROVE  Spec => []OwnTextStays
<1>1. Orderly
  BY DEF Orderly
<1>2. IInv => PInv
  BY PagesAre DEF PInv
<1>3. IInv => DocumentOK
  BY DEF IInv
<1>4. Init /\ DocumentOK /\ PInv => KInv
  BY KeptInit
<1>5. IInv /\ LInv /\ PInv /\ PInv' /\ KInv /\ [Next]_vars => KInv'
  BY KeptStep
<1>6. PInv /\ KInv => OwnTextStays
  BY KeptHolds
<1>7. Init => LInv
  BY LocalInit
<1>8. IInv /\ LInv /\ [Next]_vars => LInv'
  BY LocalStep
<1>9. Spec => []IInv
  BY <1>1, Invariance
<1>. QED
  BY <1>2, <1>3, <1>4, <1>5, <1>6, <1>7, <1>8, <1>9, PTL DEF Spec

-------------------------------------------------------------------------------
(* No character is there twice, of two users.                              *)
(*                                                                         *)
(* For a user o, I[k] counts the characters that the revisions of o up to  *)
(* k insert.  The text of revision k has no more of his than that, and no  *)
(* more come with the other's page, since its X is o's text moved about or *)
(* follows it.                                                             *)

\* One character for each user, and two users at most.
LettersDiffer == \A a, b \in Client : Letter[a] = Letter[b] => a = b
TwoUsers == \A a, b, d \in Client : a = b \/ b = d \/ a = d

\* What revision r inserts, if it is by o.
Added(o, f, r) == IF Author(f, r) = o THEN NewChars(f.revisionLog[r].changeset) ELSE 0

\* I counts what the revisions of o insert.
Counted(o, f, I) ==
    /\ f.headRev \in Nat /\ I \in [Nat -> Nat]
    /\ \A r \in 1..f.headRev : Author(f, r) \in Client /\ NewChars(f.revisionLog[r].changeset) \in Nat
    /\ \A k \in Nat : k + 1 <= f.headRev => I[k + 1] = I[k] + Added(o, f, k + 1)

\* No text of the servers has more.
TextsFew(o, f, I) == \A k \in 0..f.headRev : Times(Letter[o], ReplayTo(f, k)) <= I[k]

\* What the page of o adds, in X and Y, makes no more than is typed; ...
OwnFew(s, f, I, total) ==
    /\ total \in Nat
    /\ I[Place(s, f)] + (IF s.active THEN NewChars(s.X) ELSE 0) + Fewest(Half(s), s.editor) <= total

\* ... and the page of another shows no more than the revisions give it.
OtherFew(l, s, I) ==
    s.A # Null => Times(l, s.editor) <= I[s.serverRev] /\ Times(l, Half(s)) <= I[s.serverRev]

OnceBy(o, pg, f, total, I) ==
    /\ Counted(o, f, I)
    /\ TextsFew(o, f, I)
    /\ OwnFew(pg[o], f, I, total)
    /\ \A d \in Client : d # o => OtherFew(Letter[o], pg[d], I)

Once(o, pg, f, total) == \E I : OnceBy(o, pg, f, total, I)

\* The count changes with the revisions of o only.
LEMMA CountedLevel ==
    ASSUME NEW o, NEW f, NEW I, Counted(o, f, I), NEW i \in Nat, NEW j \in Nat, i <= j, j <= f.headRev,
           \A q \in i + 1..j : Author(f, q) # o
    PROVE  I[i] = I[j]
<1> DEFINE T == {k \in Nat : i <= k /\ k <= j => I[k] = I[i]}
<1>1. 0 \in T
  <2>1. ASSUME i <= 0 PROVE I[0] = I[i]
    <3>1. i = 0
      BY <2>1
    <3>. QED
      BY <3>1
  <2>. QED
    BY <2>1
<1>2. ASSUME NEW k \in T PROVE k + 1 \in T
  <2>1. SUFFICES ASSUME i <= k + 1, k + 1 <= j PROVE I[k + 1] = I[i]
    OBVIOUS
  <2>2. CASE i = k + 1
    BY <2>2
  <2>3. CASE i # k + 1
    <3>1. i <= k /\ k <= j /\ k \in Nat /\ k + 1 \in i + 1..j /\ k + 1 <= f.headRev
      BY <2>1, <2>3 DEF Counted
    <3>2. I[k] = I[i] /\ I[k] \in Nat
      BY <3>1 DEF Counted
    <3>3. I[k + 1] = I[k] + 0
      BY <3>1 DEF Counted, Added
    <3>. QED
      BY <3>2, <3>3
  <2>. QED
    BY <2>2, <2>3
<1>3. T \subseteq Nat
  OBVIOUS
<1> HIDE DEF T
<1>4. j \in T
  BY <1>1, <1>2, <1>3, SetInduction
<1>. QED
  BY <1>4 DEF T

\* No more of a character is in a text than in the one before and what the diff inserts.
LEMMA FewestCounts ==
    ASSUME NEW l, NEW old \in Text, NEW new \in Text
    PROVE  Times(l, new) <= Times(l, old) + Fewest(old, new)
<1> DEFINE Y == DiffToChangeset(old, new)
<1>1. Suits(old, Y) /\ ApplyChangeset(old, Y) = new
  BY DiffSuits
<1>2. Fewest(old, new) = Len(Inserted(Y.ops))
  BY DEF Fewest, NewChars
<1> HIDE DEF Y
<1>3. Times(l, Run(old, Y.ops)) <= Times(l, old) + Len(Inserted(Y.ops))
  BY <1>1, TimesRun DEF Suits
<1>. QED
  BY <1>1, <1>2, <1>3, ApplyIsRun

\* A page changes: what is to be shown of it.
LEMMA OncePage ==
    ASSUME NEW o \in Client, NEW pg, NEW f, NEW total, NEW I, OnceBy(o, pg, f, total, I),
           NEW c, NEW s, NEW t, NEW pg2, Turns(c, s, t, pg, pg2, f), NEW more,
           IF c = o THEN OwnFew(t, f, I, more) ELSE more = total /\ OtherFew(Letter[o], t, I)
    PROVE  Once(o, pg2, f, more)
<1>1. /\ c \in Client /\ pg2[c] = t /\ \A d \in Client : d # c => pg2[d] = pg[d]
  BY DEF Turns
<1>2. OwnFew(pg2[o], f, I, more)
  BY <1>1 DEF OnceBy
<1>3. \A d \in Client : d # o => OtherFew(Letter[o], pg2[d], I)
  BY <1>1 DEF OnceBy
<1>4. OnceBy(o, pg2, f, more, I)
  BY <1>2, <1>3 DEF OnceBy
<1>. QED
  BY <1>4 DEF Once

\* The numbers that OnceBy compares.
LEMMA OnceCounts ==
    ASSUME NEW o \in Client, NEW pg, NEW f, NEW total, NEW I, OnceBy(o, pg, f, total, I),
           NEW c, NEW s, NEW t, NEW pg2, Turns(c, s, t, pg, pg2, f)
    PROVE  /\ c \in Client /\ s = pg[c] /\ f.headRev \in Nat /\ s.serverRev \in Nat /\ t.serverRev \in Nat
           /\ \A k \in Nat : I[k] \in Nat
           /\ \A l : /\ Times(l, s.editor) \in Nat /\ Times(l, t.editor) \in Nat
                     /\ Times(l, Half(s)) \in Nat /\ Times(l, Half(t)) \in Nat
           /\ Fewest(Half(s), s.editor) \in Nat /\ Fewest(Half(t), t.editor) \in Nat
           /\ s.active => NewChars(s.X) \in Nat /\ s.A # Null
           /\ t.active => NewChars(t.X) \in Nat /\ t.A # Null
           /\ s.A # Null => s.serverRev <= f.headRev
           /\ t.A # Null => t.serverRev <= f.headRev
           /\ c = o => OwnFew(s, f, I, total)
           /\ c # o => OtherFew(Letter[o], s, I)
<1>1. IsPage(c, s, f) /\ IsPage(c, t, f) /\ c \in Client /\ s = pg[c]
  BY DEF Turns
<1>2. \A p : IsPage(c, p, f) =>
         /\ p.editor \in Text /\ Half(p) \in Text /\ p.serverRev \in Nat
         /\ p.active => NewChars(p.X) \in Nat /\ p.A # Null
         /\ p.A # Null => p.serverRev <= f.headRev
  BY DEF IsPage
<1>3. /\ s.editor \in Text /\ Half(s) \in Text /\ t.editor \in Text /\ Half(t) \in Text
  BY <1>1, <1>2
<1>4. Fewest(Half(s), s.editor) \in Nat /\ Fewest(Half(t), t.editor) \in Nat
  BY <1>3, FewestIs
<1>5. f.headRev \in Nat /\ \A k \in Nat : I[k] \in Nat
  BY DEF OnceBy, Counted
<1>. QED
  BY <1>1, <1>2, <1>3, <1>4, <1>5, TimesIs DEF OnceBy

\* A page that stays as it is.
LEMMA OnceAlike ==
    ASSUME NEW o \in Client, NEW pg, NEW f, NEW total, Once(o, pg, f, total),
           NEW c, NEW s, NEW t, NEW pg2, Turns(c, s, t, pg, pg2, f), IsAlike(s, t)
    PROVE  Once(o, pg2, f, total)
<1>1. PICK I : OnceBy(o, pg, f, total, I)
  BY DEF Once
<1>2. /\ t.A = s.A /\ t.serverRev = s.serverRev /\ t.active = s.active /\ t.X = s.X
      /\ t.editor = s.editor /\ Half(t) = Half(s)
  BY DEF IsAlike, SamePlace, Half
<1>3. (c = o => OwnFew(s, f, I, total)) /\ (c # o => OtherFew(Letter[o], s, I))
  BY <1>1, OnceCounts
<1>4. IF c = o THEN OwnFew(t, f, I, total) ELSE OtherFew(Letter[o], t, I)
  BY <1>2, <1>3 DEF OwnFew, OtherFew, Place
<1>. QED
  BY <1>1, <1>4, OncePage

\* The user types a character.
LEMMA OnceTyped ==
    ASSUME NEW o \in Client, LettersDiffer, NEW pg, NEW f, NEW total, Once(o, pg, f, total),
           NEW c, NEW s, NEW t, NEW pg2, Turns(c, s, t, pg, pg2, f), IsTyped(c, s, t)
    PROVE  Once(o, pg2, f, IF c = o THEN total + 1 ELSE total)
<1>1. PICK I : OnceBy(o, pg, f, total, I)
  BY DEF Once
<1> DEFINE more == IF c = o THEN total + 1 ELSE total
           l == Letter[o]
           n == IF s.active THEN NewChars(s.X) ELSE 0
           i == I[Place(s, f)]
<1>2. /\ t.A = s.A /\ t.serverRev = s.serverRev /\ t.active = s.active /\ t.X = s.X
      /\ Half(t) = Half(s)
  BY DEF IsTyped, SamePlace, Half
<1>3. /\ c \in Client /\ (c = o => OwnFew(s, f, I, total)) /\ (c # o => OtherFew(l, s, I))
      /\ Fewest(Half(s), s.editor) \in Nat /\ Fewest(Half(t), t.editor) \in Nat
      /\ Times(l, s.editor) \in Nat
      /\ n \in Nat /\ i \in Nat
  <2>1. Place(s, f) \in Nat
    BY <1>1, OnceCounts DEF Place
  <2>. QED
    BY <1>1, <2>1, OnceCounts
<1>4. PICK u, v \in Text : s.editor = u \o v /\ t.editor = (u \o <<Letter[c]>>) \o v
  BY DEF IsTyped
<1>5. Letter[c] \in Nat /\ Half(s) \in Text
  BY <1>3, SystemAssumption DEF Turns, IsPage
<1>6. Fewest(Half(t), t.editor) <= Fewest(Half(s), s.editor) + 1
  BY <1>2, <1>4, <1>5, FewestBeside
<1>7. c # o => Times(l, t.editor) = Times(l, s.editor)
  <2>1. c # o => Letter[c] # l
    BY <1>3 DEF LettersDiffer
  <2>2. Times(l, t.editor) = Times(l, s.editor) + IF Letter[c] = l THEN 1 ELSE 0
    BY <1>4, <1>5, TimesBeside
  <2>. QED
    BY <1>3, <2>1, <2>2
<1>8. c # o => OtherFew(l, t, I)
  BY <1>2, <1>3, <1>7 DEF OtherFew
<1>9. c = o => OwnFew(t, f, I, more)
  <2>1. ASSUME c = o PROVE more \in Nat /\ i + n + Fewest(Half(t), t.editor) <= more
    <3> DEFINE old == Fewest(Half(s), s.editor)
               new == Fewest(Half(t), t.editor)
    <3>1. i + n + old <= total /\ more = total + 1 /\ new <= old + 1 /\ new \in Nat /\ old \in Nat
          /\ total \in Nat
      BY <1>3, <1>6, <2>1 DEF OwnFew
    <3> HIDE DEF i, n, old, new, more
    <3>2. i + n + new <= i + n + old + 1
      BY <1>3, <3>1
    <3>3. total + 1 >= i + n + old + 1
      BY <1>3, <3>1
    <3>. QED
      BY <1>3, <3>1, <3>2, <3>3 DEF new
  <2>2. Place(t, f) = Place(s, f)
    BY <1>2 DEF Place
  <2>. QED
    BY <1>2, <2>1, <2>2 DEF OwnFew
<1> HIDE DEF more
<1>10. IF c = o THEN OwnFew(t, f, I, more) ELSE more = total /\ OtherFew(Letter[o], t, I)
  BY <1>8, <1>9 DEF more
<1>. QED
  BY <1>1, <1>10, OncePage DEF more

\* The user erases a character.
LEMMA OnceErased ==
    ASSUME NEW o \in Client, NEW pg, NEW f, NEW total, Once(o, pg, f, total),
           NEW c, NEW s, NEW t, NEW pg2, Turns(c, s, t, pg, pg2, f), IsErased(s, t)
    PROVE  Once(o, pg2, f, total)
<1>1. PICK I : OnceBy(o, pg, f, total, I)
  BY DEF Once
<1> DEFINE l == Letter[o]
           n == IF s.active THEN NewChars(s.X) ELSE 0
           i == I[Place(s, f)]
           old == Fewest(Half(s), s.editor)
           new == Fewest(Half(t), t.editor)
<1>2. /\ t.A = s.A /\ t.serverRev = s.serverRev /\ t.active = s.active /\ t.X = s.X
      /\ Half(t) = Half(s)
  BY DEF IsErased, SamePlace, Half
<1>3. /\ (c = o => OwnFew(s, f, I, total)) /\ (c # o => OtherFew(l, s, I))
      /\ old \in Nat /\ new \in Nat /\ Times(l, s.editor) \in Nat /\ Times(l, t.editor) \in Nat
      /\ n \in Nat /\ i \in Nat /\ I[s.serverRev] \in Nat
  <2>1. Place(s, f) \in Nat
    BY <1>1, OnceCounts DEF Place
  <2>. QED
    BY <1>1, <2>1, OnceCounts
<1>4. PICK u, v \in Text : \E x \in Nat : s.editor = (u \o <<x>>) \o v /\ t.editor = u \o v
  BY DEF IsErased
<1>5. PICK x \in Nat : s.editor = (u \o <<x>>) \o v /\ t.editor = u \o v
  BY <1>4
<1>6. new <= old
  <2>1. Half(s) \in Text
    BY DEF Turns, IsPage
  <2>. QED
    BY <1>2, <1>5, <2>1, FewestBeside
<1>7. Times(l, t.editor) <= Times(l, s.editor)
  <2>1. Times(l, s.editor) = Times(l, t.editor) + IF x = l THEN 1 ELSE 0
    BY <1>5, TimesBeside
  <2> HIDE DEF l
  <2>. QED
    BY <1>3, <2>1
<1>8. c # o => OtherFew(l, t, I)
  BY <1>2, <1>3, <1>7 DEF OtherFew
<1>9. c = o => OwnFew(t, f, I, total)
  <2>1. ASSUME c = o PROVE total \in Nat /\ i + n + new <= total
    <3>1. i + n + old <= total /\ total \in Nat
      BY <1>3, <2>1 DEF OwnFew
    <3> HIDE DEF i, n, old, new
    <3>. QED
      BY <1>3, <1>6, <3>1
  <2>2. Place(t, f) = Place(s, f)
    BY <1>2 DEF Place
  <2>. QED
    BY <1>2, <2>1, <2>2 DEF OwnFew
<1>10. IF c = o THEN OwnFew(t, f, I, total) ELSE OtherFew(Letter[o], t, I)
  BY <1>8, <1>9
<1>. QED
  BY <1>1, <1>10, OncePage

\* What is new becomes X.
LEMMA OnceSubmitted ==
    ASSUME NEW o \in Client, NEW pg, NEW f, NEW total, Once(o, pg, f, total),
           NEW c, NEW s, NEW t, NEW pg2, Turns(c, s, t, pg, pg2, f), IsSubmitted(s, t)
    PROVE  Once(o, pg2, f, total)
<1>1. PICK I : OnceBy(o, pg, f, total, I)
  BY DEF Once
<1> DEFINE l == Letter[o]
           n == NewChars(s.X)
           i == I[s.serverRev]
           old == Fewest(s.baseText, s.editor)
<1>2. /\ s.active /\ t.active /\ t.A = s.A /\ t.serverRev = s.serverRev
      /\ t.editor = s.editor /\ Half(t) = s.editor /\ NewChars(t.X) = old
      /\ s.editor \in Text /\ Half(s) = s.baseText
  BY DEF IsSubmitted, Turns, IsPage
<1>3. /\ (c = o => OwnFew(s, f, I, total)) /\ (c # o => OtherFew(l, s, I))
      /\ old \in Nat /\ n \in Nat /\ i \in Nat /\ s.A # Null
  BY <1>1, <1>2, OnceCounts
<1>4. Fewest(Half(t), t.editor) = 0
  BY <1>2, FewestNone
<1>5. c # o => OtherFew(l, t, I)
  BY <1>2, <1>3 DEF OtherFew
<1>6. c = o => OwnFew(t, f, I, total)
  <2>1. ASSUME c = o PROVE total \in Nat /\ i + old + 0 <= total
    <3>1. i + n + old <= total /\ total \in Nat
      BY <1>2, <1>3, <2>1 DEF OwnFew, Place
    <3> HIDE DEF i, n, old
    <3>. QED
      BY <1>3, <3>1
  <2>2. Place(t, f) = s.serverRev
    BY <1>2, <1>3 DEF Place
  <2>. QED
    BY <1>2, <1>4, <2>1, <2>2 DEF OwnFew
<1>7. IF c = o THEN OwnFew(t, f, I, total) ELSE OtherFew(Letter[o], t, I)
  BY <1>5, <1>6
<1>. QED
  BY <1>1, <1>7, OncePage

\* X is acknowledged.
LEMMA OnceAcknowledged ==
    ASSUME NEW o \in Client, NEW pg, NEW f, NEW total, Once(o, pg, f, total),
           NEW c, NEW s, NEW t, NEW pg2, Turns(c, s, t, pg, pg2, f), IsAcknowledged(c, s, t, f)
    PROVE  Once(o, pg2, f, total)
<1>1. PICK I : OnceBy(o, pg, f, total, I)
  BY DEF Once
<1> DEFINE l == Letter[o]
           n == NewChars(s.X)
           k == s.serverRev
           old == Fewest(Half(s), s.editor)
<1>2. /\ s.active /\ t.active /\ t.A # Null /\ k + 1 <= f.headRev /\ t.serverRev = k + 1
      /\ Author(f, k + 1) = c /\ NewChars(f.revisionLog[k + 1].changeset) = n
      /\ Half(t) = Half(s) /\ t.editor = s.editor /\ NewChars(t.X) = 0
  BY DEF IsAcknowledged
<1>3. /\ (c = o => OwnFew(s, f, I, total)) /\ (c # o => OtherFew(l, s, I))
      /\ old \in Nat /\ n \in Nat /\ k \in Nat /\ I[k] \in Nat /\ s.A # Null
  BY <1>1, <1>2, OnceCounts
<1>4. I[k + 1] = I[k] + Added(o, f, k + 1)
  BY <1>1, <1>2, <1>3 DEF OnceBy, Counted
<1>5. c # o => OtherFew(l, t, I)
  <2>1. ASSUME c # o PROVE I[k + 1] = I[k]
    <3>1. Added(o, f, k + 1) = 0
      BY <1>2, <2>1 DEF Added
    <3> HIDE DEF k
    <3>. QED
      BY <1>3, <1>4, <3>1
  <2>. QED
    BY <1>2, <1>3, <2>1 DEF OtherFew
<1>6. c = o => OwnFew(t, f, I, total)
  <2>1. ASSUME c = o PROVE total \in Nat /\ I[k + 1] + 0 + old <= total
    <3>1. I[k] + n + old <= total /\ total \in Nat
      BY <1>2, <1>3, <2>1 DEF OwnFew, Place
    <3>2. I[k + 1] = I[k] + n
      BY <1>2, <1>4, <2>1 DEF Added
    <3> HIDE DEF k, n, old
    <3>. QED
      BY <1>3, <3>1, <3>2
  <2>2. Place(t, f) = k + 1
    BY <1>2 DEF Place
  <2>. QED
    BY <1>2, <2>1, <2>2 DEF OwnFew
<1>7. IF c = o THEN OwnFew(t, f, I, total) ELSE OtherFew(Letter[o], t, I)
  BY <1>5, <1>6
<1>. QED
  BY <1>1, <1>7, OncePage

\* Another's revision is put under X and Y: of two users, it is o's if the page is not.
LEMMA OnceRebased ==
    ASSUME TwoUsers, NEW o \in Client, NEW pg, NEW f, NEW total, Once(o, pg, f, total),
           NEW c, NEW s, NEW t, NEW pg2, Turns(c, s, t, pg, pg2, f), IsRebased(c, s, t, f)
    PROVE  Once(o, pg2, f, total)
<1>1. PICK I : OnceBy(o, pg, f, total, I)
  BY DEF Once
<1> DEFINE l == Letter[o]
           n == NewChars(s.X)
           k == s.serverRev
           r == s.serverRev + 1
           more == NewChars(f.revisionLog[r].changeset)
           old == Fewest(Half(s), s.editor)
           new == Fewest(Half(t), t.editor)
<1>2. /\ s.active /\ t.active /\ t.A # Null /\ r <= f.headRev /\ t.serverRev = r
      /\ Author(f, r) # c /\ NewChars(t.X) = n /\ new <= old
      /\ Times(l, Half(t)) <= Times(l, Half(s)) + more
      /\ Times(l, t.editor) <= Times(l, s.editor) + more
  BY DEF IsRebased
<1>3. /\ (c = o => OwnFew(s, f, I, total)) /\ (c # o => OtherFew(l, s, I))
      /\ old \in Nat /\ new \in Nat /\ n \in Nat /\ k \in Nat /\ I[k] \in Nat /\ s.A # Null
      /\ c \in Client /\ f.headRev \in Nat
      /\ Times(l, s.editor) \in Nat /\ Times(l, t.editor) \in Nat
      /\ Times(l, Half(s)) \in Nat /\ Times(l, Half(t)) \in Nat
  BY <1>1, <1>2, OnceCounts
<1>4. I[r] = I[k] + Added(o, f, r) /\ Author(f, r) \in Client /\ more \in Nat
  <2>1. r \in 1..f.headRev
    BY <1>2, <1>3
  <2>. QED
    BY <1>1, <1>2, <1>3, <2>1 DEF OnceBy, Counted
<1>5. c # o => OtherFew(l, t, I)
  <2>1. ASSUME c # o PROVE I[r] = I[k] + more
    <3>1. Author(f, r) = o
      BY <1>2, <1>3, <1>4, <2>1 DEF TwoUsers
    <3>. QED
      BY <1>4, <3>1 DEF Added
  <2>2. ASSUME c # o PROVE Times(l, t.editor) <= I[r] /\ Times(l, Half(t)) <= I[r]
    <3>1. Times(l, s.editor) <= I[k] /\ Times(l, Half(s)) <= I[k]
      BY <1>3, <2>2 DEF OtherFew
    <3> HIDE DEF r, k, more, l
    <3>. QED
      BY <1>2, <1>3, <1>4, <2>1, <2>2, <3>1
  <2>. QED
    BY <1>2, <2>2 DEF OtherFew
<1>6. c = o => OwnFew(t, f, I, total)
  <2>1. ASSUME c = o PROVE total \in Nat /\ I[r] + n + new <= total
    <3>1. I[k] + n + old <= total /\ total \in Nat
      BY <1>2, <1>3, <2>1 DEF OwnFew, Place
    <3>2. I[r] = I[k] + 0
      BY <1>2, <1>4, <2>1 DEF Added
    <3> HIDE DEF k, n, old, new, r
    <3>. QED
      BY <1>2, <1>3, <3>1, <3>2
  <2>2. Place(t, f) = r
    BY <1>2 DEF Place
  <2>. QED
    BY <1>2, <2>1, <2>2 DEF OwnFew
<1>7. IF c = o THEN OwnFew(t, f, I, total) ELSE OtherFew(Letter[o], t, I)
  BY <1>5, <1>6
<1>. QED
  BY <1>1, <1>7, OncePage

\* A page with nothing of its own, that takes a text over, that loses its connection,
\* or that is left.
LEMMA OnceTakenOver ==
    ASSUME NEW o \in Client, NEW pg, NEW f, NEW total, Once(o, pg, f, total),
           NEW c, NEW s, NEW t, NEW pg2, Turns(c, s, t, pg, pg2, f),
           IsTakenOver(c, s, t, f) \/ IsLaidDown(s, t) \/ IsLeft(s, t)
    PROVE  Once(o, pg2, f, total)
<1>1. PICK I : OnceBy(o, pg, f, total, I)
  BY DEF Once
<1> DEFINE l == Letter[o]
           h == f.headRev
           n(p) == IF p.active THEN NewChars(p.X) ELSE 0
<1>2. /\ c \in Client /\ s = pg[c] /\ IsPage(c, s, f) /\ IsPage(c, t, f) /\ h \in Nat
      /\ Counted(o, f, I) /\ \A k \in Nat : I[k] \in Nat
  BY <1>1 DEF Turns, OnceBy, Counted
<1>3. /\ ~s.waitingForAck /\ s.editor = Half(s) /\ s.editor = s.baseText
      /\ ~t.waitingForAck /\ t.editor = Half(t) /\ t.editor \in Text
      /\ n(t) = 0
  BY <1>2 DEF IsPage, Half, IsTakenOver, IsLaidDown, IsLeft
<1>4. ASSUME NEW p, IsPage(c, p, f), ~p.waitingForAck
      PROVE  /\ Place(p, f) \in Nat /\ Place(p, f) <= h
             /\ c = o => I[Place(p, f)] = I[h]
  <2>1. p.A # Null => p.serverRev <= h /\ p.serverRev \in Nat /\ NoneBy(f, c, p.serverRev)
    BY <1>4 DEF IsPage
  <2>2. ASSUME p.A # Null, c = o PROVE I[p.serverRev] = I[h]
    <3>1. \A q \in p.serverRev + 1..h : Author(f, q) # o
      BY <2>1, <2>2 DEF NoneBy
    <3> HIDE DEF h
    <3>2. h = f.headRev
      BY DEF h
    <3>. QED
      BY <1>2, <2>1, <2>2, <3>1, <3>2, CountedLevel
  <2>. QED
    BY <1>2, <2>1, <2>2 DEF Place
<1>5. Fewest(Half(t), t.editor) = 0
  BY <1>3, FewestNone
<1>6. c = o => OwnFew(t, f, I, total)
  <2>1. ASSUME c = o PROVE total \in Nat /\ I[Place(t, f)] + n(t) + Fewest(Half(t), t.editor) <= total
    <3> DEFINE i == I[Place(s, f)]
               a == n(s)
               b == Fewest(Half(s), s.editor)
    <3>1. i + a + b <= total /\ total \in Nat
      BY <1>1, <1>2, <2>1 DEF OnceBy, OwnFew
    <3>2. a \in Nat /\ b \in Nat
      BY <1>1, OnceCounts
    <3>3. i \in Nat /\ I[Place(t, f)] = i
      BY <1>2, <1>3, <1>4, <2>1
    <3> HIDE DEF i, a, b, n
    <3>4. i + 0 + 0 <= total
      BY <3>1, <3>2, <3>3
    <3>. QED
      BY <1>3, <1>5, <3>1, <3>3, <3>4
  <2>. QED
    BY <2>1 DEF OwnFew
<1>7. c # o => OtherFew(l, t, I)
  <2>1. SUFFICES ASSUME c # o, t.A # Null PROVE Times(l, t.editor) <= I[t.serverRev]
    BY <1>3 DEF OtherFew
  <2>2. CASE IsTakenOver(c, s, t, f)
    <3>1. t.editor = ReplayTo(f, t.serverRev) /\ t.serverRev \in 0..h
      BY <1>2, <2>1, <2>2 DEF IsTakenOver, IsPage
    <3>. QED
      BY <1>1, <3>1 DEF OnceBy, TextsFew
  <2>3. CASE IsLaidDown(s, t)
    <3>1. t.A = s.A /\ t.editor = s.editor /\ t.serverRev = s.serverRev
      BY <2>3 DEF IsLaidDown
    <3>. QED
      BY <1>1, <1>2, <2>1, <3>1 DEF OnceBy, OtherFew
  <2>4. CASE IsLeft(s, t)
    BY <2>1, <2>4 DEF IsLeft
  <2>. QED
    BY <2>2, <2>3, <2>4
<1>8. IF c = o THEN OwnFew(t, f, I, total) ELSE OtherFew(Letter[o], t, I)
  BY <1>6, <1>7
<1>. QED
  BY <1>1, <1>8, OncePage

\* Whatever a page does that is not the user's doing.
LEMMA OnceHandled ==
    ASSUME TwoUsers, NEW o \in Client, NEW pg, NEW f, NEW total, Once(o, pg, f, total),
           NEW c, NEW s, NEW t, NEW pg2, Turns(c, s, t, pg, pg2, f), IsHandled(c, s, t, f)
    PROVE  Once(o, pg2, f, total)
<1>1. CASE IsAlike(s, t)
  BY <1>1, OnceAlike
<1>2. CASE IsSubmitted(s, t)
  BY <1>2, OnceSubmitted
<1>3. CASE IsAcknowledged(c, s, t, f)
  BY <1>3, OnceAcknowledged
<1>4. CASE IsRebased(c, s, t, f)
  BY <1>4, OnceRebased
<1>5. CASE IsTakenOver(c, s, t, f) \/ IsLaidDown(s, t) \/ IsLeft(s, t)
  BY <1>5, OnceTakenOver
<1>. QED
  BY <1>1, <1>2, <1>3, <1>4, <1>5 DEF IsHandled

\* What another's X makes of the texts on its way has no more than the revisions of o give.
LEMMA OnwardFew ==
    ASSUME NEW o, NEW f, NEW I, Counted(o, f, I), NEW l, NEW g, NEW k \in Nat, k <= f.headRev,
           Onward(g, f, k, f.headRev), \A j \in k..f.headRev : g[j] \in Text,
           \A q \in k + 1..f.headRev : Author(f, q) = o,
           Times(l, g[k]) <= I[k]
    PROVE  Times(l, g[f.headRev]) <= I[f.headRev]
<1> DEFINE h == f.headRev
           gs(j) == Times(l, g[j])
           T == {j \in Nat : k <= j /\ j <= h => gs(j) <= I[j]}
<1>1. h \in Nat /\ \A j \in Nat : I[j] \in Nat
  BY DEF Counted
<1>2. ASSUME NEW j \in Nat, k <= j, j <= h PROVE gs(j) \in Nat
  <2>1. j \in k..h
    BY <1>1, <1>2
  <2>. QED
    BY <2>1, TimesIs
<1>3. 0 \in T
  <2>1. ASSUME k <= 0 PROVE gs(0) <= I[0]
    <3>1. k = 0
      BY <2>1
    <3>. QED
      BY <3>1
  <2>. QED
    BY <2>1
<1>4. ASSUME NEW j \in T PROVE j + 1 \in T
  <2>1. SUFFICES ASSUME k <= j + 1, j + 1 <= h PROVE gs(j + 1) <= I[j + 1]
    OBVIOUS
  <2>2. CASE k = j + 1
    BY <2>2
  <2>3. CASE k # j + 1
    <3> DEFINE i == j + 1
               more == NewChars(f.revisionLog[i].changeset)
    <3>1. k <= j /\ j <= h /\ j \in Nat /\ i \in k + 1..h /\ i \in 1..h /\ i \in Nat /\ k <= i
      BY <1>1, <2>1, <2>3
    <3>2. gs(j) \in Nat /\ gs(i) \in Nat /\ I[j] \in Nat /\ I[i] \in Nat /\ gs(j) <= I[j]
      BY <1>1, <1>2, <2>1, <3>1
    <3>3. more \in Nat /\ I[i] = I[j] + Added(o, f, i)
      BY <2>1, <3>1 DEF Counted
    <3>4. gs(i) <= gs(j) + more
      BY <2>1, <3>1 DEF Onward
    <3> HIDE DEF i
    <3>5. Added(o, f, i) = more
      BY <3>1 DEF Added
    <3> HIDE DEF more, gs
    <3>6. gs(i) <= I[i]
      BY <3>2, <3>3, <3>4, <3>5
    <3>. QED
      BY <3>6 DEF i
  <2>. QED
    BY <2>2, <2>3
<1>5. T \subseteq Nat
  OBVIOUS
<1> HIDE DEF T, gs
<1>6. h \in T
  BY <1>1, <1>3, <1>4, <1>5, SetInduction
<1>. QED
  BY <1>1, <1>6 DEF T, gs

\* The document grows by the X of a page.
LEMMA OnceGained ==
    ASSUME TwoUsers, NEW o \in Client, NEW pg, NEW f, NEW f2, NEW total, Once(o, pg, f, total),
           \A d \in Client : IsPage(d, pg[d], f),
           NEW a \in Client, IsGained(a, pg[a], f, f2)
    PROVE  Once(o, pg, f2, total)
<1>1. PICK I : OnceBy(o, pg, f, total, I)
  BY DEF Once
<1> DEFINE h == f.headRev
           m == f.headRev + 1
           s == pg[o]
           p == pg[a]
           k == pg[a].serverRev
           l == Letter[o]
           z == IF a = o THEN NewChars(p.X) ELSE 0
           I2 == [I EXCEPT ![m] = I[h] + z]
           new == ReplayTo(f2, m)
<1>2. h \in Nat /\ m \in Nat /\ m = h + 1 /\ h = f.headRev
  BY <1>1 DEF OnceBy, Counted
<1>3. /\ Counted(o, f, I) /\ I \in [Nat -> Nat] /\ \A i \in Nat : I[i] \in Nat
      /\ TextsFew(o, f, I) /\ OwnFew(s, f, I, total)
      /\ \A d \in Client : d # o => OtherFew(l, pg[d], I)
  BY <1>1 DEF OnceBy, Counted
<1>4. /\ p.A # Null /\ p.active /\ k \in Nat /\ k <= h /\ NoneBy(f, a, k)
      /\ f2.headRev = m /\ Author(f2, m) = a
      /\ NewChars(f2.revisionLog[m].changeset) = NewChars(p.X)
      /\ \A r \in 0..h : ReplayTo(f2, r) = ReplayTo(f, r)
      /\ \A r \in 1..h : f2.revisionLog[r] = f.revisionLog[r]
      /\ new \in Text
      /\ Times(l, new) <= Times(l, ReplayTo(f, h)) + NewChars(p.X)
      /\ ReplayTo(f, h) \in Text
  BY <1>2 DEF IsGained
<1>5. NewChars(p.X) \in Nat /\ z \in Nat /\ I[h] \in Nat
  <2>1. IsPage(a, p, f)
    OBVIOUS
  <2>. QED
    BY <1>2, <1>3, <1>4, <2>1 DEF IsPage
<1>6. I2 \in [Nat -> Nat] /\ I2[m] = I[h] + z /\ \A r \in 0..h : I2[r] = I[r] /\ r # m
  BY <1>2, <1>3, <1>5
<1> HIDE DEF I2
<1>7. Times(l, new) <= I2[m]
  <2>1. CASE a = o
    <3>1. Times(l, ReplayTo(f, h)) <= I[h]
      <4>1. h \in 0..h
        BY <1>2
      <4>. QED
        BY <1>3, <4>1 DEF TextsFew
    <3>2. Times(l, ReplayTo(f, h)) \in Nat /\ Times(l, new) \in Nat
      BY <1>4, TimesIs
    <3> HIDE DEF h, m, new, l
    <3>. QED
      BY <1>4, <1>5, <1>6, <2>1, <3>1, <3>2
  <2>2. CASE a # o
    <3>1. PICK g : /\ g[k] = Half(p) /\ g[h] = new
                   /\ \A j \in k..h : g[j] \in Text
                   /\ Onward(g, f, k, h)
      BY DEF IsGained
    <3>2. Times(l, g[k]) <= I[k]
      BY <1>3, <1>4, <2>2, <3>1 DEF OtherFew
    <3>3. \A q \in k + 1..h : Author(f, q) = o
      <4>1. \A q \in k + 1..h : q \in 1..h
        BY <1>2, <1>4
      <4>2. \A q \in 1..h : Author(f, q) \in Client
        BY <1>3 DEF Counted
      <4>. QED
        BY <1>4, <2>2, <4>1, <4>2 DEF NoneBy, TwoUsers
    <3> HIDE DEF k, new, l
    <3>4. Times(l, g[h]) <= I[h]
      BY <1>3, <1>4, <3>1, <3>2, <3>3, OnwardFew
    <3>5. I2[m] = I[h]
      BY <1>5, <1>6, <2>2
    <3>. QED
      BY <3>1, <3>4, <3>5
  <2>. QED
    BY <2>1, <2>2
<1> HIDE DEF h, m
<1>8. TextsFew(o, f2, I2)
  <2>1. ASSUME NEW r \in 0..f2.headRev PROVE Times(l, ReplayTo(f2, r)) <= I2[r]
    <3>1. CASE r = m
      BY <1>7, <3>1
    <3>2. CASE r # m
      <4>1. r \in 0..h
        BY <1>2, <1>4, <3>2
      <4>. QED
        BY <1>2, <1>3, <1>4, <1>6, <4>1 DEF TextsFew
    <3>. QED
      BY <3>1, <3>2
  <2>. QED
    BY <2>1 DEF TextsFew
<1>9. Counted(o, f2, I2)
  <2>1. ASSUME NEW r \in 1..f2.headRev
        PROVE  Author(f2, r) \in Client /\ NewChars(f2.revisionLog[r].changeset) \in Nat
    <3>1. CASE r = m
      BY <1>4, <1>5, <3>1
    <3>2. CASE r # m
      <4>1. r \in 1..h
        BY <1>2, <1>4, <3>2
      <4>. QED
        BY <1>2, <1>3, <1>4, <4>1 DEF Counted, Author
    <3>. QED
      BY <3>1, <3>2
  <2>2. ASSUME NEW i \in Nat, i + 1 <= f2.headRev PROVE I2[i + 1] = I2[i] + Added(o, f2, i + 1)
    <3>1. CASE i = h
      <4>1. Added(o, f2, m) = z /\ h \in 0..h
        BY <1>2, <1>4 DEF Added
      <4>2. I2[h] = I[h]
        BY <1>6, <4>1
      <4>. QED
        BY <1>2, <1>6, <3>1, <4>1, <4>2
    <3>2. CASE i # h
      <4> DEFINE j == i + 1
      <4>1. j \in 1..h /\ i \in 0..h /\ j \in 0..h /\ j <= h
        BY <1>2, <1>4, <2>2, <3>2
      <4>2. Added(o, f2, j) = Added(o, f, j)
        BY <1>4, <4>1 DEF Added, Author
      <4>3. I[j] = I[i] + Added(o, f, j)
        BY <1>2, <1>3, <4>1 DEF Counted
      <4> HIDE DEF j
      <4>4. I2[j] = I2[i] + Added(o, f2, j)
        BY <1>6, <4>1, <4>2, <4>3
      <4>. QED
        BY <4>4 DEF j
    <3>. QED
      BY <3>1, <3>2
  <2>. QED
    BY <1>2, <1>4, <1>6, <2>1, <2>2 DEF Counted
<1>10. OwnFew(s, f2, I2, total)
  <2>1. I2[Place(s, f2)] = I[Place(s, f)]
    <3>1. CASE s.A = Null
      <4>1. a # o
        BY <1>4, <3>1
      <4>2. I2[m] = I[h]
        BY <1>5, <1>6, <4>1
      <4>. QED
        BY <1>2, <1>4, <3>1, <4>2 DEF Place
    <3>2. CASE s.A # Null
      <4>1. s.serverRev \in 0..h
        <5>1. IsPage(o, s, f)
          OBVIOUS
        <5>. QED
          BY <1>2, <3>2, <5>1 DEF IsPage
      <4>. QED
        BY <1>6, <3>2, <4>1 DEF Place
    <3>. QED
      BY <3>1, <3>2
  <2>. QED
    BY <1>3, <2>1 DEF OwnFew
<1>11. ASSUME NEW d \in Client, d # o PROVE OtherFew(l, pg[d], I2)
  <2>1. IsPage(d, pg[d], f) /\ OtherFew(l, pg[d], I)
    BY <1>3, <1>11
  <2>2. pg[d].A # Null => pg[d].serverRev \in 0..h
    BY <1>2, <2>1 DEF IsPage
  <2>. QED
    BY <1>6, <2>1, <2>2 DEF OtherFew
<1>12. OnceBy(o, pg, f2, total, I2)
  BY <1>8, <1>9, <1>10, <1>11 DEF OnceBy
<1>. QED
  BY <1>12 DEF Once

SInv == \A o \in Client : Once(o, page, fsm, typed[o])

\* Nothing is typed.
LEMMA OnceInit ==
    ASSUME Init, PInv
    PROVE  SInv
<1> SUFFICES ASSUME NEW o \in Client PROVE Once(o, page, fsm, typed[o])
  BY DEF SInv
<1> DEFINE I == [k \in Nat |-> 0]
           s == page[o]
<1>1. /\ fsm.headRev = 0 /\ typed[o] = 0
      /\ \A c \in Client : ~page[c].active /\ page[c].A = Null
  BY DEF Init, NewDocumentStateMachine, NewPage
<1>2. I \in [Nat -> Nat] /\ \A k \in Nat : I[k] = 0
  OBVIOUS
<1> HIDE DEF I
<1>3. Counted(o, fsm, I)
  <2>1. 1..fsm.headRev = {} /\ \A k \in Nat : ~(k + 1 <= fsm.headRev)
    BY <1>1
  <2>. QED
    BY <1>1, <1>2, <2>1 DEF Counted
<1>4. TextsFew(o, fsm, I)
  <2>1. ASSUME NEW k \in 0..fsm.headRev PROVE Times(Letter[o], ReplayTo(fsm, k)) <= I[k]
    <3>1. k = 0 /\ ReplayTo(fsm, 0) = <<>>
      BY <1>1, ReplayIs
    <3>2. Times(Letter[o], <<>>) = 0 /\ I[0] = 0
      BY <1>2, TimesOne
    <3>. QED
      BY <3>1, <3>2
  <2>. QED
    BY <2>1 DEF TextsFew
<1>5. OwnFew(s, fsm, I, 0)
  <2>1. Half(s) = s.baseText /\ s.editor = s.baseText /\ s.baseText \in Text
    BY <1>1 DEF PInv, IsPage, Half
  <2>2. Fewest(Half(s), s.editor) = 0
    BY <2>1, FewestNone
  <2>3. Place(s, fsm) = 0 /\ I[0] = 0
    BY <1>1, <1>2 DEF Place
  <2>. QED
    BY <1>1, <2>2, <2>3 DEF OwnFew
<1>6. OnceBy(o, page, fsm, 0, I)
  BY <1>1, <1>3, <1>4, <1>5 DEF OnceBy, OtherFew
<1>. QED
  BY <1>1, <1>6 DEF Once

LEMMA OnceStep ==
    ASSUME IInv, LInv, PInv, PInv', SInv, Races = {}, LettersDiffer, TwoUsers, [Next]_vars
    PROVE  SInv'
<1> SUFFICES ASSUME NEW o \in Client PROVE Once(o, page', fsm', typed'[o])
  BY DEF SInv
<1>1. Once(o, page, fsm, typed[o]) /\ DOMAIN page = Client /\ DOMAIN typed = Client
  BY DEF SInv, IInv, ServersOK
<1>2. CASE page' = page /\ fsm' = fsm /\ UserSame
  BY <1>1, <1>2 DEF UserSame
<1>3. ASSUME NEW e \in proposed, Commit(e) PROVE Once(o, page', fsm', typed'[o])
  <2>1. page' = page /\ UserSame
    BY <1>3, CommitChanges
  <2>2. PICK a \in Client : IsGained(a, page[a], fsm, fsm')
    BY <1>3, CommitChanges
  <2>3. \A d \in Client : IsPage(d, page[d], fsm)
    BY DEF PInv
  <2>4. Once(o, page, fsm', typed[o])
    BY <1>1, <2>2, <2>3, OnceGained
  <2>. QED
    BY <2>1, <2>4 DEF UserSame
<1>4. ASSUME NEW c \in Client, PageChanges(c) PROVE Once(o, page', fsm', typed'[o])
  <2> DEFINE s == page[c]
  <2>1. PICK t : /\ page' = [page EXCEPT ![c] = t] /\ fsm' = fsm
                 /\ \/ IsHandled(c, s, t, fsm) /\ UserSame
                    \/ /\ IsTyped(c, s, t)
                       /\ typed' = [typed EXCEPT ![c] = @ + 1] /\ erased' = erased
                    \/ /\ IsErased(s, t)
                       /\ typed' = typed /\ erased' = erased + 1
    BY <1>4 DEF PageChanges, Becomes
  <2>2. Turns(c, s, t, page, page', fsm)
    <3>1. page'[c] = t
      BY <1>1, <2>1
    <3>2. IsPage(c, s, fsm) /\ IsPage(c, page'[c], fsm')
      BY DEF PInv
    <3>. QED
      BY <1>1, <2>1, <3>1, <3>2 DEF Turns
  <2> HIDE DEF s
  <2>3. CASE IsHandled(c, s, t, fsm) /\ UserSame
    <3>1. Once(o, page', fsm, typed[o])
      BY <1>1, <2>2, <2>3, OnceHandled
    <3>. QED
      BY <2>1, <2>3, <3>1 DEF UserSame
  <2>4. CASE IsTyped(c, s, t) /\ typed' = [typed EXCEPT ![c] = @ + 1]
    <3>1. Once(o, page', fsm, IF c = o THEN typed[o] + 1 ELSE typed[o])
      BY <1>1, <2>2, <2>4, OnceTyped
    <3>2. typed'[o] = IF c = o THEN typed[o] + 1 ELSE typed[o]
      BY <1>1, <2>4
    <3>. QED
      BY <2>1, <3>1, <3>2
  <2>5. CASE IsErased(s, t) /\ typed' = typed
    <3>1. Once(o, page', fsm, typed[o])
      BY <1>1, <2>2, <2>5, OnceErased
    <3>. QED
      BY <2>1, <2>5, <3>1
  <2>. QED
    BY <2>1, <2>3, <2>4, <2>5
<1>. QED
  BY <1>2, <1>3, <1>4, StepChanges

\* No more is shown than the text, X and Y give.
LEMMA OnceHolds ==
    ASSUME PInv, SInv
    PROVE  OwnTextOnce
<1> SUFFICES ASSUME NEW o \in Client, page[o].active PROVE Shown(o) <= typed[o]
  BY DEF OwnTextOnce
<1> DEFINE s == page[o]
           k == page[o].serverRev
           l == Letter[o]
           tb == Times(l, s.baseText)
           th == Times(l, Half(s))
           te == Times(l, s.editor)
           n == NewChars(s.X)
           y == Fewest(Half(s), s.editor)
<1>1. PICK I : OnceBy(o, page, fsm, typed[o], I)
  BY DEF SInv, Once
<1>2. /\ s.A # Null /\ k \in Nat /\ k <= fsm.headRev /\ s.baseText = ReplayTo(fsm, k)
      /\ s.baseText \in Text /\ s.editor \in Text /\ Half(s) \in Text
      /\ Suits(s.baseText, s.X) /\ Half(s) = ApplyChangeset(s.baseText, s.X) /\ n \in Nat
  BY DEF PInv, IsPage
<1>3. tb <= I[k] /\ I[k] \in Nat
  <2>1. k \in 0..fsm.headRev
    BY <1>1, <1>2 DEF OnceBy, Counted
  <2>. QED
    BY <1>1, <1>2, <2>1 DEF OnceBy, TextsFew, Counted
<1>4. th <= tb + n
  <2>1. Times(l, Run(s.baseText, s.X.ops)) <= tb + Len(Inserted(s.X.ops))
    BY <1>2, TimesRun DEF Suits
  <2>. QED
    BY <1>2, <2>1, ApplyIsRun DEF NewChars
<1>5. te <= th + y
  BY <1>2, FewestCounts
<1>6. I[k] + n + y <= typed[o] /\ typed[o] \in Nat
  BY <1>1, <1>2 DEF OnceBy, OwnFew, Place
<1>7. tb \in Nat /\ th \in Nat /\ te \in Nat /\ y \in Nat
  BY <1>2, TimesIs, FewestIs
<1>8. Shown(o) = te
  BY DEF Shown, Times
<1> HIDE DEF tb, th, te, n, y, k
<1>9. te <= typed[o]
  BY <1>2, <1>3, <1>4, <1>5, <1>6, <1>7
<1>. QED
  BY <1>8, <1>9

\* What a user types is there once, of two users with a character each: no page gets
\* its own submission as another's edit, and no diff, Follow or catch-up doubles a
\* character.
THEOREM TypedTextOnce ==
    ASSUME Races = {}, OneByte, LettersDiffer, TwoUsers
    PROVE  Spec => []OwnTextOnce
<1>1. Orderly
  BY DEF Orderly
<1>2. IInv => PInv
  BY PagesAre DEF PInv
<1>3. Init /\ PInv => SInv
  BY OnceInit
<1>4. IInv /\ LInv /\ PInv /\ PInv' /\ SInv /\ [Next]_vars => SInv'
  BY OnceStep
<1>5. PInv /\ SInv => OwnTextOnce
  BY OnceHolds
<1>6. Init => LInv
  BY LocalInit
<1>7. IInv /\ LInv /\ [Next]_vars => LInv'
  BY LocalStep
<1>8. Spec => []IInv
  BY <1>1, Invariance
<1>. QED
  BY <1>2, <1>3, <1>4, <1>5, <1>6, <1>7, <1>8, PTL DEF Spec

-------------------------------------------------------------------------------
(* Submission ids, whatever happens.                                       *)

\* A message to a server whose client has given out ids up to n.
UpMsgOK(m, n) ==
    \/ m.type = "CONNECT" /\ m.rev \in Nat
    \/ m.type = "SUBMIT" /\ m.submission.sub \in 1..n

DownMsgOK(m) ==
    \/ m.type = "CONNECT_ACK" /\ m.from \in Nat /\ m.rev \in Nat
    \/ m.type \in {"ACK", "BROADCAST"} /\ m.rev \in Nat
    \/ m.type = "ERROR"
    \/ m.type = "REDIRECT" /\ m.to \in Node \cup {None}

UpOK(u, g, n) ==
    /\ IsSeq(u) /\ \A i \in DOMAIN u : UpMsgOK(u[i], n)
    /\ g = "connecting" => u # <<>> /\ Head(u).type = "CONNECT"

DownOK(d) == IsSeq(d) /\ \A i \in DOMAIN d : DownMsgOK(d[i])

\* A page whose submission in X has an id.
Numbered(s) ==
    /\ {"nextSubmissionId", "waitingForAck", "serverRev", "server"} \subseteq DOMAIN s
    /\ s.nextSubmissionId \in Nat /\ s.serverRev \in Nat /\ s.waitingForAck \in BOOLEAN
    /\ s.server \in Node
    /\ s.waitingForAck => s.nextSubmissionId # 0

EntryOK(e) ==
    /\ {"client", "sub"} \subseteq DOMAIN e
    /\ e.client \in Client /\ e.sub \in 1..page[e.client].nextSubmissionId

\* The revisions that client c has made.
Own(c) == {i \in DOMAIN fsm.revisionLog : fsm.revisionLog[i].source = c}

\* The submissions applied had different ids, up to the last one's.
OwnOK(c) ==
    /\ fsm.clientLastSubmission[c] <= page[c].nextSubmissionId
    /\ IsFiniteSet(Own(c)) /\ Cardinality(Own(c)) \in Nat
    /\ Cardinality(Own(c)) = 0 \/ Cardinality(Own(c)) <= fsm.clientLastSubmission[c]

LogOK ==
    /\ IsSeq(fsm.revisionLog) /\ fsm.headRev \in Nat
    /\ fsm.clientLastSubmission \in [Client -> Int]

ResultsOK ==
    /\ IsSeq(results) /\ \A i \in DOMAIN results : results[i].rev \in Nat
    /\ applied \in [Node -> 0..Len(results)]
    /\ DOMAIN pending = Node
    /\ \A n \in Node : IsSeq(pending[n]) /\ \A i \in DOMAIN pending[n] : pending[n][i].rev \in Nat

NInv ==
    /\ DOMAIN page = Client /\ DOMAIN up = Client /\ DOMAIN down = Client /\ DOMAIN registered = Client
    /\ \A c \in Client : /\ Numbered(page[c])
                         /\ UpOK(up[c], registered[c], page[c].nextSubmissionId)
                         /\ DownOK(down[c])
                         /\ OwnOK(c)
    /\ \A e \in proposed : EntryOK(e)
    /\ LogOK /\ ResultsOK
    /\ leader \in Node \cup {None}

\* Elements that come and go.
LEMMA UpTail ==
    ASSUME NEW u, NEW n, NEW g, UpOK(u, g, n), u # <<>>, NEW h, h # "connecting"
    PROVE  UpMsgOK(Head(u), n) /\ UpOK(Tail(u), h, n)
BY TailSeq DEF UpOK

\* A message more on its way to the server.
LEMMA UpAppend ==
    ASSUME NEW u, NEW n, NEW g, UpOK(u, g, n), NEW m, UpMsgOK(m, n)
    PROVE  UpOK(Append(u, m), g, n)
<1>1. /\ IsSeq(u) /\ IsSeq(Append(u, m)) /\ Len(u) \in Nat /\ DOMAIN u = 1..Len(u)
      /\ DOMAIN Append(u, m) = 1..Len(u) + 1
      /\ \A i \in 1..Len(u) : Append(u, m)[i] = u[i]
      /\ Append(u, m)[Len(u) + 1] = m
  BY AppendSeq DEF UpOK
<1>2. ASSUME NEW i \in 1..Len(u) + 1 PROVE UpMsgOK(Append(u, m)[i], n)
  <2>1. CASE i = Len(u) + 1
    BY <1>1, <2>1
  <2>2. CASE i # Len(u) + 1
    <3>1. i \in 1..Len(u)
      BY <1>1, <2>2
    <3>. QED
      BY <1>1, <3>1 DEF UpOK
  <2>. QED
    BY <2>1, <2>2
<1>3. u # <<>> => Append(u, m) # <<>> /\ Head(Append(u, m)) = Head(u)
  BY <1>1, AppendTail
<1>. QED
  BY <1>1, <1>2, <1>3 DEF UpOK

\* A message less on its way to the page.
LEMMA DownTail ==
    ASSUME NEW d, DownOK(d), d # <<>>
    PROVE  DownMsgOK(Head(d)) /\ DownOK(Tail(d))
BY TailSeq DEF DownOK

\* A message more on its way to the page.
LEMMA DownAppend ==
    ASSUME NEW d, DownOK(d), NEW m, DownMsgOK(m)
    PROVE  DownOK(Append(d, m))
<1>1. /\ IsSeq(d) /\ IsSeq(Append(d, m)) /\ Len(d) \in Nat /\ DOMAIN d = 1..Len(d)
      /\ DOMAIN Append(d, m) = 1..Len(d) + 1
      /\ \A i \in 1..Len(d) : Append(d, m)[i] = d[i]
      /\ Append(d, m)[Len(d) + 1] = m
  BY AppendSeq DEF DownOK
<1>2. ASSUME NEW i \in 1..Len(d) + 1 PROVE DownMsgOK(Append(d, m)[i])
  <2>1. CASE i = Len(d) + 1
    BY <1>1, <2>1
  <2>2. CASE i # Len(d) + 1
    <3>1. i \in 1..Len(d)
      BY <1>1, <2>2
    <3>. QED
      BY <1>1, <3>1 DEF DownOK
  <2>. QED
    BY <2>1, <2>2
<1>. QED
  BY <1>1, <1>2 DEF DownOK

\* Nothing on its way, or a CONNECT alone.
LEMMA NothingSent ==
    /\ DownOK(<<>>)
    /\ \A n, g : g # "connecting" => UpOK(<<>>, g, n)
    /\ \A m, n : m.type = "CONNECT" /\ UpMsgOK(m, n) => \A g : UpOK(<<m>>, g, n)
<1>1. IsSeq(<<>>) /\ DOMAIN <<>> = {}
  BY EmptySeq DEF IsSeq
<1>2. ASSUME NEW m PROVE IsSeq(<<m>>)
  <2>1. IsSeq(Append(<<>>, m))
    BY <1>1, AppendSeq
  <2>. QED
    BY <2>1, OneInSeq
<1>. QED
  BY <1>1, <1>2, OneInSeq DEF DownOK, UpOK

\* More ids.
LEMMA UpMore ==
    ASSUME NEW u, NEW g, NEW n \in Nat, NEW k \in Nat, n <= k, UpOK(u, g, n)
    PROVE  UpOK(u, g, k)
<1>1. \A m : UpMsgOK(m, n) => UpMsgOK(m, k)
  BY DEF UpMsgOK
<1>. QED
  BY <1>1 DEF UpOK

\* The handlers keep the id and the submission, or drop the submission.
Keeps(t, s) ==
    /\ DOMAIN t = DOMAIN s
    /\ t.nextSubmissionId = s.nextSubmissionId
    /\ t.waitingForAck \in {s.waitingForAck, FALSE}
    /\ t.serverRev \in Nat /\ t.server \in Node

\* What keeps the id and the submission is numbered as before.
LEMMA KeepsNumber ==
    ASSUME NEW s, NEW t, Numbered(s), Keeps(t, s)
    PROVE  Numbered(t) /\ t.nextSubmissionId = s.nextSubmissionId
BY DEF Numbered, Keeps

\* The user's edits and the events of sockets keep them.
LEMMA SimpleKeeps ==
    ASSUME NEW s, Numbered(s)
    PROVE  /\ \A x : Keeps([s EXCEPT !.editor = x], s)
           /\ \A n \in Node : Keeps(connectToServer([s EXCEPT !.server = n]), s)
           /\ Keeps([s EXCEPT !.socket = "open"], s)
           /\ \A n \in Node : Keeps(handleRedirect(s, n), s)
           /\ Keeps(onWsClose([s EXCEPT !.socket = "none"]), s)
           /\ Keeps(onWsClose([s EXCEPT !.closing = @ - 1]), s)
           /\ Keeps(s, s)
BY DEF Numbered, Keeps, connectToServer, handleRedirect, onWsClose

\* Acknowledgements and broadcasts keep the id.
LEMMA HandlersKeep ==
    ASSUME NEW s, Numbered(s), NEW r \in Nat
    PROVE  /\ Keeps(handleAck(s, r), s)
           /\ \A B : Keeps(handleBroadcast(s, B, r), s)
<1>1. Keeps(handleAck(s, r), s)
  <2> DEFINE A == Compose(s.A, s.X)
             x == Identity(A.new_len)
             y == applyChangeset(<<>>, A)
             t == [s EXCEPT !.A = A, !.X = x, !.serverRev = r, !.waitingForAck = FALSE, !.baseText = y]
  <2>1. handleAck(s, r) = IF s.A = Null THEN s ELSE t
    BY DEF handleAck
  <2> HIDE DEF A, x, y
  <2>2. Keeps(t, s) /\ Keeps(s, s)
    BY DEF Keeps, Numbered
  <2>. QED
    BY <2>1, <2>2
<1>2. ASSUME NEW B PROVE Keeps(handleBroadcast(s, B, r), s)
  <2> DEFINE Y == LocalEdits(s)
             XfollowB == Follow(s.X, B)
             A == Compose(s.A, B)
             x == Follow(B, s.X)
             y == Follow(XfollowB, Y)
             v == applyChangeset(s.editor, Follow(Y, XfollowB))
             w == applyChangeset(<<>>, A)
             z == [s EXCEPT !.X = x, !.Y = y]
             t == [z EXCEPT !.A = A, !.serverRev = r, !.editor = v, !.baseText = w]
  <2>1. handleBroadcast(s, B, r) = IF B = Null \/ Throws(s.baseText, s.X) THEN s ELSE t
    BY DEF handleBroadcast, BroadcastRebase
  <2> HIDE DEF Y, XfollowB, A, x, y, v, w
  <2>2. Keeps(z, s)
    BY DEF Keeps, Numbered
  <2>3. Numbered(z)
    BY <2>2, KeepsNumber
  <2> HIDE DEF z
  <2>4. Keeps(t, z) /\ Keeps(s, s)
    BY <2>3 DEF Keeps, Numbered
  <2>5. Keeps(t, s)
    BY <2>2, <2>4 DEF Keeps
  <2>. QED
    BY <2>1, <2>4, <2>5
<1>. QED
  BY <1>1, <1>2

\* Whatever revisions a CONNECT_ACK brings, they have a number.
LEMMA CutLength ==
    ASSUME NEW m \in Nat, NEW n \in Nat
    PROVE  Len(RevisionsBetween(m, n)) \in Nat
<1> DEFINE f == RevisionsSince(fsm, m)
           k == n - m
           S == {f[i] : i \in 1..k}
           q == SubSeq(f, 1, k)
           T == {Sent(m + i) : i \in DOMAIN q}
           b == RevisionsBetween(m, n)
<1>1. k \in Int /\ \A i \in 1..k : f[i] \in S
  OBVIOUS
<1>2. b \in [DOMAIN q -> T]
  BY DEF RevisionsBetween
<1> HIDE DEF f, S, k
<1>3. q \in Seq(S)
  BY <1>1, SubSeqProperties
<1> HIDE DEF q, T, b
<1>4. DOMAIN q = 1..Len(q) /\ Len(q) \in Nat
  BY <1>3
<1>5. b \in Seq(T)
  BY <1>2, <1>4
<1>. QED
  BY <1>5 DEF b

\* A CONNECT_ACK keeps the id and the submission, whatever it brings.
LEMMA ConnectAckKeeps ==
    ASSUME NEW s, Numbered(s), NEW text, NEW r \in Nat, NEW q, Len(q) \in Nat
    PROVE  Keeps(handleConnectAck(s, text, r, q), s)
<1> DEFINE t == Reconnected(s, text, r, q)
           none == Identity(Len(t.baseText))
           A == TextToChangeset(t.baseText)
           v == Merged(t)
           w == t.baseText
           x == [t EXCEPT !.editor = v]
           y == [t EXCEPT !.editor = w, !.X = none, !.Y = none]
           shown == IF Merges(t) THEN x ELSE y
           z == [shown EXCEPT !.A = A, !.active = TRUE]
<1>1. handleConnectAck(s, text, r, q) = z
  BY DEF handleConnectAck
<1>2. Keeps(t, s)
  <2>1. CASE s.serverRev = 0
    <3>1. t = [s EXCEPT !.baseText = text, !.serverRev = r]
      BY <2>1 DEF Reconnected
    <3> HIDE DEF t
    <3>. QED
      BY <3>1 DEF Keeps, Numbered
  <2>2. CASE s.serverRev # 0
    <3>1. PICK f : /\ t = [f[Len(q)] EXCEPT !.serverRev = r]
                   /\ \A i \in 0..Len(q) : f[i] = CaughtStep(f, s, q, i)
      BY <2>2, ReconnectedIs
    <3> DEFINE T == {i \in Nat : i <= Len(q) => Keeps(f[i], s)}
    <3>2. 0 \in T
      <4>1. f[0] = s
        BY <3>1 DEF CaughtStep
      <4>. QED
        BY <4>1, SimpleKeeps
    <3>3. ASSUME NEW i \in T PROVE i + 1 \in T
      <4>1. SUFFICES ASSUME i + 1 <= Len(q) PROVE Keeps(f[i + 1], s)
        OBVIOUS
      <4>2. i \in Nat /\ Keeps(f[i], s) /\ i + 1 \in 0..Len(q) /\ i + 1 # 0 /\ (i + 1) - 1 = i
        BY <4>1
      <4> DEFINE a == f[i]
                 C == q[i + 1]
                 X == Follow(C, a.X)
                 b == applyChangeset(a.baseText, C)
                 Y == Follow(Follow(X, C), a.Y)
                 d == [a EXCEPT !.baseText = b, !.X = X, !.Y = Y]
      <4>3. f[i + 1] = CatchUpOne(a, C)
        BY <3>1, <4>2 DEF CaughtStep
      <4>4. CatchUpOne(a, C) = IF C = Null \/ Throws(a.baseText, C) THEN a ELSE d
        BY DEF CatchUpOne
      <4>5. Keeps(a, s)
        BY <4>2
      <4> HIDE DEF a, C, X, b, Y, T
      <4>6. Keeps(d, s)
        BY <4>5 DEF Keeps, Numbered
      <4>. QED
        BY <4>3, <4>4, <4>5, <4>6
    <3>4. \A i \in Nat : i \in T
      <4>1. T \subseteq Nat
        OBVIOUS
      <4> HIDE DEF T
      <4>. QED
        BY <3>2, <3>3, <4>1, SetInduction
    <3>5. Keeps(f[Len(q)], s)
      BY <3>4
    <3> DEFINE a == f[Len(q)]
    <3> HIDE DEF a, t
    <3>6. Keeps(a, s) /\ t = [a EXCEPT !.serverRev = r]
      BY <3>1, <3>5 DEF a
    <3>. QED
      BY <3>6 DEF Keeps, Numbered
  <2>. QED
    BY <2>1, <2>2
<1> HIDE DEF t, none, A, v, w
<1>3. Keeps(x, s) /\ Keeps(y, s)
  BY <1>2 DEF Keeps, Numbered
<1>4. Keeps(shown, s)
  BY <1>3
<1> HIDE DEF shown
<1>5. Keeps(z, s)
  BY <1>4 DEF Keeps, Numbered
<1>. QED
  BY <1>1, <1>5

\* Steps that leave the document and the callbacks as they are.
LEMMA NumbersStep ==
    ASSUME NInv, UNCHANGED <<docVars, pending>>, leader' \in Node \cup {None},
           DOMAIN page' = Client, DOMAIN up' = Client, DOMAIN down' = Client, DOMAIN registered' = Client,
           \A c \in Client : /\ Numbered(page'[c])
                             /\ page[c].nextSubmissionId <= page'[c].nextSubmissionId
                             /\ UpOK(up'[c], registered'[c], page'[c].nextSubmissionId)
                             /\ DownOK(down'[c]),
           \A e \in proposed' : /\ {"client", "sub"} \subseteq DOMAIN e
                                /\ e.client \in Client /\ e.sub \in 1..page'[e.client].nextSubmissionId
    PROVE  NInv'
<1>1. fsm' = fsm /\ results' = results /\ applied' = applied /\ pending' = pending
  BY DEF docVars
<1>2. LogOK /\ ResultsOK /\ LogOK' /\ ResultsOK'
  <2>1. LogOK /\ ResultsOK
    BY DEF NInv
  <2>2. LogOK'
    BY <1>1, <2>1 DEF LogOK, IsSeq
  <2>3. ResultsOK'
    BY <1>1, <2>1 DEF ResultsOK, IsSeq
  <2>. QED
    BY <2>1, <2>2, <2>3
<1>3. ASSUME NEW c \in Client PROVE OwnOK(c)'
  <2>1. OwnOK(c) /\ page[c].nextSubmissionId \in Nat /\ page'[c].nextSubmissionId \in Nat
    BY DEF NInv, Numbered
  <2>2. Own(c)' = Own(c)
    BY <1>1 DEF Own
  <2>3. fsm.clientLastSubmission[c] \in Int
    BY <1>2 DEF LogOK
  <2>. QED
    BY <1>1, <2>1, <2>2, <2>3 DEF OwnOK
<1>4. \A c \in Client : Numbered(page[c])' /\ UpOK(up[c], registered[c], page[c].nextSubmissionId)' /\ DownOK(down[c])'
  BY DEF Numbered, UpOK, DownOK, UpMsgOK, DownMsgOK, IsSeq
<1>5. \A e \in proposed' : EntryOK(e)'
  BY DEF EntryOK
<1>. QED
  BY <1>2, <1>3, <1>4, <1>5 DEF NInv

\* A page that keeps its ids.
LEMMA NumbersPage ==
    ASSUME NInv, UNCHANGED <<docVars, pending, proposed, leader>>, NEW c \in Client, NEW t, Keeps(t, page[c]),
           page' = [page EXCEPT ![c] = t],
           DOMAIN up' = Client, DOMAIN down' = Client, DOMAIN registered' = Client,
           \A b \in Client : /\ UpOK(up'[b], registered'[b], page[b].nextSubmissionId)
                             /\ DownOK(down'[b])
    PROVE  NInv'
<1>1. \A b \in Client : Numbered(page[b]) /\ page[b].nextSubmissionId \in Nat
  BY DEF NInv, Numbered
<1>2. Numbered(t) /\ t.nextSubmissionId = page[c].nextSubmissionId
  BY <1>1, KeepsNumber
<1>3. DOMAIN page' = Client /\ page'[c] = t /\ \A b \in Client \ {c} : page'[b] = page[b]
  BY DEF NInv
<1>4. \A b \in Client : Numbered(page'[b]) /\ page'[b].nextSubmissionId = page[b].nextSubmissionId
  BY <1>1, <1>2, <1>3
<1>5. \A e \in proposed' : /\ {"client", "sub"} \subseteq DOMAIN e
                           /\ e.client \in Client /\ e.sub \in 1..page'[e.client].nextSubmissionId
  BY <1>4 DEF NInv, EntryOK
<1>6. /\ \A b \in Client : page[b].nextSubmissionId <= page'[b].nextSubmissionId
      /\ leader' \in Node \cup {None}
  BY <1>1, <1>4 DEF NInv
<1>7. \A b \in Client : UpOK(up'[b], registered'[b], page'[b].nextSubmissionId)
  BY <1>4
<1>. QED
  BY <1>3, <1>4, <1>5, <1>6, <1>7, NumbersStep

\* The user's steps, and those of the sockets.
LEMMA NumbersOfPages ==
    ASSUME NInv, NEW c \in Client,
           \/ Type(c) \/ Erase(c) \/ (\E n \in Node : Connect(c, n)) \/ LateClose(c)
    PROVE  NInv'
<1> DEFINE s == page[c]
<1>1. /\ Numbered(s)
      /\ DOMAIN up = Client /\ DOMAIN down = Client /\ DOMAIN registered = Client
      /\ \A b \in Client : UpOK(up[b], registered[b], page[b].nextSubmissionId) /\ DownOK(down[b])
  BY DEF NInv
<1>2. /\ \A x : Keeps([s EXCEPT !.editor = x], s)
      /\ \A n \in Node : Keeps(connectToServer([s EXCEPT !.server = n]), s)
      /\ Keeps(onWsClose([s EXCEPT !.closing = @ - 1]), s)
  BY <1>1, SimpleKeeps
<1>3. UNCHANGED <<docVars, pending, proposed, leader>> /\ up' = up /\ down' = down /\ registered' = registered
  BY DEF Type, Erase, Connect, LateClose, netVars
<1>4. \E t : Keeps(t, s) /\ page' = [page EXCEPT ![c] = t]
  <2>1. CASE Type(c)
    BY <1>2, <2>1 DEF Type, Update
  <2>2. CASE Erase(c)
    BY <1>2, <2>2 DEF Erase, Update
  <2>3. CASE \E n \in Node : Connect(c, n)
    BY <1>2, <2>3 DEF Connect, Update
  <2>4. CASE LateClose(c)
    BY <1>2, <2>4 DEF LateClose, Update
  <2>. QED
    BY <2>1, <2>2, <2>3, <2>4
<1>. QED
  BY <1>1, <1>3, <1>4, NumbersPage

\* CONNECT is sent.
LEMMA NumbersOfOpen ==
    ASSUME NInv, NEW c \in Client, Open(c)
    PROVE  NInv'
<1> DEFINE s == page[c]
           m == ConnectMsg(s.serverRev)
           t == [s EXCEPT !.socket = "open"]
<1>1. /\ Numbered(s)
      /\ DOMAIN up = Client /\ DOMAIN down = Client /\ DOMAIN registered = Client
      /\ \A b \in Client : UpOK(up[b], registered[b], page[b].nextSubmissionId) /\ DownOK(down[b])
  BY DEF NInv
<1>2. Keeps(t, s)
  BY <1>1, SimpleKeeps
<1>3. /\ UNCHANGED <<docVars, pending, proposed, leader>> /\ down' = down /\ registered' = registered
      /\ page' = [page EXCEPT ![c] = t]
      /\ up' = [up EXCEPT ![c] = <<m>>] \/ up' = up
  BY DEF Open, Update
<1>4. \A n : UpMsgOK(m, n) /\ m.type = "CONNECT"
  BY <1>1 DEF UpMsgOK, ConnectMsg, Numbered
<1> HIDE DEF m
<1>5. \A n, g : UpOK(<<m>>, g, n)
  BY <1>4, NothingSent
<1>6. DOMAIN up' = Client /\ \A b \in Client : UpOK(up'[b], registered'[b], page[b].nextSubmissionId) /\ DownOK(down'[b])
  BY <1>1, <1>3, <1>5
<1> HIDE DEF t
<1>. QED
  BY <1>1, <1>2, <1>3, <1>6, NumbersPage

\* A connection ends.
LEMMA NumbersOfHangup ==
    ASSUME NInv, NEW c \in Client, NEW t, page' = [page EXCEPT ![c] = t], Hangup(c),
           UNCHANGED <<docVars, pending, leader>>,
           Numbered(t), t.nextSubmissionId = page[c].nextSubmissionId
    PROVE  NInv'
<1>1. /\ DOMAIN page = Client /\ DOMAIN up = Client /\ DOMAIN down = Client /\ DOMAIN registered = Client
      /\ \A b \in Client : /\ Numbered(page[b])
                           /\ UpOK(up[b], registered[b], page[b].nextSubmissionId) /\ DownOK(down[b])
      /\ \A e \in proposed : EntryOK(e)
  BY DEF NInv
<1>2. /\ up' = [up EXCEPT ![c] = <<>>] /\ down' = [down EXCEPT ![c] = <<>>]
      /\ registered' = [registered EXCEPT ![c] = "no"]
      /\ proposed' = {IF e.client = c THEN [e EXCEPT !.waiting = FALSE] ELSE e : e \in proposed}
  BY DEF Hangup, Goto
<1>3. \A b \in Client : /\ Numbered(page'[b]) /\ page'[b].nextSubmissionId = page[b].nextSubmissionId
                        /\ page[b].nextSubmissionId \in Nat
  BY <1>1 DEF Numbered
<1>4. \A b \in Client : UpOK(up'[b], registered'[b], page'[b].nextSubmissionId) /\ DownOK(down'[b])
  <2>1. DownOK(<<>>) /\ \A n : UpOK(<<>>, "no", n)
    BY NothingSent
  <2>. QED
    BY <1>1, <1>2, <1>3, <2>1
<1>5. ASSUME NEW x \in proposed'
      PROVE  /\ {"client", "sub"} \subseteq DOMAIN x
             /\ x.client \in Client /\ x.sub \in 1..page'[x.client].nextSubmissionId
  <2>1. PICK e \in proposed : x = IF e.client = c THEN [e EXCEPT !.waiting = FALSE] ELSE e
    BY <1>2
  <2>2. /\ {"client", "sub"} \subseteq DOMAIN e
        /\ e.client \in Client /\ e.sub \in 1..page[e.client].nextSubmissionId
    BY <1>1 DEF EntryOK
  <2>3. DOMAIN x = DOMAIN e /\ x.client = e.client /\ x.sub = e.sub
    BY <2>1, <2>2
  <2>. QED
    BY <1>3, <2>2, <2>3
<1>6. /\ \A b \in Client : page[b].nextSubmissionId <= page'[b].nextSubmissionId
      /\ leader' \in Node \cup {None}
  BY <1>3 DEF NInv
<1>7. DOMAIN page' = Client /\ DOMAIN up' = Client /\ DOMAIN down' = Client /\ DOMAIN registered' = Client
  BY <1>1, <1>2
<1>. QED
  BY <1>3, <1>4, <1>5, <1>6, <1>7, NumbersStep

\* A page is redirected, loses its connection, or is loaded again.
LEMMA NumbersOfHangups ==
    ASSUME NInv, NEW c \in Client, ReceiveRedirect(c) \/ Disconnect(c) \/ Reload(c)
    PROVE  NInv'
<1> DEFINE s == page[c]
<1>1. Numbered(s) /\ DownOK(down[c])
  BY DEF NInv
<1>2. UNCHANGED <<docVars, pending, leader>> /\ Hangup(c)
  BY DEF ReceiveRedirect, Disconnect, Reload
<1>3. ASSUME NEW t, page' = [page EXCEPT ![c] = t], Keeps(t, s)
      PROVE  NInv'
  <2>1. Numbered(t) /\ t.nextSubmissionId = s.nextSubmissionId
    BY <1>1, <1>3, KeepsNumber
  <2>. QED
    BY <1>2, <1>3, <2>1, NumbersOfHangup
<1>4. CASE ReceiveRedirect(c)
  <2> DEFINE m == Head(down[c])
             n == IF m.to = None THEN s.server ELSE m.to
  <2>1. DownMsgOK(m) /\ m.type = "REDIRECT"
    BY <1>1, <1>4, DownTail DEF ReceiveRedirect
  <2>2. n \in Node
    BY <1>1, <2>1 DEF DownMsgOK, Numbered
  <2>3. page' = [page EXCEPT ![c] = handleRedirect(s, n)]
    BY <1>4 DEF ReceiveRedirect, Update
  <2> HIDE DEF n
  <2>4. Keeps(handleRedirect(s, n), s)
    BY <1>1, <2>2, SimpleKeeps
  <2>. QED
    BY <1>3, <2>3, <2>4
<1>5. CASE Disconnect(c)
  <2>1. page' = [page EXCEPT ![c] = onWsClose([s EXCEPT !.socket = "none"])]
    BY <1>5 DEF Disconnect, Update
  <2>2. Keeps(onWsClose([s EXCEPT !.socket = "none"]), s)
    BY <1>1, SimpleKeeps
  <2>. QED
    BY <1>3, <2>1, <2>2
<1>6. CASE Reload(c)
  <2> DEFINE t == NewPage(s.nextSubmissionId, s.server)
  <2>1. page' = [page EXCEPT ![c] = t]
    BY <1>6 DEF Reload, Update
  <2>2. Numbered(t) /\ t.nextSubmissionId = s.nextSubmissionId
    BY <1>1 DEF NewPage, Numbered
  <2> HIDE DEF t
  <2>. QED
    BY <1>2, <2>1, <2>2, NumbersOfHangup
<1>. QED
  BY <1>4, <1>5, <1>6

\* A message is handled.
LEMMA NumbersOfReceive ==
    ASSUME NInv, NEW c \in Client, Receive(c)
    PROVE  NInv'
<1> DEFINE s == page[c]
           m == Head(down[c])
           t == Handled(s, m)
<1>1. /\ Numbered(s)
      /\ DOMAIN up = Client /\ DOMAIN down = Client /\ DOMAIN registered = Client
      /\ \A b \in Client : UpOK(up[b], registered[b], page[b].nextSubmissionId) /\ DownOK(down[b])
  BY DEF NInv
<1>2. /\ UNCHANGED <<docVars, pending, proposed, leader>> /\ up' = up /\ registered' = registered
      /\ page' = [page EXCEPT ![c] = t]
      /\ down' = [down EXCEPT ![c] = Tail(down[c])]
      /\ down[c] # <<>> /\ m.type # "REDIRECT"
  BY DEF Receive, Update
<1>3. DownMsgOK(m) /\ DownOK(Tail(down[c]))
  BY <1>1, <1>2, DownTail
<1> HIDE DEF s, m
<1>4. Keeps(t, s)
  <2>1. CASE m.type = "CONNECT_ACK"
    <3>1. m.from \in Nat /\ m.rev \in Nat
      BY <1>3, <2>1 DEF DownMsgOK
    <3>2. Len(RevisionsBetween(m.from, m.rev)) \in Nat
      BY <3>1, CutLength
    <3>3. t = handleConnectAck(s, TextAt(m.rev), m.rev, RevisionsBetween(m.from, m.rev))
      BY <2>1 DEF Handled
    <3>. QED
      BY <1>1, <3>1, <3>2, <3>3, ConnectAckKeeps
  <2>2. CASE m.type = "ACK"
    <3>1. m.rev \in Nat /\ t = handleAck(s, m.rev)
      BY <1>3, <2>2 DEF DownMsgOK, Handled
    <3>. QED
      BY <1>1, <3>1, HandlersKeep
  <2>3. CASE m.type = "BROADCAST"
    <3>1. m.rev \in Nat /\ t = handleBroadcast(s, Sent(m.rev), m.rev)
      BY <1>3, <2>3 DEF DownMsgOK, Handled
    <3>. QED
      BY <1>1, <3>1, HandlersKeep
  <2>4. CASE m.type = "ERROR"
    BY <1>1, <2>4, SimpleKeeps DEF Handled
  <2>. QED
    BY <1>2, <1>3, <2>1, <2>2, <2>3, <2>4 DEF DownMsgOK
<1> HIDE DEF t
<1>5. /\ DOMAIN down' = Client
      /\ \A b \in Client : UpOK(up'[b], registered'[b], page[b].nextSubmissionId) /\ DownOK(down'[b])
  BY <1>1, <1>2, <1>3
<1>. QED
  BY <1>1, <1>2, <1>4, <1>5, NumbersPage DEF s

\* A submission is sent, with a new id or the id it had.
LEMMA NumbersOfSubmissions ==
    ASSUME NInv, NEW c \in Client, Tick(c) \/ Retry(c)
    PROVE  NInv'
<1> DEFINE s == page[c]
<1>1. /\ DOMAIN page = Client /\ DOMAIN up = Client /\ DOMAIN down = Client /\ DOMAIN registered = Client
      /\ \A b \in Client : /\ Numbered(page[b])
                           /\ UpOK(up[b], registered[b], page[b].nextSubmissionId) /\ DownOK(down[b])
      /\ \A e \in proposed : EntryOK(e)
      /\ leader \in Node \cup {None}
  BY DEF NInv
<1>2. PICK t : t = IF Tick(c) THEN MoveToX(s) ELSE s
  OBVIOUS
<1>3. /\ UNCHANGED <<docVars, pending>> /\ leader' = leader
      /\ down' = down /\ registered' = registered /\ proposed' = proposed
      /\ DOMAIN page' = Client /\ page'[c] = t /\ \A b \in Client \ {c} : page'[b] = page[b]
      /\ up' = [up EXCEPT ![c] = Append(up[c], SubmitMsg(t))]
  <2>1. CASE Tick(c)
    BY <1>1, <1>2, <2>1 DEF Tick, Update
  <2>2. CASE ~Tick(c)
    BY <1>1, <1>2, <2>2 DEF Retry
  <2>. QED
    BY <2>1, <2>2
<1>4. /\ Numbered(t) /\ t.nextSubmissionId # 0 /\ s.nextSubmissionId <= t.nextSubmissionId
      /\ s.nextSubmissionId \in Nat /\ t.nextSubmissionId \in Nat
  <2>1. CASE Tick(c)
    <3> DEFINE x == NewEdits(s)
               y == Identity(Len(s.editor))
    <3>1. t = [s EXCEPT !.X = x, !.Y = y, !.waitingForAck = TRUE, !.nextSubmissionId = @ + 1]
      BY <1>2, <2>1 DEF MoveToX
    <3> HIDE DEF x, y
    <3>. QED
      BY <1>1, <3>1 DEF Numbered
  <2>2. CASE ~Tick(c)
    <3>1. t = s /\ s.waitingForAck
      BY <1>2, <2>2 DEF Retry
    <3>. QED
      BY <1>1, <3>1 DEF Numbered
  <2>. QED
    BY <2>1, <2>2
<1>5. UpMsgOK(SubmitMsg(t), t.nextSubmissionId)
  BY <1>4 DEF UpMsgOK, SubmitMsg, Submission
<1>6. UpOK(Append(up[c], SubmitMsg(t)), registered[c], t.nextSubmissionId)
  <2>1. UpOK(up[c], registered[c], t.nextSubmissionId)
    BY <1>1, <1>4, UpMore
  <2>. QED
    BY <1>5, <2>1, UpAppend
<1>7. \A b \in Client : /\ Numbered(page'[b])
                        /\ page[b].nextSubmissionId <= page'[b].nextSubmissionId
                        /\ page[b].nextSubmissionId \in Nat /\ page'[b].nextSubmissionId \in Nat
                        /\ UpOK(up'[b], registered'[b], page'[b].nextSubmissionId)
                        /\ DownOK(down'[b])
  <2>1. ASSUME NEW b \in Client, b = c
        PROVE  page'[b] = t /\ up'[b] = Append(up[c], SubmitMsg(t))
    BY <1>1, <1>3, <2>1
  <2>2. ASSUME NEW b \in Client, b # c
        PROVE  page'[b] = page[b] /\ up'[b] = up[b] /\ page[b].nextSubmissionId \in Nat
    BY <1>1, <1>3, <2>2 DEF Numbered
  <2>. QED
    BY <1>1, <1>3, <1>4, <1>6, <2>1, <2>2
<1>8. \A e \in proposed' : /\ {"client", "sub"} \subseteq DOMAIN e
                           /\ e.client \in Client /\ e.sub \in 1..page'[e.client].nextSubmissionId
  BY <1>1, <1>3, <1>7 DEF EntryOK
<1>. QED
  BY <1>1, <1>3, <1>7, <1>8, NumbersStep

\* Steps of the servers that only move messages and entries.
LEMMA NumbersOfMessages ==
    ASSUME NInv, UNCHANGED <<page, docVars, pending>>, leader' \in Node \cup {None},
           DOMAIN up' = Client, DOMAIN down' = Client, DOMAIN registered' = Client,
           \A c \in Client : /\ UpOK(up'[c], registered'[c], page[c].nextSubmissionId)
                             /\ DownOK(down'[c]),
           \A e \in proposed' : EntryOK(e)
    PROVE  NInv'
<1>1. page' = page /\ DOMAIN page' = Client
  BY DEF NInv
<1>2. \A c \in Client : /\ Numbered(page'[c])
                        /\ page[c].nextSubmissionId <= page'[c].nextSubmissionId
                        /\ UpOK(up'[c], registered'[c], page'[c].nextSubmissionId)
                        /\ DownOK(down'[c])
  BY <1>1 DEF NInv, Numbered
<1>3. \A e \in proposed' : /\ {"client", "sub"} \subseteq DOMAIN e
                           /\ e.client \in Client /\ e.sub \in 1..page'[e.client].nextSubmissionId
  BY <1>1 DEF EntryOK
<1>. QED
  BY <1>1, <1>2, <1>3, NumbersStep

\* The server reads a CONNECT, ...
LEMMA NumbersOfRegister ==
    ASSUME NInv, NEW c \in Client, Register(c)
    PROVE  NInv'
<1>1. /\ DOMAIN up = Client /\ DOMAIN down = Client /\ DOMAIN registered = Client
      /\ \A b \in Client : UpOK(up[b], registered[b], page[b].nextSubmissionId) /\ DownOK(down[b])
      /\ \A e \in proposed : EntryOK(e)
      /\ leader \in Node \cup {None}
  BY DEF NInv
<1>2. /\ UNCHANGED <<page, docVars, pending, proposed, leader>> /\ up' = up /\ down' = down
      /\ registered' = [registered EXCEPT ![c] = "connecting"]
      /\ up[c] # <<>> /\ Head(up[c]).type = "CONNECT"
  BY DEF Register, Reads, Goto
<1>3. \A n : UpOK(up[c], registered[c], n) => UpOK(up[c], "connecting", n)
  BY <1>2 DEF UpOK
<1>4. \A b \in Client : UpOK(up'[b], registered'[b], page[b].nextSubmissionId) /\ DownOK(down'[b])
  BY <1>1, <1>2, <1>3
<1>5. DOMAIN registered' = Client
  BY <1>1, <1>2
<1>. QED
  BY <1>1, <1>2, <1>4, <1>5, NumbersOfMessages

\* The newest revision that a node has applied is a number.
LEMMA HeadRevIs ==
    ASSUME ResultsOK, NEW n \in Node
    PROVE  HeadRev(n) \in Nat
<1>1. IsSeq(results) /\ applied[n] \in 0..Len(results)
  BY DEF ResultsOK
<1>2. DOMAIN results = 1..Len(results) /\ Len(results) \in Nat
  BY <1>1, AppendSeq
<1>. QED
  BY <1>1, <1>2 DEF HeadRev, ResultsOK

\* ... and answers it.
LEMMA NumbersOfAnswerConnect ==
    ASSUME NInv, NEW c \in Client, AnswerConnect(c)
    PROVE  NInv'
<1> DEFINE n == page[c].server
           h == Head(up[c])
<1>1. /\ DOMAIN up = Client /\ DOMAIN down = Client /\ DOMAIN registered = Client
      /\ \A b \in Client : UpOK(up[b], registered[b], page[b].nextSubmissionId) /\ DownOK(down[b])
      /\ \A e \in proposed : EntryOK(e)
      /\ leader \in Node \cup {None}
      /\ n \in Node /\ ResultsOK
  BY DEF NInv, Numbered
<1>2. /\ UNCHANGED <<page, docVars, pending, proposed, leader>>
      /\ registered[c] = "connecting" /\ registered' = [registered EXCEPT ![c] = "yes"]
      /\ up' = [up EXCEPT ![c] = Tail(up[c])]
  BY DEF AnswerConnect, Goto
<1>3. up[c] # <<>> /\ h.type = "CONNECT"
  BY <1>1, <1>2 DEF UpOK
<1>4. UpMsgOK(h, page[c].nextSubmissionId) /\ UpOK(Tail(up[c]), "yes", page[c].nextSubmissionId)
  BY <1>1, <1>3, UpTail
<1>5. h.rev \in Nat
  BY <1>3, <1>4 DEF UpMsgOK
<1>6. HeadRev(n) \in Nat
  BY <1>1, HeadRevIs
<1>7. \E m : DownMsgOK(m) /\ down' = [down EXCEPT ![c] = Append(down[c], m)]
  <2>1. DownMsgOK(RedirectMsg(leader)) /\ DownMsgOK(ConnectAckMsg(h.rev, HeadRev(n)))
    BY <1>1, <1>5, <1>6 DEF DownMsgOK, RedirectMsg, ConnectAckMsg
  <2>. QED
    BY <2>1 DEF AnswerConnect, Reply
<1>8. PICK m : DownMsgOK(m) /\ down' = [down EXCEPT ![c] = Append(down[c], m)]
  BY <1>7
<1>9. DownOK(Append(down[c], m))
  BY <1>1, <1>8, DownAppend
<1> HIDE DEF h
<1>10. \A b \in Client : UpOK(up'[b], registered'[b], page[b].nextSubmissionId) /\ DownOK(down'[b])
  BY <1>1, <1>2, <1>4, <1>8, <1>9
<1>11. DOMAIN registered' = Client /\ DOMAIN up' = Client /\ DOMAIN down' = Client
  BY <1>1, <1>2, <1>8
<1>. QED
  BY <1>1, <1>2, <1>10, <1>11, NumbersOfMessages

\* The end of an earlier connection is noticed.
LEMMA NumbersOfRemoval ==
    ASSUME NInv, NEW c \in Client, Removal(c)
    PROVE  NInv'
<1>1. /\ DOMAIN up = Client /\ DOMAIN down = Client /\ DOMAIN registered = Client
      /\ \A b \in Client : UpOK(up[b], registered[b], page[b].nextSubmissionId) /\ DownOK(down[b])
      /\ \A e \in proposed : EntryOK(e)
      /\ leader \in Node \cup {None}
  BY DEF NInv
<1>2. /\ UNCHANGED <<page, docVars, pending, proposed, leader>> /\ up' = up /\ down' = down
      /\ registered' = [registered EXCEPT ![c] = "removed"] \/ registered' = registered
  BY DEF Removal, Goto
<1>3. \A n : UpOK(up[c], registered[c], n) => UpOK(up[c], "removed", n)
  BY DEF UpOK
<1>4. /\ DOMAIN registered' = Client
      /\ \A b \in Client : UpOK(up'[b], registered'[b], page[b].nextSubmissionId) /\ DownOK(down'[b])
  BY <1>1, <1>2, <1>3
<1>. QED
  BY <1>1, <1>2, <1>4, NumbersOfMessages

\* The server reads a submission: its entry has the submission's id.
LEMMA NumbersOfSubmit ==
    ASSUME NInv, NEW c \in Client, Submit(c)
    PROVE  NInv'
<1> DEFINE h == Head(up[c])
           m == h.submission
           entry == [client |-> c, sub |-> m.sub, base |-> m.base,
                     changeset |-> Decoded(m.changeset), waiting |-> TRUE]
<1>1. /\ DOMAIN up = Client /\ DOMAIN down = Client /\ DOMAIN registered = Client
      /\ \A b \in Client : UpOK(up[b], registered[b], page[b].nextSubmissionId) /\ DownOK(down[b])
      /\ \A e \in proposed : EntryOK(e)
      /\ leader \in Node \cup {None}
  BY DEF NInv
<1>2. /\ UNCHANGED <<page, docVars, pending, leader>> /\ registered' = registered
      /\ up' = [up EXCEPT ![c] = Tail(up[c])]
      /\ up[c] # <<>> /\ h.type = "SUBMIT"
  BY DEF Submit, Reads
<1>3. registered[c] # "connecting"
  BY <1>1, <1>2 DEF UpOK
<1>4. UpMsgOK(h, page[c].nextSubmissionId) /\ UpOK(Tail(up[c]), registered[c], page[c].nextSubmissionId)
  BY <1>1, <1>2, <1>3, UpTail
<1>5. EntryOK(entry)
  <2>1. m.sub \in 1..page[c].nextSubmissionId
    BY <1>2, <1>4 DEF UpMsgOK
  <2>2. \A x, y : \A z \in 1..page[c].nextSubmissionId :
           EntryOK([client |-> c, sub |-> z, base |-> y, changeset |-> x, waiting |-> TRUE])
    BY DEF EntryOK
  <2> HIDE DEF m
  <2>. QED
    BY <2>1, <2>2
<1>6. \/ proposed' = proposed \cup {entry} /\ down' = down
      \/ proposed' = proposed /\ \E x : DownMsgOK(x) /\ down' = [down EXCEPT ![c] = Append(down[c], x)]
  <2>1. DownMsgOK(RedirectMsg(leader)) /\ DownMsgOK([type |-> "ERROR"])
    BY <1>1 DEF DownMsgOK, RedirectMsg
  <2> DEFINE n == page[c].server
             ok == Validate(entry.changeset)
  <2>2. CASE leader # n
    <3>1. down' = [down EXCEPT ![c] = Append(@, RedirectMsg(leader))] /\ proposed' = proposed
      BY <2>2 DEF Submit, Reply
    <3>. QED
      BY <2>1, <3>1
  <2>3. CASE leader = n /\ ~ok
    <3>1. down' = [down EXCEPT ![c] = Append(@, [type |-> "ERROR"])] /\ proposed' = proposed
      BY <2>3 DEF Submit, Reply
    <3>. QED
      BY <2>1, <3>1
  <2>4. CASE leader = n /\ ok
    BY <2>4 DEF Submit
  <2>. QED
    BY <2>2, <2>3, <2>4
<1> HIDE DEF h, m, entry
<1>7. \A e \in proposed' : EntryOK(e)
  BY <1>1, <1>5, <1>6
<1>8. DOMAIN down' = Client /\ \A b \in Client : DownOK(down'[b])
  <2>1. CASE down' = down
    BY <1>1, <2>1
  <2>2. CASE \E x : DownMsgOK(x) /\ down' = [down EXCEPT ![c] = Append(down[c], x)]
    <3>1. PICK x : DownMsgOK(x) /\ down' = [down EXCEPT ![c] = Append(down[c], x)]
      BY <2>2
    <3>2. DownOK(Append(down[c], x))
      BY <1>1, <3>1, DownAppend
    <3>. QED
      BY <1>1, <3>1, <3>2
  <2>. QED
    BY <1>6, <2>1, <2>2
<1>9. \A b \in Client : UpOK(up'[b], registered'[b], page[b].nextSubmissionId)
  BY <1>1, <1>2, <1>4
<1>10. DOMAIN registered' = Client /\ DOMAIN up' = Client
  BY <1>1, <1>2
<1>. QED
  BY <1>1, <1>2, <1>7, <1>8, <1>9, <1>10, NumbersOfMessages

\* An entry is lost, or nobody waits for it; the leadership changes; nothing
\* happens.
LEMMA NumbersOfRaft ==
    ASSUME NInv,
           \/ \E e \in proposed : ProposalFails(e)
           \/ \E n \in Node \cup {None} : NewLeader(n)
           \/ UNCHANGED vars
    PROVE  NInv'
<1>1. /\ DOMAIN up = Client /\ DOMAIN down = Client /\ DOMAIN registered = Client
      /\ \A b \in Client : UpOK(up[b], registered[b], page[b].nextSubmissionId) /\ DownOK(down[b])
      /\ \A e \in proposed : EntryOK(e)
      /\ leader \in Node \cup {None}
  BY DEF NInv
<1>2. UNCHANGED <<page, docVars, pending>> /\ up' = up /\ down' = down /\ registered' = registered
  BY DEF ProposalFails, NewLeader, vars, netVars
<1>3. leader' \in Node \cup {None}
  BY <1>1 DEF ProposalFails, NewLeader, vars
<1>4. \A e \in proposed' : EntryOK(e)
  <2>1. CASE \E e \in proposed : ProposalFails(e)
    <3>1. PICK e \in proposed : ProposalFails(e)
      BY <2>1
    <3> DEFINE d == [e EXCEPT !.waiting = FALSE]
    <3>2. EntryOK(d)
      BY <1>1 DEF EntryOK
    <3>3. proposed' \in {proposed \ {e}, (proposed \ {e}) \cup {d}}
      BY <3>1 DEF ProposalFails
    <3> HIDE DEF d
    <3>. QED
      BY <1>1, <3>2, <3>3
  <2>2. CASE ~\E e \in proposed : ProposalFails(e)
    BY <1>1, <2>2 DEF NewLeader, vars
  <2>. QED
    BY <2>1, <2>2
<1>. QED
  BY <1>1, <1>2, <1>3, <1>4, NumbersOfMessages

\* Steps of the servers' documents and callbacks, that leave ids alone.
LEMMA NumbersOfServers ==
    ASSUME NInv, UNCHANGED <<page, up, registered, leader>>, proposed' \subseteq proposed,
           DOMAIN down' = Client, \A c \in Client : DownOK(down'[c]),
           LogOK', ResultsOK', \A c \in Client : OwnOK(c)'
    PROVE  NInv'
<1>1. /\ DOMAIN page = Client /\ DOMAIN up = Client /\ DOMAIN registered = Client
      /\ \A c \in Client : Numbered(page[c]) /\ UpOK(up[c], registered[c], page[c].nextSubmissionId)
      /\ \A e \in proposed : EntryOK(e)
      /\ leader \in Node \cup {None}
  BY DEF NInv
<1>2. \A c \in Client : Numbered(page[c])' /\ UpOK(up[c], registered[c], page[c].nextSubmissionId)'
  BY <1>1 DEF Numbered, UpOK, UpMsgOK, IsSeq
<1>3. \A c \in Client : DownOK(down[c])'
  BY DEF DownOK, DownMsgOK, IsSeq
<1>4. \A e \in proposed' : EntryOK(e)'
  BY <1>1 DEF EntryOK
<1>5. DOMAIN page' = Client /\ DOMAIN up' = Client /\ DOMAIN registered' = Client
      /\ leader' \in Node \cup {None}
  BY <1>1
<1>. QED
  BY <1>2, <1>3, <1>4, <1>5 DEF NInv

\* A sequence of callbacks, extended or without one.
LEMMA CallbackSeq ==
    ASSUME NEW q, IsSeq(q), \A i \in DOMAIN q : q[i].rev \in Nat
    PROVE  /\ \A x : x.rev \in Nat =>
                 IsSeq(Append(q, x)) /\ \A i \in DOMAIN Append(q, x) : Append(q, x)[i].rev \in Nat
           /\ \A i \in DOMAIN q :
                 IsSeq(RemoveAt(q, i)) /\ \A j \in DOMAIN RemoveAt(q, i) : RemoveAt(q, i)[j].rev \in Nat
<1> DEFINE S == {q[i] : i \in DOMAIN q}
<1>1. q \in Seq(S) /\ DOMAIN q = 1..Len(q) /\ Len(q) \in Nat /\ \A e \in S : e.rev \in Nat
  BY AppendSeq DEF IsSeq
<1>2. ASSUME NEW x, x.rev \in Nat
      PROVE  IsSeq(Append(q, x)) /\ \A i \in DOMAIN Append(q, x) : Append(q, x)[i].rev \in Nat
  <2>1. /\ IsSeq(Append(q, x)) /\ DOMAIN Append(q, x) = 1..Len(q) + 1
        /\ \A i \in 1..Len(q) : Append(q, x)[i] = q[i]
        /\ Append(q, x)[Len(q) + 1] = x
    BY AppendSeq
  <2>2. ASSUME NEW i \in 1..Len(q) + 1 PROVE Append(q, x)[i].rev \in Nat
    <3>1. CASE i = Len(q) + 1
      BY <1>2, <2>1, <3>1
    <3>2. CASE i # Len(q) + 1
      <4>1. i \in 1..Len(q)
        BY <1>1, <3>2
      <4>. QED
        BY <1>1, <2>1, <4>1
    <3>. QED
      BY <3>1, <3>2
  <2>. QED
    BY <2>1, <2>2
<1>3. ASSUME NEW i \in DOMAIN q
      PROVE  IsSeq(RemoveAt(q, i)) /\ \A j \in DOMAIN RemoveAt(q, i) : RemoveAt(q, i)[j].rev \in Nat
  <2> DEFINE a == SubSeq(q, 1, i - 1)
             b == SubSeq(q, i + 1, Len(q))
  <2> HIDE DEF S
  <2>1. a \in Seq(S) /\ b \in Seq(S)
    <3>1. i \in 1..Len(q) /\ \A j \in 1..Len(q) : q[j] \in S
      BY <1>1
    <3>2. \A j \in 1..i - 1 : q[j] \in S
      BY <1>1, <3>1
    <3>3. \A j \in i + 1..Len(q) : q[j] \in S
      BY <1>1, <3>1
    <3>. QED
      BY <1>1, <3>1, <3>2, <3>3, SubSeqProperties
  <2>2. RemoveAt(q, i) = a \o b
    BY DEF RemoveAt
  <2>3. a \o b \in Seq(S)
    BY <2>1, ConcatProperties
  <2> HIDE DEF a, b
  <2>4. IsSeq(a \o b)
    BY <2>3, OfSet
  <2>5. \A j \in DOMAIN (a \o b) : (a \o b)[j] \in S
    BY <2>3
  <2>. QED
    BY <1>1, <2>2, <2>4, <2>5
<1>. QED
  BY <1>2, <1>3

\* The document does not change.
LEMMA NumbersOfSameLog ==
    ASSUME NInv, fsm' = fsm, page' = page
    PROVE  LogOK' /\ \A c \in Client : OwnOK(c)'
BY DEF NInv, LogOK, OwnOK, Own, IsSeq

\* A node applies an entry that was committed.
LEMMA NumbersOfApplyNext ==
    ASSUME NInv, NEW n \in Node, ApplyNext(n)
    PROVE  NInv'
<1> DEFINE k == applied[n]
           res == results[k + 1]
<1>1. ResultsOK /\ DOMAIN down = Client /\ \A c \in Client : DownOK(down[c])
  BY DEF NInv
<1>2. /\ UNCHANGED <<page, netVars, proposed, fsm, results, leader>>
      /\ k < Len(results) /\ applied' = [applied EXCEPT ![n] = k + 1] /\ pending' = Started(n, res)
  BY DEF ApplyNext
<1>3. /\ IsSeq(results) /\ \A i \in DOMAIN results : results[i].rev \in Nat
      /\ applied \in [Node -> 0..Len(results)] /\ DOMAIN pending = Node
      /\ \A m \in Node : IsSeq(pending[m]) /\ \A i \in DOMAIN pending[m] : pending[m][i].rev \in Nat
  BY <1>1 DEF ResultsOK
<1>4. DOMAIN results = 1..Len(results) /\ Len(results) \in Nat
  BY <1>3, AppendSeq
<1>5. k + 1 \in DOMAIN results
  BY <1>2, <1>3, <1>4
<1>6. res.rev \in Nat
  BY <1>3, <1>5
<1> HIDE DEF res
<1>7. ASSUME NEW m \in Node PROVE IsSeq(pending'[m]) /\ \A i \in DOMAIN pending'[m] : pending'[m][i].rev \in Nat
  <2>1. IsSeq(Append(pending[n], res)) /\ \A i \in DOMAIN Append(pending[n], res) : Append(pending[n], res)[i].rev \in Nat
    BY <1>3, <1>6, CallbackSeq
  <2>. QED
    BY <1>2, <1>3, <2>1 DEF Started
<1>8. DOMAIN pending' = Node
  BY <1>2, <1>3 DEF Started
<1>9. applied' \in [Node -> 0..Len(results)]
  BY <1>2, <1>3, <1>4
<1>10. ResultsOK'
  BY <1>2, <1>3, <1>7, <1>8, <1>9 DEF ResultsOK, IsSeq
<1>11. /\ fsm' = fsm /\ page' = page /\ up' = up /\ registered' = registered /\ leader' = leader
       /\ proposed' = proposed /\ down' = down
  BY <1>2 DEF netVars
<1>. QED
  BY <1>1, <1>10, <1>11, NumbersOfSameLog, NumbersOfServers

\* A node restarts.
LEMMA NumbersOfRestart ==
    ASSUME NInv, NEW n \in Node, Restart(n)
    PROVE  NInv'
<1>1. ResultsOK /\ DOMAIN down = Client /\ \A c \in Client : DownOK(down[c])
  BY DEF NInv
<1>2. /\ UNCHANGED <<page, up, down, registered, proposed, fsm, results, leader>>
      /\ \E i \in 0..applied[n] : applied' = [applied EXCEPT ![n] = i]
      /\ pending' = [pending EXCEPT ![n] = <<>>]
  BY DEF Restart
<1>3. /\ IsSeq(results) /\ \A i \in DOMAIN results : results[i].rev \in Nat
      /\ applied \in [Node -> 0..Len(results)] /\ DOMAIN pending = Node
      /\ \A m \in Node : IsSeq(pending[m]) /\ \A i \in DOMAIN pending[m] : pending[m][i].rev \in Nat
  BY <1>1 DEF ResultsOK
<1>4. Len(results) \in Nat
  BY <1>3, AppendSeq
<1>5. IsSeq(<<>>) /\ DOMAIN <<>> = {}
  BY EmptySeq DEF IsSeq
<1>6. DOMAIN pending' = Node /\ \A m \in Node : IsSeq(pending'[m]) /\ \A i \in DOMAIN pending'[m] : pending'[m][i].rev \in Nat
  BY <1>2, <1>3, <1>5
<1>7. applied' \in [Node -> 0..Len(results)]
  BY <1>2, <1>3, <1>4
<1>8. ResultsOK'
  <2>1. results' = results /\ IsSeq(results)'
    BY <1>2, <1>3 DEF IsSeq
  <2>. QED
    BY <1>3, <1>6, <1>7, <2>1 DEF ResultsOK, IsSeq
<1>9. /\ fsm' = fsm /\ page' = page /\ up' = up /\ registered' = registered /\ leader' = leader
      /\ proposed' = proposed /\ down' = down
  BY <1>2
<1>. QED
  BY <1>1, <1>8, <1>9, NumbersOfSameLog, NumbersOfServers

\* What a callback sends.
LEMMA DeliveryOK ==
    ASSUME \A c \in Client : DownOK(down[c]), NEW res, res.rev \in Nat, NEW n, NEW dropped
    PROVE  DOMAIN Delivery(res, n, dropped) = Client
           /\ \A c \in Client : DownOK(Delivery(res, n, dropped)[c])
<1>1. DownMsgOK(AckMsg(res.rev)) /\ DownMsgOK(BroadcastMsg(res.rev))
  BY DEF DownMsgOK, AckMsg, BroadcastMsg
<1>2. ASSUME NEW c \in Client PROVE DownOK(Delivery(res, n, dropped)[c])
  <2>1. DownOK(Append(down[c], AckMsg(res.rev))) /\ DownOK(Append(down[c], BroadcastMsg(res.rev)))
    BY <1>1, DownAppend
  <2>2. Delivery(res, n, dropped)[c] \in
            {Append(down[c], AckMsg(res.rev)), Append(down[c], BroadcastMsg(res.rev)), down[c]}
    BY DEF Delivery
  <2>. QED
    BY <2>1, <2>2
<1>. QED
  BY <1>2 DEF Delivery

\* A callback runs, in whatever order, and may drop a message.
LEMMA NumbersOfCallback ==
    ASSUME NInv, NEW n \in Node, Callback(n)
    PROVE  NInv'
<1>1. ResultsOK /\ DOMAIN down = Client /\ \A c \in Client : DownOK(down[c])
  BY DEF NInv
<1>2. PICK i \in DOMAIN pending[n] :
         /\ pending' = [pending EXCEPT ![n] = RemoveAt(pending[n], i)]
         /\ \E dropped : down' = Delivery(pending[n][i], n, dropped)
  BY DEF Callback
<1>3. UNCHANGED <<page, up, registered, proposed, docVars, leader>>
  BY DEF Callback
<1>4. /\ IsSeq(results) /\ \A j \in DOMAIN results : results[j].rev \in Nat
      /\ applied \in [Node -> 0..Len(results)] /\ DOMAIN pending = Node
      /\ \A m \in Node : IsSeq(pending[m]) /\ \A j \in DOMAIN pending[m] : pending[m][j].rev \in Nat
  BY <1>1 DEF ResultsOK
<1>5. pending[n][i].rev \in Nat
  BY <1>2, <1>4
<1>6. DOMAIN down' = Client /\ \A c \in Client : DownOK(down'[c])
  BY <1>1, <1>2, <1>5, DeliveryOK
<1>7. /\ DOMAIN pending' = Node
      /\ \A m \in Node : IsSeq(pending'[m]) /\ \A j \in DOMAIN pending'[m] : pending'[m][j].rev \in Nat
  <2>1. LET q == RemoveAt(pending[n], i) IN IsSeq(q) /\ \A j \in DOMAIN q : q[j].rev \in Nat
    BY <1>2, <1>4, CallbackSeq
  <2>. QED
    BY <1>2, <1>4, <2>1
<1>8. ResultsOK'
  BY <1>3, <1>4, <1>7 DEF ResultsOK, IsSeq, docVars
<1>9. fsm' = fsm /\ page' = page
  BY <1>3 DEF docVars
<1>. QED
  BY <1>3, <1>6, <1>8, <1>9, NumbersOfSameLog, NumbersOfServers

\* A revision more: its author's submission is new.
LEMMA OwnGrows ==
    ASSUME NInv, NEW e \in proposed, ~IsDuplicate(fsm, e), NEW C,
           fsm' = Accept(fsm, e, C), page' = page
    PROVE  LogOK' /\ \A c \in Client : OwnOK(c)'
<1> DEFINE q == fsm.revisionLog
           x == RevisionRecord(fsm, e, C)
           k == Len(q) + 1
           last == fsm.clientLastSubmission
<1>1. /\ EntryOK(e) /\ LogOK
      /\ \A c \in Client : OwnOK(c) /\ page[c].nextSubmissionId \in Nat
  BY DEF NInv, Numbered
<1>2. e.client \in Client /\ e.sub \in 1..page[e.client].nextSubmissionId
  BY <1>1 DEF EntryOK
<1>3. IsSeq(q) /\ fsm.headRev \in Nat /\ last \in [Client -> Int]
  BY <1>1 DEF LogOK
<1>4. /\ fsm'.revisionLog = Append(q, x) /\ fsm'.headRev = fsm.headRev + 1
      /\ fsm'.clientLastSubmission = [last EXCEPT ![e.client] = e.sub]
  BY DEF Accept
<1>5. x.source = e.client
  BY DEF RevisionRecord
<1> HIDE DEF q, x, last
<1>6. /\ IsSeq(Append(q, x)) /\ Len(q) \in Nat /\ DOMAIN q = 1..Len(q)
      /\ DOMAIN Append(q, x) = 1..k
      /\ \A i \in 1..Len(q) : Append(q, x)[i] = q[i]
      /\ Append(q, x)[k] = x
  BY <1>3, AppendSeq
<1>7. e.sub \in Int
  BY <1>1, <1>2
<1>8. LogOK'
  <2>1. IsSeq(fsm.revisionLog)'
    BY <1>4, <1>6, SMTT(40) DEF IsSeq
  <2>2. (fsm.clientLastSubmission \in [Client -> Int])'
    BY <1>3, <1>4, <1>7
  <2>3. (fsm.headRev \in Nat)'
    BY <1>3, <1>4
  <2>. QED
    BY <2>1, <2>2, <2>3 DEF LogOK
<1>9. ASSUME NEW c \in Client PROVE OwnOK(c)'
  <2>1. /\ last[c] <= page[c].nextSubmissionId /\ last[c] \in Int
        /\ IsFiniteSet(Own(c)) /\ Cardinality(Own(c)) \in Nat
        /\ Cardinality(Own(c)) = 0 \/ Cardinality(Own(c)) <= last[c]
    BY <1>1, <1>3 DEF OwnOK, last
  <2>2. Own(c) = {i \in 1..Len(q) : q[i].source = c}
    BY <1>6 DEF Own, q
  <2>3. Own(c)' = {i \in 1..k : Append(q, x)[i].source = c}
    BY <1>4, <1>6 DEF Own
  <2>4. CASE c = e.client
    <3>1. Own(c)' = Own(c) \cup {k} /\ k \notin Own(c)
      BY <1>5, <1>6, <2>2, <2>3, <2>4
    <3>2. IsFiniteSet(Own(c) \cup {k}) /\ Cardinality(Own(c) \cup {k}) = Cardinality(Own(c)) + 1
      BY <2>1, <3>1, FS_AddElement
    <3>3. last[c] = -1 \/ ~(e.sub <= last[c])
      BY <2>4 DEF IsDuplicate, Unseen, last
    <3>4. Cardinality(Own(c)) + 1 <= e.sub
      BY <1>1, <1>2, <2>1, <2>4, <3>3
    <3>5. fsm'.clientLastSubmission[c] = e.sub /\ e.sub <= page[c].nextSubmissionId
      BY <1>1, <1>2, <1>3, <1>4, <2>4
    <3>. QED
      BY <2>1, <3>1, <3>2, <3>4, <3>5 DEF OwnOK
  <2>5. CASE c # e.client
    <3>1. Own(c)' = Own(c)
      BY <1>5, <1>6, <2>2, <2>3, <2>5
    <3>2. fsm'.clientLastSubmission[c] = last[c]
      BY <1>3, <1>4, <2>5
    <3>. QED
      BY <2>1, <3>1, <3>2 DEF OwnOK
  <2>. QED
    BY <2>4, <2>5
<1>. QED
  BY <1>8, <1>9

\* An entry is committed: applied, a duplicate, or failed.
LEMMA NumbersOfCommit ==
    ASSUME NInv, NEW e \in proposed, Commit(e)
    PROVE  NInv'
<1> DEFINE s == ApplyEntry(fsm, e)
           outcome == Outcome(fsm, e)
           res == [client |-> e.client, rev |-> s.headRev, outcome |-> outcome]
<1>1. /\ ResultsOK /\ LogOK /\ DOMAIN down = Client /\ \A c \in Client : DownOK(down[c])
      /\ leader \in Node \cup {None}
  BY DEF NInv
<1>2. /\ leader # None /\ applied[leader] = Len(results)
      /\ proposed' = proposed \ {e} /\ fsm' = s /\ results' = Append(results, res)
      /\ applied' = [applied EXCEPT ![leader] = @ + 1]
      /\ pending' = Started(leader, res)
      /\ UNCHANGED <<page, netVars, leader>>
  BY DEF Commit
<1>3. leader \in Node
  BY <1>1, <1>2
<1>4. LogOK' /\ \A c \in Client : OwnOK(c)'
  <2>1. page' = page
    BY <1>2
  <2>2. CASE outcome = "applied"
    <3>1. ~IsDuplicate(fsm, e)
      BY <2>2 DEF Outcome
    <3>2. s = Accept(fsm, e, Transformed(fsm, e))
      BY <2>2 DEF ApplyEntry
    <3>. QED
      BY <1>2, <2>1, <3>1, <3>2, OwnGrows
  <2>3. CASE outcome # "applied"
    BY <1>2, <2>1, <2>3, NumbersOfSameLog DEF ApplyEntry
  <2>. QED
    BY <2>2, <2>3
<1>5. res.rev \in Nat
  <2>1. s.headRev \in Nat
    BY <1>2, <1>4 DEF LogOK
  <2> HIDE DEF s, outcome
  <2>. QED
    BY <2>1
<1> HIDE DEF res, s
<1>6. /\ IsSeq(results) /\ \A i \in DOMAIN results : results[i].rev \in Nat
      /\ applied \in [Node -> 0..Len(results)] /\ DOMAIN pending = Node
      /\ \A m \in Node : IsSeq(pending[m]) /\ \A i \in DOMAIN pending[m] : pending[m][i].rev \in Nat
  BY <1>1 DEF ResultsOK
<1>7. /\ IsSeq(Append(results, res)) /\ \A i \in DOMAIN Append(results, res) : Append(results, res)[i].rev \in Nat
      /\ Len(Append(results, res)) = Len(results) + 1 /\ Len(results) \in Nat
  BY <1>5, <1>6, CallbackSeq, AppendSeq
<1>8. DOMAIN pending' = Node /\ \A m \in Node : IsSeq(pending'[m]) /\ \A i \in DOMAIN pending'[m] : pending'[m][i].rev \in Nat
  <2>1. LET q == Append(pending[leader], res) IN IsSeq(q) /\ \A i \in DOMAIN q : q[i].rev \in Nat
    BY <1>3, <1>5, <1>6, CallbackSeq
  <2>. QED
    BY <1>2, <1>3, <1>6, <2>1 DEF Started
<1>9. applied' \in [Node -> 0..Len(results) + 1]
  BY <1>2, <1>3, <1>6, <1>7
<1>10. ResultsOK'
  <2>1. IsSeq(results)' /\ (\A i \in DOMAIN results : results[i].rev \in Nat)' /\ Len(results)' = Len(results) + 1
    BY <1>2, <1>7 DEF IsSeq
  <2>. QED
    BY <1>8, <1>9, <2>1 DEF ResultsOK, IsSeq
<1>11. /\ page' = page /\ up' = up /\ registered' = registered /\ leader' = leader
       /\ proposed' \subseteq proposed /\ down' = down
  BY <1>2 DEF netVars
<1>. QED
  BY <1>1, <1>4, <1>10, <1>11, NumbersOfServers

\* At first no id is given out.
LEMMA NumbersInit ==
    ASSUME Init
    PROVE  NInv
<1>1. IsSeq(<<>>) /\ DOMAIN <<>> = {}
  BY EmptySeq DEF IsSeq
<1>2. /\ leader \in Node /\ proposed = {} /\ results = <<>>
      /\ page = [c \in Client |-> NewPage(0, leader)]
      /\ up = [c \in Client |-> <<>>] /\ down = [c \in Client |-> <<>>]
      /\ registered = [c \in Client |-> "no"]
      /\ applied = [n \in Node |-> 0] /\ pending = [n \in Node |-> <<>>]
  BY DEF Init
<1>3. /\ fsm.revisionLog = <<>> /\ fsm.headRev = 0
      /\ fsm.clientLastSubmission = [c \in Client |-> -1]
  BY DEF Init, NewDocumentStateMachine, Unseen
<1>4. Numbered(NewPage(0, leader)) /\ NewPage(0, leader).nextSubmissionId = 0
  BY <1>2 DEF Numbered, NewPage
<1>5. ASSUME NEW c \in Client PROVE OwnOK(c)
  <2>1. Own(c) = {}
    BY <1>1, <1>3 DEF Own
  <2>2. IsFiniteSet(Own(c)) /\ Cardinality(Own(c)) = 0
    BY <2>1, FS_EmptySet
  <2>. QED
    BY <1>2, <1>3, <1>4, <2>2 DEF OwnOK
<1>6. LogOK
  BY <1>1, <1>3 DEF LogOK
<1>7. ResultsOK
  <2>1. Len(<<>>) = 0
    BY EmptySeq
  <2>. QED
    BY <1>1, <1>2, <2>1 DEF ResultsOK
<1> DEFINE t == NewPage(0, leader)
<1> HIDE DEF t
<1>8. \A c \in Client : Numbered(page[c]) /\ UpOK(up[c], registered[c], page[c].nextSubmissionId) /\ DownOK(down[c])
  BY <1>2, <1>4, NothingSent DEF t
<1>. QED
  BY <1>2, <1>5, <1>6, <1>7, <1>8 DEF NInv

\* Every step keeps the invariant of the ids.
LEMMA NumbersNext ==
    ASSUME NInv, [Next]_vars
    PROVE  NInv'
<1>1. CASE Users
  BY <1>1, NumbersOfPages DEF Users
<1>2. CASE Pages
  BY <1>2, NumbersOfPages, NumbersOfOpen, NumbersOfReceive, NumbersOfHangups, NumbersOfSubmissions DEF Pages
<1>3. CASE Servers
  BY <1>3, NumbersOfRegister, NumbersOfAnswerConnect, NumbersOfRemoval, NumbersOfSubmit, NumbersOfCommit,
     NumbersOfApplyNext, NumbersOfCallback DEF Servers
<1>4. CASE Faulty
  BY <1>4, NumbersOfHangups, NumbersOfRaft, NumbersOfRestart DEF Faulty
<1>5. CASE UNCHANGED vars
  BY <1>5, NumbersOfRaft
<1>. QED
  BY <1>1, <1>2, <1>3, <1>4, <1>5 DEF Next

\* The ids that a client has given out bound the submissions applied for it, and
\* its revisions.
LEMMA NumbersHold ==
    ASSUME NInv
    PROVE  NewSubmissionIsNew
<1>1. ASSUME NEW c \in Client
      PROVE  /\ fsm.clientLastSubmission[c] <= page[c].nextSubmissionId
             /\ Cardinality(Own(c)) <= page[c].nextSubmissionId
  <2>1. OwnOK(c) /\ page[c].nextSubmissionId \in Nat /\ fsm.clientLastSubmission[c] \in Int
    BY DEF NInv, Numbered, LogOK
  <2>. QED
    BY <2>1 DEF OwnOK
<1>. QED
  BY <1>1 DEF NewSubmissionIsNew, Own

\* Whatever is lost, delayed, sent again or applied again (Races is any set), and
\* also when the page is loaded again with the id it had kept in localStorage: the
\* guard of FSM.Apply never takes a new submission of a client for one it has
\* seen, and applies no submission twice.
THEOREM NewSubmissionsAreNew == Spec => []NewSubmissionIsNew
<1>1. Init => NInv
  BY NumbersInit
<1>2. NInv /\ [Next]_vars => NInv'
  BY NumbersNext
<1>3. NInv => NewSubmissionIsNew
  BY NumbersHold
<1>. QED
  BY <1>1, <1>2, <1>3, PTL DEF Spec

===============================================================================
