----------------------------- MODULE EditorClient -----------------------------
(***************************************************************************)
(* The editor in the browser (web/client.js), as the pure functions its    *)
(* event handlers compute: the global `state`, the text area and the       *)
(* sockets are one record, and a handler maps records to records.  An      *)
(* exception that a handler catches, or that ends it, is a condition on    *)
(* the record.  Of client.js's own port of the algebra (ClientChangesets), *)
(* applyChangeset and isIdentity are used as they are; compose, follow and *)
(* diffToChangeset are those of Changesets, which compute the same         *)
(* (MirrorsGo in ConcurrentEdits).                                         *)
(***************************************************************************)
EXTENDS ClientChangesets

\* A changeset that cannot be read: reading a variable before the first
\* CONNECT_ACK throws, and so does reading a changeset whose ops came as null.
Null == [old_len |-> -1, new_len |-> -1, ops |-> <<>>]

-------------------------------------------------------------------------------
(* The record.                                                             *)

\* editor: the text in the text area;
\* active: the text area is enabled and the submit timer runs;
\* server: the address in the server input;
\* socket: the newest socket: none, none but a timer to open one ("redirected"),
\* opening, or open;
\* ws: whether the variable ws holds that socket, or null;
\* closing: how many earlier sockets have a close event to come.
\* (Mutant: the submission id is not kept in the browser's storage.)
NewPageForgets(nextSubmissionId, server) ==
    [A |-> Null, X |-> Null, Y |-> Null, serverRev |-> 0,
     nextSubmissionId |-> 0, waitingForAck |-> FALSE,
     baseText |-> <<>>, editor |-> <<>>, active |-> FALSE,
     server |-> server, socket |-> "none", ws |-> FALSE, closing |-> 0]
NewPage(nextSubmissionId, server) ==
    [A |-> Null, X |-> Null, Y |-> Null, serverRev |-> 0,
     nextSubmissionId |-> nextSubmissionId, waitingForAck |-> FALSE,
     baseText |-> <<>>, editor |-> <<>>, active |-> FALSE,
     server |-> server, socket |-> "none", ws |-> FALSE, closing |-> 0]

Merges(s) ==
    /\ ~Throws(s.baseText, s.X)
    /\ ~Throws(applyChangeset(s.baseText, s.X), s.Y)

Merged(s) == applyChangeset(applyChangeset(s.baseText, s.X), s.Y)

-------------------------------------------------------------------------------
(* Messages.                                                               *)

\* One revision of the catch-up: baseText, then X, then Y by the new X.  One that
\* cannot be read or applied changes nothing.
\* (Mutant: the base text is not caught up.)
CatchUpIdle(s, C) == s
CatchUpOne(s, C) ==
    LET X == Follow(C, s.X) IN
    IF C = Null \/ Throws(s.baseText, C) THEN s
    ELSE [s EXCEPT !.baseText = applyChangeset(@, C),
                   !.X = X,
                   !.Y = Follow(Follow(X, C), @)]

\* The document of a CONNECT_ACK: taken over at revision 0, caught up to else.
Reconnected(s, headText, headRev, catchUp) ==
    IF s.serverRev = 0
    THEN [s EXCEPT !.baseText = headText, !.serverRev = headRev]
    ELSE LET caught[i \in 0..Len(catchUp)] ==
               IF i = 0 THEN s ELSE CatchUpOne(caught[i - 1], catchUp[i])
         IN  [caught[Len(catchUp)] EXCEPT !.serverRev = headRev]

handleConnectAck(s, headText, headRev, catchUp) ==
    LET t == Reconnected(s, headText, headRev, catchUp)
        none == Identity(Len(t.baseText))
        shown == IF Merges(t) THEN [t EXCEPT !.editor = Merged(t)]
                 ELSE [t EXCEPT !.editor = t.baseText, !.X = none, !.Y = none]
    IN  [shown EXCEPT !.A = TextToChangeset(t.baseText), !.active = TRUE]

\* The acknowledged X becomes part of A.  Before the first CONNECT_ACK the
\* handler ends in an exception.
\* (Mutant: serverRev is left to the broadcasts.)
handleAckKeepsRev(s, newRev) ==
    LET A == Compose(s.A, s.X) IN
    IF s.A = Null THEN s
    ELSE [s EXCEPT !.A = A, !.X = Identity(A.new_len),
                   !.waitingForAck = FALSE, !.baseText = applyChangeset(<<>>, A)]
handleAck(s, newRev) ==
    LET A == Compose(s.A, s.X) IN
    IF s.A = Null THEN s
    ELSE [s EXCEPT !.A = A, !.X = Identity(A.new_len), !.serverRev = newRev,
                   !.waitingForAck = FALSE, !.baseText = applyChangeset(<<>>, A)]

\* Another user's B: Y is first brought up to date with the text area, then A,
\* X, Y and the screen are rebased.  An exception leaves all as it was, serverRev
\* too: also that of reading B.ops.length, which no handler catches.
\* (Mutants: X becomes what B is after it; Y rebased by B itself; Y not brought
\* up to date.)
BroadcastRebaseCrossed(s, B, Y, XfollowB) ==
    [s EXCEPT !.X = XfollowB, !.Y = Follow(XfollowB, Y)]
BroadcastRebaseByB(s, B, Y, XfollowB) ==
    [s EXCEPT !.X = Follow(B, @), !.Y = Follow(B, Y)]
BroadcastRebase(s, B, Y, XfollowB) ==
    [s EXCEPT !.X = Follow(B, @), !.Y = Follow(XfollowB, Y)]
LocalEditsStale(s) == s.Y
LocalEdits(s) == DiffToChangeset(applyChangeset(s.baseText, s.X), s.editor)
handleBroadcast(s, B, newRev) ==
    LET Y == LocalEdits(s)
        XfollowB == Follow(s.X, B)
        A == Compose(s.A, B)
    IN  IF B = Null \/ Throws(s.baseText, s.X) THEN s
        ELSE [BroadcastRebase(s, B, Y, XfollowB) EXCEPT
                !.A = A, !.serverRev = newRev,
                !.editor = applyChangeset(s.editor, Follow(Y, XfollowB)),
                !.baseText = applyChangeset(<<>>, A)]

\* REDIRECT: the socket is closed, its close event comes later, and in 500 ms
\* connectToServer is called for the new address.
\* (Mutant: the address stays what it was.)
handleRedirectStays(s, server) ==
    [s EXCEPT !.socket = "redirected", !.closing = @ + 1]
handleRedirect(s, server) ==
    [s EXCEPT !.server = server, !.socket = "redirected", !.closing = @ + 1]

-------------------------------------------------------------------------------
(* The submit loop.                                                        *)

\* submitTick does nothing without an open socket.
MayTick(s) == s.active /\ s.ws /\ s.socket = "open"

\* It computes Y from the text area, and moves it to X if it changes anything.
NewEdits(s) ==
    DiffToChangeset(IF isIdentity(s.X) \/ Throws(s.baseText, s.X) THEN s.baseText
                    ELSE applyChangeset(s.baseText, s.X), s.editor)

\* (Mutant: the id stays that of the last submission.)
MoveToXSameId(s) ==
    [s EXCEPT !.X = NewEdits(s), !.Y = Identity(Len(s.editor)), !.waitingForAck = TRUE]
MoveToX(s) ==
    [s EXCEPT !.X = NewEdits(s), !.Y = Identity(Len(s.editor)),
              !.waitingForAck = TRUE, !.nextSubmissionId = @ + 1]

\* The SUBMIT that sendSubmit sends.
Submission(s) == [sub |-> s.nextSubmissionId, base |-> s.serverRev, changeset |-> s.X]

-------------------------------------------------------------------------------
(* Sockets.                                                                *)

connectToServer(s) == [s EXCEPT !.socket = "opening", !.ws = TRUE]

\* The close event of any socket, the newest or an earlier one.
\* (Mutant: the timer and the text area are left as they are.)
onWsCloseKeepsTimer(s) == [s EXCEPT !.ws = FALSE]
onWsClose(s) == [s EXCEPT !.ws = FALSE, !.active = FALSE]

===============================================================================
