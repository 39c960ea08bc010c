---------------------------- MODULE SharedDocument ----------------------------
(***************************************************************************)
(* What the servers promise together: one document, edited by one author   *)
(* after another.  Each submission makes at most one revision, and an      *)
(* author's submissions make theirs in order.  A server shows some         *)
(* revision, not always the newest; two that show the same revision show   *)
(* the same text.  There is no log here, no rebasing and no snapshot; how  *)
(* an edit turns into the text of its revision is left open.               *)
(*                                                                         *)
(* ReplicatedDocument implements this.                                     *)
(***************************************************************************)
EXTENDS Integers, Sequences

CONSTANTS
    Server,
    Author,
    Id          \* the submission ids, integers

VARIABLES
    revisions,  \* the document's revisions, with the text each made
    shown       \* shown[n]: the revision that server n shows, and its text

vars == <<revisions, shown>>

TextOf(r) == IF r = 0 THEN <<>> ELSE revisions[r].text

Init ==
    /\ revisions = <<>>
    /\ shown = [n \in Server |-> [rev |-> 0, text |-> <<>>]]

\* A submission makes the next revision, on a server that shows the newest; its
\* text is what that server shows then.
Publish(n, a, sub) ==
    LET text == shown'[n].text IN
    /\ shown[n].rev = Len(revisions)
    /\ \A r \in DOMAIN revisions : revisions[r].author = a => revisions[r].sub < sub
    /\ revisions' = Append(revisions, [author |-> a, sub |-> sub, text |-> text])
    /\ shown' = [shown EXCEPT ![n] = [rev |-> Len(revisions) + 1, text |-> text]]

\* A server catches up, or falls back.
Show(n, r) ==
    /\ shown' = [shown EXCEPT ![n] = [rev |-> r, text |-> TextOf(r)]]
    /\ UNCHANGED revisions

Next ==
    \E n \in Server :
        \/ \E a \in Author, sub \in Id : Publish(n, a, sub)
        \/ \E r \in 0..Len(revisions) : Show(n, r)

Spec == Init /\ [][Next]_vars

===============================================================================
