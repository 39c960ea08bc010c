---------------------------- MODULE ConcurrentEdits ----------------------------
(***************************************************************************)
(* The changeset algebra at work: two sites hold an edit each of the same  *)
(* document; one edit after the other is committed, and the other site's   *)
(* edit is rebased on it with Follow.  This is the life of every changeset *)
(* in the editor - diffed by a client, rebased by the state machine or by  *)
(* the other clients, applied, composed into a client's A - with the       *)
(* servers taken away.  The properties are those the tests of internal/ot  *)
(* sample, over every text and edit up to a bound, and over the changesets *)
(* that only repeated rebasing produces.                                   *)
(***************************************************************************)
EXTENDS FiniteSets, ClientChangesets, ChangesetForms

CONSTANTS
    Char,      \* the characters that are typed
    MaxLen     \* bound: the length of a document

ASSUME EditsAssumption == Char \subseteq Nat /\ MaxLen \in Nat

VARIABLES
    doc,       \* the document, as committed so far
    pending,   \* pending[s]: the edit of doc that site s has not committed
    total      \* the composition of all commits: the state A of client.js

vars == <<doc, pending, total>>

Site == {1, 2}
Other(s) == 3 - s

Documents == UNION {[1..k -> Char] : k \in 0..MaxLen}

Init ==
    /\ doc = <<>>
    /\ pending = [s \in Site |-> Identity(0)]
    /\ total = TextToChangeset(<<>>)

\* A user leaves the text t in the editor of site s (the pending edit is the
\* difference from the document, however many keystrokes made it).
Edit(s, t) ==
    /\ pending' = [pending EXCEPT ![s] = DiffToChangeset(doc, t)]
    /\ UNCHANGED <<doc, total>>

\* The edits the constructors of changeset.go make, for a site that has none.
TypeAt(s, pos, text) ==
    /\ IsIdentity(pending[s])
    /\ pending' = [pending EXCEPT ![s] = MakeInsert(Len(doc), pos, text)]
    /\ UNCHANGED <<doc, total>>

EraseAt(s, pos, count) ==
    /\ IsIdentity(pending[s])
    /\ pending' = [pending EXCEPT ![s] = MakeDelete(Len(doc), pos, count)]
    /\ UNCHANGED <<doc, total>>

\* The edit of s is committed, and the other site rebases its own on it.
Commit(s) ==
    LET new == ApplyChangeset(doc, pending[s]) IN
    /\ ~IsIdentity(pending[s])
    /\ Len(new) <= MaxLen
    /\ doc' = new
    /\ pending' = [i \in Site |-> IF i = s THEN Identity(Len(new))
                                  ELSE Follow(pending[s], pending[i])]
    /\ total' = Compose(total, pending[s])

Next ==
    \/ \E s \in Site, t \in Documents : Edit(s, t)
    \/ \E s \in Site, pos \in 0..Len(doc), ch \in Char : TypeAt(s, pos, <<ch>>)
    \/ \E s \in Site, pos \in 0..Len(doc) - 1 :
          \E count \in 1..Len(doc) - pos : EraseAt(s, pos, count)
    \/ \E s \in Site : Commit(s)

Spec == Init /\ [][Next]_vars

-------------------------------------------------------------------------------
\* The document and the pending edits have their types.
TypeOK ==
    /\ doc \in Documents
    /\ pending \in [Site -> Changeset]
    /\ total \in Changeset

\* A pending edit, however often it was rebased, passes the server's Validate
\* and fits the document it is pending on (handleSubmit and Apply accept it).
PendingIsValid ==
    \A s \in Site : Validate(pending[s]) /\ Applicable(doc, pending[s])

\* However often they are rebased and composed, the changesets stay in the form
\* that addOp gives, for the text they are of and with no character nobody
\* typed: IsIdentity and the comparisons of A with one insertion rely on it.
FormIsKept ==
    /\ \A s \in Site : /\ Suits(doc, pending[s])
                       /\ pending[s].ops \in Seq(OpsOver(Char))
    /\ Suits(<<>>, total)

\* Follow-equivalence (the critical invariant of ot_test.go): both sites reach
\* the same text, whichever edit is applied first.
Converges ==
    LET A == pending[1]
        B == pending[2]
    IN  ApplyChangeset(ApplyChangeset(doc, A), Follow(A, B))
            = ApplyChangeset(ApplyChangeset(doc, B), Follow(B, A))

\* The gap before source character g + 1 gets this text from changeset c.
InsertedAt(c, g) ==
    LET at == {i \in DOMAIN c.ops : /\ c.ops[i].op = "insert"
                                    /\ Consumed(SubSeq(c.ops, 1, i - 1)) = g}
    IN  IF at = {} THEN <<>> ELSE c.ops[CHOOSE i \in at : TRUE].chars

Deletes(c, g) ==
    \E i \in DOMAIN c.ops :
        /\ c.ops[i].op = "delete"
        /\ g \in Consumed(SubSeq(c.ops, 1, i - 1)) + 1 .. Consumed(SubSeq(c.ops, 1, i))

\* What the merge of two edits is, gap by gap: in each gap the two inserted
\* texts in lexicographic order, then the source character unless one of the
\* edits deletes it.
MergedGap(A, B, g) ==
    LET a == InsertedAt(A, g)
        b == InsertedAt(B, g)
    IN  (IF LexLeq(a, b) THEN a \o b ELSE b \o a)
            \o (IF g < Len(doc) /\ ~Deletes(A, g + 1) /\ ~Deletes(B, g + 1)
                THEN <<doc[g + 1]>> ELSE <<>>)

Merged(A, B) ==
    LET from[g \in 0..Len(doc)] ==
          MergedGap(A, B, g) \o (IF g = Len(doc) THEN <<>> ELSE from[g + 1])
    IN  from[0]

\* Intention is preserved: after A, the rebased B inserts all B inserts, deletes
\* what B deletes and A left, and nothing else (the table heading follow.go).
FollowIsMerge ==
    ApplyChangeset(ApplyChangeset(doc, pending[1]), Follow(pending[1], pending[2]))
        = Merged(pending[1], pending[2])

\* Rebasing "no change" gives "no change" again in the one form IsIdentity
\* recognises: a client with nothing pending must not submit after a broadcast.
IdentityStaysIdentity ==
    \A s \in Site : IsIdentity(Follow(pending[s], Identity(Len(doc))))

\* Compose(A, B) is A and then B (compose.go), whether B is the other site's edit
\* rebased on A or the next edit of A's own author, which may take back part of
\* A; and it is itself a changeset the server would accept.
ComposeIsSequential ==
    LET A == pending[1]
        mid == ApplyChangeset(doc, A)
        next == {DiffToChangeset(mid, t) : t \in Documents}
    IN  \A B \in next \cup {Follow(A, pending[2])} :
            LET C == Compose(A, B) IN
            /\ Validate(C) /\ Applicable(doc, C)
            /\ ApplyChangeset(doc, C) = ApplyChangeset(mid, B)

\* Composing every commit from the empty text leaves A in the very form that
\* handleConnectAck builds from the text: one insertion of the whole document.
TotalIsOneInsert == total = TextToChangeset(doc)

\* The characters of old kept by c, as a set of positions.
Kept(c) == {g \in 1..c.old_len : ~Deletes(c, g)}

IsSubsequenceAt(old, new, P) ==
    \E f \in [P -> DOMAIN new] :
        /\ \A p \in P : old[p] = new[f[p]]
        /\ \A p, q \in P : p < q => f[p] < f[q]

\* DiffToChangeset reaches the text it is asked for, and is minimal: no set of
\* more characters of the document could have been kept (diff.go:11).  Only doc
\* matters, so it is evaluated where no edit is pending.
DiffIsMinimal ==
    (\A s \in Site : IsIdentity(pending[s])) => \A t \in Documents :
        LET c == DiffToChangeset(doc, t) IN
        /\ Validate(c)
        /\ Applicable(doc, c)
        /\ ApplyChangeset(doc, c) = t
        /\ \A P \in SUBSET DOMAIN doc :
              Cardinality(P) > Cardinality(Kept(c)) => ~IsSubsequenceAt(doc, t, P)

\* The browser's port of an operation returns the changeset that Go's does,
\* operation by operation, for all edits, rebased edits and texts that come up;
\* else an editor would rebase a broadcast otherwise than the servers do
\* (client.js:42, 66, 147: "Mirrors the Go Follow function exactly").
MirrorsGo ==
    LET A == pending[1]
        B == pending[2]
        C == Follow(A, B)
    IN  /\ follow(A, B) = C /\ follow(B, A) = Follow(B, A)
        /\ compose(A, C) = Compose(A, C) /\ compose(total, A) = Compose(total, A)
        /\ isIdentity(A) = IsIdentity(A)
        /\ ~Throws(doc, A) /\ applyChangeset(doc, A) = ApplyChangeset(doc, A)
        /\ IsIdentity(A) /\ IsIdentity(B) =>
              \A t \in Documents : diffToChangeset(doc, t) = DiffToChangeset(doc, t)

===============================================================================
