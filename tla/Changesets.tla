------------------------------ MODULE Changesets ------------------------------
(***************************************************************************)
(* The EasySync changeset algebra of internal/ot.                          *)
(*                                                                         *)
(* A text is a sequence of single-byte characters, and a character is a    *)
(* natural number, so that the byte order of Go's string comparison is <.  *)
(* (Texts with characters of several bytes are outside this module.)  A    *)
(* changeset is a record of the two lengths and the list of operations.    *)
(*                                                                         *)
(* The two-cursor loops of follow.go and compose.go are functions from a   *)
(* cursor pair to the list of operations they emit; a cursor is the list   *)
(* of operations still to be consumed, its head being the operation that   *)
(* peek() returns.                                                         *)
(***************************************************************************)
EXTENDS Integers, Sequences

Text == Seq(Nat)

Retain(k) == [op |-> "retain", n |-> k, chars |-> <<>>]
Insert(s) == [op |-> "insert", n |-> 0, chars |-> s]
Delete(k) == [op |-> "delete", n |-> k, chars |-> <<>>]

Op == [op : {"retain", "insert", "delete"}, n : Nat, chars : Text]

Changeset == [old_len : Nat, new_len : Nat, ops : Seq(Op)]

-------------------------------------------------------------------------------
(* Lengths and constructors.                                               *)

\* What an operation consumes of its source and adds to its result.
Consumes(o) == IF o.op = "insert" THEN 0 ELSE o.n
Produces(o) == CASE o.op = "retain" -> o.n
                 [] o.op = "insert" -> Len(o.chars)
                 [] o.op = "delete" -> 0

\* The length of an operation as a cursor counts it.
Size(o) == IF o.op = "insert" THEN Len(o.chars) ELSE o.n

\* What a list of operations consumes and produces.
Consumed(ops) ==
    LET sum[q \in Seq(Op)] == IF q = <<>> THEN 0 ELSE Consumes(Head(q)) + sum[Tail(q)]
    IN  sum[ops]
Produced(ops) ==
    LET sum[q \in Seq(Op)] == IF q = <<>> THEN 0 ELSE Produces(Head(q)) + sum[Tail(q)]
    IN  sum[ops]

Identity(n) ==
    [old_len |-> n, new_len |-> n, ops |-> IF n = 0 THEN <<>> ELSE <<Retain(n)>>]

IsIdentity(c) ==
    /\ c.old_len = c.new_len
    /\ \/ c.old_len = 0 /\ c.ops = <<>>
       \/ /\ Len(c.ops) = 1
          /\ c.ops[1].op = "retain"
          /\ c.ops[1].n = c.old_len

TextToChangeset(text) ==
    [old_len |-> 0, new_len |-> Len(text),
     ops |-> IF text = <<>> THEN <<>> ELSE <<Insert(text)>>]

\* The list with its empty retains left out, as the pos > 0 and tail > 0 tests
\* of MakeInsert and MakeDelete do.
Around(pos, o, tail) ==
    (IF pos > 0 THEN <<Retain(pos)>> ELSE <<>>)
        \o <<o>> \o (IF tail > 0 THEN <<Retain(tail)>> ELSE <<>>)

MakeInsert(oldLen, pos, text) ==
    [old_len |-> oldLen, new_len |-> oldLen + Len(text),
     ops |-> Around(pos, Insert(text), oldLen - pos)]

MakeDelete(oldLen, pos, count) ==
    [old_len |-> oldLen, new_len |-> oldLen - count,
     ops |-> Around(pos, Delete(count), oldLen - pos - count)]

\* Validate returns no error.
Validate(c) ==
    /\ \A i \in DOMAIN c.ops : Size(c.ops[i]) > 0
    /\ Consumed(c.ops) = c.old_len
    /\ Produced(c.ops) = c.new_len

-------------------------------------------------------------------------------
(* ApplyChangeset.                                                         *)

\* ApplyChangeset returns no error.  srcPos only grows, so it passes the end
\* of the text at some operation, or stops short of it, exactly when the
\* total consumed differs from the length.
Applicable(text, c) ==
    /\ c.old_len = Len(text)
    /\ Consumed(c.ops) = Len(text)

\* The text ApplyChangeset returns, where it returns no error.
ApplyChangeset(text, c) ==
    LET piece(srcPos, o) ==
          CASE o.op = "retain" -> SubSeq(text, srcPos + 1, srcPos + o.n)
            [] o.op = "insert" -> o.chars
            [] o.op = "delete" -> <<>>
        result[s \in [srcPos : Nat, ops : Seq(Op)]] ==
          IF s.ops = <<>> THEN <<>>
          ELSE piece(s.srcPos, Head(s.ops))
                  \o result[[srcPos |-> s.srcPos + Consumes(Head(s.ops)), ops |-> Tail(s.ops)]]
    IN  result[[srcPos |-> 0, ops |-> c.ops]]

-------------------------------------------------------------------------------
(* Operation lists: emitting and consuming.                                *)

\* addOp: append an operation, merged into the last one if of the same type.
AddOpNoMerge(ops, o) == Append(ops, o)              \* mutant: never merges
AddOp(ops, o) ==
    IF ops # <<>> /\ ops[Len(ops)].op = o.op
    THEN [ops EXCEPT ![Len(ops)].n = @ + o.n, ![Len(ops)].chars = @ \o o.chars]
    ELSE Append(ops, o)

\* consume: advance a cursor by k <= Size(Head(ops)) units.
Consume(ops, k) ==
    IF k = Size(Head(ops)) THEN Tail(ops)
    ELSE <<[Head(ops) EXCEPT !.n = IF Head(ops).op = "insert" THEN 0 ELSE @ - k,
                             !.chars = SubSeq(@, k + 1, Len(@))]>> \o Tail(ops)

At(ops, type) == ops # <<>> /\ Head(ops).op = type

Shorter(a, b) == IF Size(a) < Size(b) THEN Size(a) ELSE Size(b)

\* The cursor pairs the loops below run over, with the operations emitted.
Cursors == [a : Seq(Op), b : Seq(Op), out : Seq(Op)]

-------------------------------------------------------------------------------
(* Follow(A, B): B rebased on A.                                           *)

\* Go's s <= t on strings: lexicographic, a prefix being the smaller.
LexLeq(s, t) ==
    \/ Len(s) <= Len(t) /\ s = SubSeq(t, 1, Len(s))
    \/ \E i \in DOMAIN s \cap DOMAIN t :
          s[i] < t[i] /\ SubSeq(s, 1, i - 1) = SubSeq(t, 1, i - 1)

\* Of two inserts at the same position A's text goes first.
InsertsFirstAlways(a, b) == TRUE                    \* mutant: no tie-break
InsertsLast(a, b) == ~LexLeq(a.chars, b.chars)      \* mutant: > for <=
InsertsFirst(a, b) == LexLeq(a.chars, b.chars)

\* What is emitted for source characters that A and B both address.
\* (Mutant: B's operation is kept where A deleted the characters.)
FollowKeepsDeleted(a, b, k, out) == AddOp(out, [b EXCEPT !.n = k])
FollowSource(a, b, k, out) ==
    CASE a.op = "retain" /\ b.op = "retain" -> AddOp(out, Retain(k))
      [] a.op = "retain" /\ b.op = "delete" -> AddOp(out, Delete(k))
      [] a.op = "delete" -> out

FollowStep(s) ==
    LET a == Head(s.a)
        b == Head(s.b)
        aFirst == At(s.a, "insert") /\ (At(s.b, "insert") => InsertsFirst(a, b))
        bFirst == At(s.b, "insert") /\ ~aFirst
    IN  CASE aFirst -> [s EXCEPT !.a = Tail(@),
                                 !.out = AddOp(@, Retain(Len(a.chars)))]
          [] bFirst -> [s EXCEPT !.b = Tail(@),
                                 !.out = AddOp(@, Insert(b.chars))]
          [] OTHER -> LET k == Shorter(a, b) IN
                [a |-> Consume(s.a, k), b |-> Consume(s.b, k),
                 out |-> FollowSource(a, b, k, s.out)]

\* The loop ends when neither list inserts and one of them is exhausted.
\* (Mutant: when one of them is exhausted.)
FollowStopsEarly(s) == s.a = <<>> \/ s.b = <<>>
FollowDone(s) ==
    /\ ~At(s.a, "insert") /\ ~At(s.b, "insert")
    /\ s.a = <<>> \/ s.b = <<>>

FollowLoop[s \in Cursors] ==
    IF FollowDone(s) THEN s.out ELSE FollowLoop[FollowStep(s)]

\* (Mutant: new_len as the change of length instead of the length.)
FollowLengthDelta(A, B) ==
    LET ops == FollowLoop[[a |-> A.ops, b |-> B.ops, out |-> <<>>]]
    IN  [old_len |-> A.new_len, new_len |-> Produced(ops) - Consumed(ops), ops |-> ops]
Follow(A, B) ==
    LET ops == FollowLoop[[a |-> A.ops, b |-> B.ops, out |-> <<>>]]
    IN  [old_len |-> A.new_len, new_len |-> Produced(ops), ops |-> ops]

-------------------------------------------------------------------------------
(* Compose(A, B): A and then B, as one changeset.                          *)

\* What is emitted for characters of A's output that B addresses.
\* (Mutant: an insert of A survives its deletion by B.)
ComposeKeepsInsert(a, b, k, out) ==
    IF a.op = "insert" THEN AddOp(out, Insert(SubSeq(a.chars, 1, k)))
    ELSE AddOp(out, [b EXCEPT !.n = k])
ComposeOutput(a, b, k, out) ==
    CASE a.op = "retain" /\ b.op = "retain" -> AddOp(out, Retain(k))
      [] a.op = "retain" /\ b.op = "delete" -> AddOp(out, Delete(k))
      [] a.op = "insert" /\ b.op = "retain" ->
            AddOp(out, Insert(SubSeq(a.chars, 1, k)))
      [] a.op = "insert" /\ b.op = "delete" -> out

ComposeStep(s) ==
    LET a == Head(s.a)
        b == Head(s.b)
    IN  CASE At(s.b, "insert") -> [s EXCEPT !.b = Tail(@), !.out = AddOp(@, b)]
          [] ~At(s.b, "insert") /\ At(s.a, "delete") ->
                [s EXCEPT !.a = Tail(@), !.out = AddOp(@, a)]
          [] OTHER -> LET k == Shorter(a, b) IN
                [a |-> Consume(s.a, k), b |-> Consume(s.b, k),
                 out |-> ComposeOutput(a, b, k, s.out)]

ComposeDone(s) ==
    /\ ~At(s.b, "insert") /\ ~At(s.a, "delete")
    /\ s.a = <<>> \/ s.b = <<>>

ComposeLoop[s \in Cursors] ==
    IF ComposeDone(s) THEN s.out ELSE ComposeLoop[ComposeStep(s)]

Compose(A, B) ==
    [old_len |-> A.old_len, new_len |-> B.new_len,
     ops |-> ComposeLoop[[a |-> A.ops, b |-> B.ops, out |-> <<>>]]]

-------------------------------------------------------------------------------
(* DiffToChangeset: the changeset of a longest common subsequence.         *)

\* dp[i][j] of diff.go, the longest common subsequence of the first i
\* characters of old and the first j of new, by the cell <<i, j>>.
Cells(old, new) == (0..Len(old)) \X (0..Len(new))

LCS(old, new) ==
    LET dp[c \in Cells(old, new)] ==
          CASE c[1] = 0 \/ c[2] = 0 -> 0
            [] c[1] > 0 /\ c[2] > 0 /\ old[c[1]] = new[c[2]] -> dp[<<c[1] - 1, c[2] - 1>>] + 1
            [] OTHER -> IF dp[<<c[1] - 1, c[2]>>] > dp[<<c[1], c[2] - 1>>]
                        THEN dp[<<c[1] - 1, c[2]>>] ELSE dp[<<c[1], c[2] - 1>>]
    IN  [c \in Cells(old, new) |-> dp[c]]

\* The backtracking step that emits the insertion of new[j] at (i, j).
\* (Mutant: the comparison reversed.)
BacktrackGreedy(dp, i, j) == j > 0 /\ (i = 0 \/ dp[<<i, j - 1>>] <= dp[<<i - 1, j>>])
BacktrackInserts(dp, i, j) == j > 0 /\ (i = 0 \/ dp[<<i, j - 1>>] >= dp[<<i - 1, j>>])

\* The operations for the first i characters of old and the first j of new.
Segments(old, new) ==
    LET dp == LCS(old, new)
        segs[c \in Cells(old, new)] ==
          LET i == c[1]
              j == c[2]
              same == i > 0 /\ j > 0 /\ old[i] = new[j]
          IN  CASE i = 0 /\ j = 0 -> <<>>
                [] same -> AddOp(segs[<<i - 1, j - 1>>], Retain(1))
                [] ~same /\ BacktrackInserts(dp, i, j) ->
                      AddOp(segs[<<i, j - 1>>], Insert(<<new[j]>>))
                [] OTHER -> AddOp(segs[<<i - 1, j>>], Delete(1))
    IN  segs

DiffToChangeset(old, new) ==
    [old_len |-> Len(old), new_len |-> Len(new),
     ops |-> Segments(old, new)[<<Len(old), Len(new)>>]]

===============================================================================
