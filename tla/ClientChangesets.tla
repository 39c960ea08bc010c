--------------------------- MODULE ClientChangesets ---------------------------
(***************************************************************************)
(* The algebra of the browser: client.js has its own port of every         *)
(* operation of internal/ot it needs, and the editors only converge if the *)
(* port rebases as the servers do.  It is written here the way it runs, by *)
(* cursors with a position and an offset that are moved over operations    *)
(* that stay as they are, while Changesets shortens lists of operations.   *)
(* Operations are represented as there; a length that the message would    *)
(* not contain is 0.                                                       *)
(***************************************************************************)
EXTENDS ChangesetForms
LOCAL INSTANCE FiniteSetsExt

isIdentity(cs) ==
    /\ cs.old_len = cs.new_len
    /\ \/ cs.old_len = 0
       \/ Len(cs.ops) = 1 /\ cs.ops[1].op = "retain" /\ cs.ops[1].n = cs.old_len

\* applyChangeset throws an exception: the only check it makes.
Throws(text, cs) == cs.old_len # Len(text)

\* text.slice(pos, pos + n): what there is of it.
Slice(text, pos, n) == SubSeq(text, pos + 1, IF pos + n < Len(text) THEN pos + n ELSE Len(text))

applyChangeset(text, cs) ==
    LET piece(pos, o) ==
          CASE o.op = "retain" -> Slice(text, pos, o.n)
            [] o.op = "insert" -> o.chars
            [] o.op = "delete" -> <<>>
        result[s \in [srcPos : Nat, ops : Seq(Op)]] ==
          IF s.ops = <<>> THEN <<>>
          ELSE piece(s.srcPos, Head(s.ops))
                  \o result[[srcPos |-> s.srcPos + Consumes(Head(s.ops)), ops |-> Tail(s.ops)]]
    IN  result[[srcPos |-> 0, ops |-> cs.ops]]

-------------------------------------------------------------------------------
(* Cursors.                                                                *)

\* pos is the index of the current operation, off what is consumed of it: not all.
\* (Over an empty operation the loops would not end; no valid changeset has one.)
Slices ==
    {s \in [ops : Seq(Plain), pos : Nat \ {0}, off : Nat] :
        s.pos <= Len(s.ops) => s.off < Size(s.ops[s.pos])}
makeSlice(ops) == [ops |-> ops, pos |-> 1, off |-> 0]

Ended(s) == s.pos > Len(s.ops)
Current(s) == s.ops[s.pos]
Is(s, type) == ~Ended(s) /\ Current(s).op = type

\* The rest of the current operation.
peek(s) ==
    IF Is(s, "insert") THEN Insert(SubSeq(Current(s).chars, s.off + 1, Len(Current(s).chars)))
    ELSE [Current(s) EXCEPT !.n = @ - s.off]

\* A cursor that is still to be moved by k.
Moving == [s : Slices, k : Nat]

consume(s, n) ==
    LET move[m \in Moving] ==
          LET t == m.s
              rem == Size(Current(t)) - t.off
          IN  CASE m.k = 0 \/ Ended(t) -> t
                [] m.k > 0 /\ ~Ended(t) /\ m.k < rem -> [t EXCEPT !.off = @ + m.k]
                [] OTHER -> move[[s |-> [t EXCEPT !.pos = @ + 1, !.off = 0], k |-> m.k - rem]]
    IN  move[[s |-> s, k |-> n]]

\* An operation of the type of the last one is added to it.
addOp(ops, o) ==
    IF ops # <<>> /\ ops[Len(ops)].op = o.op
    THEN [ops EXCEPT ![Len(ops)] = IF o.op = "insert" THEN Insert(@.chars \o o.chars)
                                   ELSE [o EXCEPT !.n = ops[Len(ops)].n + @]]
    ELSE Append(ops, o)

\* The two cursors of a loop, and result.
Loop == [a : Slices, b : Slices, ops : Seq(Plain), new_len : Nat]
AtStart(A, B) == [a |-> makeSlice(A.ops), b |-> makeSlice(B.ops), ops |-> <<>>, new_len |-> 0]

-------------------------------------------------------------------------------
(* follow(A, B).                                                           *)

\* Of two insertions at one place, A's is first.
\* (Mutant: only if it is smaller.)
GoesFirstStrictly(a, b) == ~LexLeq(b, a)
GoesFirst(a, b) == LexLeq(a, b)

\* addOp of follow also counts the length of the result.
Emit(s, o) ==
    [s EXCEPT !.ops = addOp(@, o), !.new_len = @ + Produces(o)]

\* What both changesets say of the next n characters.
Both(s) ==
    LET a == peek(s.a)
        b == peek(s.b)
        n == Min({a.n, b.n})
        t == [s EXCEPT !.a = consume(@, n), !.b = consume(@, n)]
    IN  IF a.op = "retain" THEN Emit(t, [b EXCEPT !.n = n]) ELSE t

Turn(s) ==
    LET a == peek(s.a).chars
        b == peek(s.b).chars
        aInserts == Is(s.a, "insert") /\ (Is(s.b, "insert") => GoesFirst(a, b))
        bInserts == Is(s.b, "insert") /\ (Is(s.a, "insert") => ~GoesFirst(a, b))
    IN  CASE aInserts -> Emit([s EXCEPT !.a = consume(@, Len(a))], Retain(Len(a)))
          [] bInserts -> Emit([s EXCEPT !.b = consume(@, Len(b))], Insert(b))
          [] ~aInserts /\ ~bInserts -> Both(s)

Followed(s) == ~Is(s.a, "insert") /\ ~Is(s.b, "insert") /\ (Ended(s.a) \/ Ended(s.b))

following[s \in Loop] == IF Followed(s) THEN s ELSE following[Turn(s)]

follow(A, B) ==
    LET result == following[AtStart(A, B)]
    IN  [old_len |-> A.new_len, new_len |-> result.new_len, ops |-> result.ops]

-------------------------------------------------------------------------------
(* compose(A, B).                                                          *)

\* What B says of the next n characters that A leaves or inserts.
Through(s) ==
    LET a == peek(s.a)
        b == peek(s.b)
        n == Min({Size(a), b.n})
        t == [s EXCEPT !.a = consume(@, n), !.b = consume(@, n)]
    IN  CASE a.op = "retain" -> Emit(t, [b EXCEPT !.n = n])
          [] a.op = "insert" /\ b.op = "retain" -> Emit(t, Insert(SubSeq(a.chars, 1, n)))
          [] a.op = "insert" /\ b.op = "delete" -> t

ComposeTurn(s) ==
    CASE Is(s.b, "insert") ->
            Emit([s EXCEPT !.b = consume(@, Len(peek(s.b).chars))], peek(s.b))
      [] ~Is(s.b, "insert") /\ Is(s.a, "delete") ->
            Emit([s EXCEPT !.a = consume(@, peek(s.a).n)], peek(s.a))
      [] OTHER -> Through(s)

WasComposed(s) == ~Is(s.b, "insert") /\ ~Is(s.a, "delete") /\ (Ended(s.a) \/ Ended(s.b))

composing[s \in Loop] == IF WasComposed(s) THEN s ELSE composing[ComposeTurn(s)]

compose(A, B) ==
    [old_len |-> A.old_len, new_len |-> B.new_len, ops |-> composing[AtStart(A, B)].ops]

-------------------------------------------------------------------------------
(* diffToChangeset(oldText, newText).                                      *)

Table(oldText, newText) ==
    LET dp[c \in Cells(oldText, newText)] ==
          LET i == c[1]
              j == c[2]
          IN  CASE i = 0 \/ j = 0 -> 0
                [] i > 0 /\ j > 0 /\ oldText[i] = newText[j] -> dp[<<i - 1, j - 1>>] + 1
                [] OTHER -> Max({dp[<<i - 1, j>>], dp[<<i, j - 1>>]})
    IN  dp

\* One operation per character, the last one first, for each cell.
Backtracks(oldText, newText) ==
    LET dp == Table(oldText, newText)
        segs[c \in Cells(oldText, newText)] ==
          LET i == c[1]
              j == c[2]
              same == i > 0 /\ j > 0 /\ oldText[i] = newText[j]
          IN  CASE i = 0 /\ j = 0 -> <<>>
                [] same -> <<Retain(1)>> \o segs[<<i - 1, j - 1>>]
                [] ~same /\ j > 0 /\ (i = 0 \/ dp[<<i, j - 1>>] >= dp[<<i - 1, j>>]) ->
                      <<Insert(<<newText[j]>>)>> \o segs[<<i, j - 1>>]
                [] OTHER -> <<Delete(1)>> \o segs[<<i - 1, j>>]
    IN  segs

\* They are added from the end of that list on (segs.reverse()).
merging[q \in Seq(Plain)] ==
    IF q = <<>> THEN <<>> ELSE addOp(merging[Tail(q)], Head(q))

diffToChangeset(oldText, newText) ==
    [old_len |-> Len(oldText), new_len |-> Len(newText),
     ops |-> merging[Backtracks(oldText, newText)[<<Len(oldText), Len(newText)>>]]]

===============================================================================
