---------------------------- MODULE ChangesetForms ----------------------------
(***************************************************************************)
(* The form that the operations of internal/ot keep their changesets in,   *)
(* and that they rely on in each other: no empty operation, and no two     *)
(* operations of one type next to each other.  No function of the code     *)
(* states it; it is what addOp makes of everything that is emitted through *)
(* it, and why IsIdentity may look at a single operation and                *)
(* handleConnectAck may compare A with one insertion.                      *)
(***************************************************************************)
EXTENDS Changesets

\* Operations of some size, with the one field that their type uses.
Plain == {o \in Op : /\ Size(o) > 0
                     /\ o.op = "insert" => o.n = 0
                     /\ o.op # "insert" => o.chars = <<>>}

\* The lists that addOp makes.
Normal(ops) ==
    /\ ops \in Seq(Plain)
    /\ \A i \in 1..Len(ops) - 1 : ops[i].op # ops[i + 1].op

\* The operations address all of the text p, and no more.
Fits(p, ops) == p \in Text /\ ops \in Seq(Op) /\ Consumed(ops) = Len(p)

\* The operations that insert characters of C only.
OpsOver(C) == {o \in Op : o.chars \in Seq(C)}

\* A changeset that the server accepts for the text (Validate and the length
\* check of ApplyChangeset), in that form.
Suits(text, c) ==
    /\ c \in Changeset
    /\ Normal(c.ops) /\ Fits(text, c.ops)
    /\ c.old_len = Len(text) /\ c.new_len = Produced(c.ops)

\* The text that the operations insert.
Inserted(ops) ==
    LET text[q \in Seq(Op)] == IF q = <<>> THEN <<>> ELSE Head(q).chars \o text[Tail(q)]
    IN  text[ops]

===============================================================================
