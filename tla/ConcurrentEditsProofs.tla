------------------------- MODULE ConcurrentEditsProofs -------------------------
(***************************************************************************)
(* The properties of ConcurrentEdits, for every alphabet, every length of  *)
(* the document and any number of commits.  FormIsKept is the inductive    *)
(* invariant: every pending edit is a changeset in normal form for the     *)
(* document, which is what the theorems of the algebra ask of their        *)
(* arguments; the other properties are those theorems, applied to it.      *)
(* Three of them are proved here: a diff is minimal, a rebased edit merges *)
(* gap by gap, and the browser's port is the servers' algebra.             *)
(***************************************************************************)
EXTENDS ConcurrentEdits, ChangesetProofs, FiniteSetTheorems
LOCAL INSTANCE FiniteSetsExt

\* The documents are the texts over Char of at most MaxLen characters.
LEMMA DocumentsAre ==
    ASSUME NEW t
    PROVE  t \in Documents <=> t \in Seq(Char) /\ Len(t) <= MaxLen
<1>1. ASSUME t \in Documents PROVE t \in Seq(Char) /\ Len(t) <= MaxLen
  <2>1. PICK k \in 0..MaxLen : t \in [1..k -> Char]
    BY <1>1 DEF Documents
  <2>2. k \in Nat /\ k <= MaxLen
    BY EditsAssumption
  <2>3. t \in Seq(Char)
    BY <2>1, <2>2, SeqDef
  <2>4. Len(t) = k
    BY <2>1, <2>2, <2>3, LenProperties
  <2>. QED
    BY <2>2, <2>3, <2>4
<1>2. ASSUME t \in Seq(Char), Len(t) <= MaxLen PROVE t \in Documents
  <2>1. Len(t) \in 0..MaxLen /\ t \in [1..Len(t) -> Char]
    BY <1>2, EditsAssumption, LenProperties
  <2>. QED
    BY <2>1 DEF Documents
<1>. QED
  BY <1>1, <1>2

\* Texts over Char are texts.
LEMMA CharText == Seq(Char) \subseteq Text
  BY EditsAssumption, SeqMonotonic DEF Text

\* What a pending edit makes of the document.
LEMMA EditResult ==
    ASSUME NEW t \in Seq(Char), NEW c, Suits(t, c), c.ops \in Seq(OpsOver(Char))
    PROVE  ApplyChangeset(t, c) \in Seq(Char)
<1>1. Fits(t, c.ops)
  BY DEF Suits
<1>2. Run(t, c.ops) \in Seq(Char)
  BY <1>1, EditsAssumption, RunOver
<1>. QED
  BY <1>2, ApplyIsRun

-------------------------------------------------------------------------------
(* The inductive invariant.                                                *)

IsPending(d, c) == Suits(d, c) /\ c.ops \in Seq(OpsOver(Char))

EditsInv ==
    /\ doc \in Documents
    /\ pending \in [Site -> Changeset]
    /\ \A s \in Site : IsPending(doc, pending[s])
    /\ Suits(<<>>, total) /\ ApplyChangeset(<<>>, total) = doc

\* "No change" is an edit like others.
LEMMA IdentityIsPending ==
    ASSUME NEW t \in Seq(Char)
    PROVE  IsPending(t, Identity(Len(t))) /\ Identity(Len(t)) \in Changeset
<1>1. Suits(t, Identity(Len(t))) /\ Identity(Len(t)).ops \in Seq(Retains)
  BY CharText, IdentitySuits
<1>2. Retains \subseteq OpsOver(Char)
  BY EmptySeq DEF Retains, OpsOver
<1>3. Seq(Retains) \subseteq Seq(OpsOver(Char))
  BY <1>2, SeqMonotonic
<1>. QED
  BY <1>1, <1>3 DEF IsPending, Suits

\* The first state.
LEMMA InitEdits == Init => EditsInv
<1>. SUFFICES ASSUME Init PROVE EditsInv
  OBVIOUS
<1>1. doc = <<>> /\ pending = [s \in Site |-> Identity(0)] /\ total = TextToChangeset(<<>>)
  BY DEF Init
<1>2. <<>> \in Seq(Char) /\ Len(<<>>) = 0 /\ <<>> \in Text
  BY EmptySeq, TextNil
<1>3. IsPending(<<>>, Identity(0)) /\ Identity(0) \in Changeset
  BY <1>2, IdentityIsPending
<1>4. <<>> \in Documents
  <2>1. <<>> \in Seq(Char) /\ Len(<<>>) <= MaxLen
    BY <1>2, EditsAssumption
  <2>. QED
    BY ONLY <2>1, DocumentsAre
<1>5. Suits(<<>>, TextToChangeset(<<>>)) /\ ApplyChangeset(<<>>, TextToChangeset(<<>>)) = <<>>
  BY <1>2, TextSuits
<1>. QED
  BY <1>1, <1>3, <1>4, <1>5 DEF EditsInv

\* A new edit of one site.
LEMMA NewEdit ==
    ASSUME EditsInv, NEW s \in Site, NEW c, IsPending(doc, c),
           pending' = [pending EXCEPT ![s] = c], UNCHANGED <<doc, total>>
    PROVE  EditsInv'
<1>1. c \in Changeset
  BY DEF IsPending, Suits
<1>2. pending' \in [Site -> Changeset] /\ \A i \in Site : pending'[i] = IF i = s THEN c ELSE pending[i]
  BY <1>1 DEF EditsInv
<1>3. \A i \in Site : IsPending(doc, pending'[i])
  BY <1>2 DEF EditsInv
<1>. QED
  BY <1>2, <1>3 DEF EditsInv, IsPending

\* A direct edit of one site keeps the invariant.
LEMMA EditKeeps ==
    ASSUME EditsInv, NEW s \in Site, NEW t \in Documents, Edit(s, t)
    PROVE  EditsInv'
<1>1. doc \in Seq(Char) /\ t \in Seq(Char) /\ doc \in Text /\ t \in Text
  BY DocumentsAre, CharText DEF EditsInv
<1> DEFINE c == DiffToChangeset(doc, t)
<1>2. IsPending(doc, c)
  BY <1>1, DiffSuits, DiffOver DEF IsPending
<1>3. pending' = [pending EXCEPT ![s] = c] /\ UNCHANGED <<doc, total>>
  BY DEF Edit
<1> HIDE DEF c
<1>. QED
  BY <1>2, <1>3, NewEdit

\* Typing one character keeps the invariant.
LEMMA TypeKeeps ==
    ASSUME EditsInv, NEW s \in Site, NEW pos \in 0..Len(doc), NEW ch \in Char, TypeAt(s, pos, <<ch>>)
    PROVE  EditsInv'
<1>1. doc \in Seq(Char) /\ doc \in Text
  BY DocumentsAre, CharText DEF EditsInv
<1> DEFINE c == MakeInsert(Len(doc), pos, <<ch>>)
           w == <<ch>>
<1>2. w \in Seq(Char) /\ w # <<>>
  OBVIOUS
<1>3. IsPending(doc, c)
  <2> HIDE DEF w
  <2>1. Suits(doc, MakeInsert(Len(doc), pos, w)) /\ MakeInsert(Len(doc), pos, w).ops \in Seq(OpsOver(Char))
    BY <1>1, <1>2, EditsAssumption, MakeInsertSuits
  <2>. QED
    BY <2>1 DEF IsPending, w
<1>4. pending' = [pending EXCEPT ![s] = c] /\ UNCHANGED <<doc, total>>
  BY DEF TypeAt
<1> HIDE DEF c
<1>. QED
  BY <1>3, <1>4, NewEdit

\* Deleting a range keeps the invariant.
LEMMA EraseKeeps ==
    ASSUME EditsInv, NEW s \in Site, NEW pos \in 0..Len(doc) - 1, NEW count \in 1..Len(doc) - pos,
           EraseAt(s, pos, count)
    PROVE  EditsInv'
<1>1. doc \in Seq(Char) /\ doc \in Text
  BY DocumentsAre, CharText DEF EditsInv
<1>2. pos \in Nat /\ count \in Nat \ {0} /\ pos + count <= Len(doc)
  BY <1>1, TextNil
<1> DEFINE c == MakeDelete(Len(doc), pos, count)
<1>3. IsPending(doc, c)
  BY <1>1, <1>2, MakeDeleteSuits DEF IsPending
<1>4. pending' = [pending EXCEPT ![s] = c] /\ UNCHANGED <<doc, total>>
  BY DEF EraseAt
<1> HIDE DEF c
<1>. QED
  BY <1>3, <1>4, NewEdit

\* A pending edit rebased on another is pending on what the other makes.
LEMMA RebasedIsPending ==
    ASSUME NEW t \in Seq(Char), NEW a, NEW b, IsPending(t, a), IsPending(t, b)
    PROVE  IsPending(ApplyChangeset(t, a), Follow(a, b)) /\ Follow(a, b) \in Changeset
<1>1. Suits(t, a) /\ Suits(t, b) /\ a.ops \in Seq(OpsOver(Char)) /\ b.ops \in Seq(OpsOver(Char))
  BY DEF IsPending
<1>2. Suits(ApplyChangeset(t, a), Follow(a, b))
  BY <1>1, FollowSuits
<1>3. Follow(a, b).ops = FollowLoop[Pair(a.ops, b.ops, <<>>)]
  BY DEF Follow, Pair
<1>4. Closed(OpsOver(Char)) /\ a.ops \in Seq(Op)
  BY <1>1, EditsAssumption, OverClosed DEF Suits, Fits
<1>5. FollowLoop[Pair(a.ops, b.ops, <<>>)] \in Seq(OpsOver(Char))
  BY <1>1, <1>4, FollowWithin
<1>. QED
  BY <1>2, <1>3, <1>5 DEF IsPending, Suits

\* Committing a pending changeset and rebasing the other keeps the invariant.
LEMMA CommitKeeps ==
    ASSUME EditsInv, NEW s \in Site, Commit(s)
    PROVE  EditsInv'
<1> DEFINE new == ApplyChangeset(doc, pending[s])
<1>1. /\ doc \in Seq(Char) /\ doc \in Text /\ \A i \in Site : IsPending(doc, pending[i])
      /\ Suits(<<>>, total) /\ ApplyChangeset(<<>>, total) = doc
  BY DocumentsAre, CharText DEF EditsInv
<1>2. /\ Len(new) <= MaxLen /\ doc' = new /\ total' = Compose(total, pending[s])
      /\ pending' = [i \in Site |-> IF i = s THEN Identity(Len(new))
                                    ELSE Follow(pending[s], pending[i])]
  BY DEF Commit
<1>3. new \in Seq(Char)
  BY <1>1, EditResult DEF IsPending
<1> HIDE DEF new
<1>4. new \in Documents
  BY <1>2, <1>3, DocumentsAre
<1>5. ASSUME NEW i \in Site PROVE pending'[i] \in Changeset /\ IsPending(new, pending'[i])
  <2>1. CASE i = s
    BY <1>2, <1>3, <2>1, IdentityIsPending
  <2>2. CASE i # s
    <3>1. pending'[i] = Follow(pending[s], pending[i])
      BY <1>2, <2>2
    <3>2. IsPending(ApplyChangeset(doc, pending[s]), Follow(pending[s], pending[i]))
          /\ Follow(pending[s], pending[i]) \in Changeset
      BY <1>1, RebasedIsPending
    <3>. QED
      BY <3>1, <3>2 DEF new
  <2>. QED
    BY <2>1, <2>2
<1>6. pending' \in [Site -> Changeset]
  BY <1>2, <1>5
<1>7. Suits(<<>>, total') /\ ApplyChangeset(<<>>, total') = new
  <2>1. Suits(ApplyChangeset(<<>>, total), pending[s])
    BY <1>1 DEF IsPending
  <2>2. /\ Suits(<<>>, Compose(total, pending[s]))
        /\ ApplyChangeset(<<>>, Compose(total, pending[s]))
              = ApplyChangeset(ApplyChangeset(<<>>, total), pending[s])
    BY <1>1, <2>1, ComposeSuits
  <2>. QED
    BY <1>1, <1>2, <2>2 DEF new
<1>. QED
  BY <1>2, <1>4, <1>5, <1>6, <1>7 DEF EditsInv

\* FormIsKept, with the types and the meaning of total, is inductive.
THEOREM EditsInductive == Spec => []EditsInv
<1>1. EditsInv /\ [Next]_vars => EditsInv'
  <2>. SUFFICES ASSUME EditsInv, [Next]_vars PROVE EditsInv'
    OBVIOUS
  <2>1. CASE \E s \in Site, t \in Documents : Edit(s, t)
    BY <2>1, EditKeeps
  <2>2. CASE \E s \in Site, pos \in 0..Len(doc), ch \in Char : TypeAt(s, pos, <<ch>>)
    BY <2>2, TypeKeeps
  <2>3. CASE \E s \in Site, pos \in 0..Len(doc) - 1 : \E count \in 1..Len(doc) - pos : EraseAt(s, pos, count)
    BY <2>3, EraseKeeps
  <2>4. CASE \E s \in Site : Commit(s)
    BY <2>4, CommitKeeps
  <2>5. CASE UNCHANGED vars
    BY <2>5 DEF vars, EditsInv, IsPending
  <2>. QED
    BY <2>1, <2>2, <2>3, <2>4, <2>5 DEF Next
<1>. QED
  BY <1>1, InitEdits, PTL DEF Spec

-------------------------------------------------------------------------------
(* What follows.                                                           *)

\* What the invariant says of the pending edits.
LEMMA EditsMean ==
    ASSUME EditsInv
    PROVE  /\ doc \in Seq(Char) /\ doc \in Text
           /\ \A s \in Site : Suits(doc, pending[s]) /\ pending[s].ops \in Seq(OpsOver(Char))
           /\ Suits(<<>>, total) /\ ApplyChangeset(<<>>, total) = doc
           /\ 1 \in Site /\ 2 \in Site
  BY DocumentsAre, CharText DEF EditsInv, IsPending, Site

\* The document and the pending edits have their types, the document its bound.
THEOREM EditsTypeOK == Spec => []TypeOK
<1>1. EditsInv => TypeOK
  BY DEF EditsInv, TypeOK, Suits
<1>. QED
  BY <1>1, EditsInductive, PTL

\* Pending edits and the clients' A stay in the form that addOp gives.
THEOREM EditsKeepForm == Spec => []FormIsKept
<1>1. EditsInv => FormIsKept
  BY EditsMean DEF FormIsKept
<1>. QED
  BY <1>1, EditsInductive, PTL

\* A pending edit, however often rebased, is one that the server accepts.
THEOREM PendingStaysValid == Spec => []PendingIsValid
<1>1. EditsInv => PendingIsValid
  BY EditsMean, SuitsIsValid DEF PendingIsValid
<1>. QED
  BY <1>1, EditsInductive, PTL

\* Both sites reach the same text, whichever edit is committed first.
THEOREM SitesConverge == Spec => []Converges
<1>1. EditsInv => Converges
  BY EditsMean, Convergence DEF Converges
<1>. QED
  BY <1>1, EditsInductive, PTL

\* A site with nothing pending has nothing pending after a rebase either.
THEOREM NothingStaysNothing == Spec => []IdentityStaysIdentity
<1>1. EditsInv => IdentityStaysIdentity
  BY EditsMean, FollowIdentity DEF IdentityStaysIdentity
<1>. QED
  BY <1>1, EditsInductive, PTL

\* Composing an edit with a rebased one, or with the next of its author, is
\* making one after the other, and gives an edit that the server accepts.
THEOREM CompositionIsSequential == Spec => []ComposeIsSequential
<1>1. ASSUME EditsInv PROVE ComposeIsSequential
  <2> DEFINE A == pending[1]
             mid == ApplyChangeset(doc, A)
  <2>1. Suits(doc, A) /\ Suits(doc, pending[2])
    BY <1>1, EditsMean
  <2>2. mid \in Text
    BY <2>1, SuitsText
  <2> HIDE DEF mid
  <2>3. ASSUME NEW B, Suits(mid, B)
        PROVE  /\ Validate(Compose(A, B)) /\ Applicable(doc, Compose(A, B))
               /\ ApplyChangeset(doc, Compose(A, B)) = ApplyChangeset(mid, B)
    <3>1. Suits(doc, Compose(A, B)) /\ ApplyChangeset(doc, Compose(A, B)) = ApplyChangeset(mid, B)
      BY <2>1, <2>3, ComposeSuits DEF mid
    <3>. QED
      BY <3>1, SuitsIsValid
  <2>4. \A t \in Documents : Suits(mid, DiffToChangeset(mid, t))
    BY <2>2, DocumentsAre, CharText, DiffSuits
  <2>5. Suits(mid, Follow(A, pending[2]))
    BY <2>1, FollowSuits DEF mid
  <2>6. \A B \in {DiffToChangeset(mid, t) : t \in Documents} \cup {Follow(A, pending[2])} : Suits(mid, B)
    BY <2>4, <2>5
  <2>. QED
    BY <2>3, <2>6 DEF ComposeIsSequential, mid
<1>. QED
  BY <1>1, EditsInductive, PTL

\* The composition of all commits is one insertion, of the whole document.
THEOREM TotalStaysOneInsert == Spec => []TotalIsOneInsert
<1>1. EditsInv => TotalIsOneInsert
  BY EditsMean, OneInsert DEF TotalIsOneInsert
<1>. QED
  BY <1>1, EditsInductive, PTL

-------------------------------------------------------------------------------
(* The difference is minimal.                                              *)

\* f takes the characters of old at P, in their order, to equal ones among the
\* first j of new.
Embeds(old, new, P, f, j) ==
    /\ f \in [P -> 1..j]
    /\ \A p \in P : old[p] = new[f[p]]
    /\ \A p, q \in P : p < q => f[p] < f[q]

\* No common subsequence of the prefixes is longer than the cell says.
Bounds(dp, old, new, i, j) ==
    \A P \in SUBSET (1..i) : (\E f : Embeds(old, new, P, f, j)) => Cardinality(P) <= dp[<<i, j>>]

\* A set of positions is finite, and has at most one element more than it has
\* without one of them.
LEMMA PositionsAre ==
    ASSUME NEW i \in Nat, NEW P \in SUBSET (1..i)
    PROVE  /\ IsFiniteSet(P) /\ Cardinality(P) \in Nat
           /\ \A p : /\ Cardinality(P \ {p}) \in Nat
                     /\ Cardinality(P) <= Cardinality(P \ {p}) + 1
<1>1. IsFiniteSet(P)
  <2>1. 1 \in Int /\ i \in Int
    OBVIOUS
  <2>2. IsFiniteSet(1..i)
    BY <2>1, FS_Interval
  <2>. QED
    BY <2>2, FS_Subset
<1>2. Cardinality(P) \in Nat
  BY <1>1, FS_CardinalityType
<1>3. ASSUME NEW p
      PROVE  /\ Cardinality(P \ {p}) \in Nat
             /\ Cardinality(P) <= Cardinality(P \ {p}) + 1
  <2>1. /\ IsFiniteSet(P \ {p})
        /\ Cardinality(P \ {p}) = IF p \in P THEN Cardinality(P) - 1 ELSE Cardinality(P)
    BY <1>1, FS_RemoveElement
  <2>2. Cardinality(P \ {p}) \in Nat
    BY <2>1, FS_CardinalityType
  <2>. QED
    BY <1>2, <2>1, <2>2
<1>. QED
  BY <1>1, <1>2, <1>3

\* An embedding restricted to fewer characters whose images are among fewer.
LEMMA EmbedsPart ==
    ASSUME NEW old, NEW new, NEW P, NEW f, NEW j \in Nat, Embeds(old, new, P, f, j),
           NEW Q \in SUBSET P, NEW k \in Nat, \A q \in Q : f[q] \in 1..k
    PROVE  \E h : Embeds(old, new, Q, h, k)
<1> DEFINE h == [q \in Q |-> f[q]]
<1>1. Embeds(old, new, Q, h, k)
  BY DEF Embeds
<1>. QED
  BY <1>1

\* A cell bounds what there is in common if the cells it is computed from do: at
\* equal letters one character less, at different ones i or j matches nothing.
LEMMA BoundsNext ==
    ASSUME NEW old, NEW new, NEW dp, NEW i \in Nat, NEW j \in Nat,
           Longest(dp, old, new, i, j),
           i > 0 /\ j > 0 => /\ Bounds(dp, old, new, i - 1, j - 1) /\ dp[<<i - 1, j - 1>>] \in Nat
                             /\ Bounds(dp, old, new, i, j - 1) /\ dp[<<i, j - 1>>] \in Nat
                             /\ Bounds(dp, old, new, i - 1, j) /\ dp[<<i - 1, j>>] \in Nat
    PROVE  Bounds(dp, old, new, i, j)
<1>1. SUFFICES ASSUME NEW P \in SUBSET (1..i), NEW f, Embeds(old, new, P, f, j)
               PROVE  Cardinality(P) <= dp[<<i, j>>]
  BY DEF Bounds
<1>2. /\ f \in [P -> 1..j]
      /\ \A p \in P : old[p] = new[f[p]]
      /\ \A p, q \in P : p < q => f[p] < f[q]
      /\ \A p \in P : p \in 1..i /\ f[p] \in 1..j
  BY <1>1 DEF Embeds
<1>3. IsFiniteSet(P) /\ Cardinality(P) \in Nat
      /\ \A p : Cardinality(P \ {p}) \in Nat /\ Cardinality(P) <= Cardinality(P \ {p}) + 1
  BY PositionsAre
<1>4. CASE i = 0 \/ j = 0
  <2>1. P = {}
    BY <1>2, <1>4
  <2>2. dp[<<i, j>>] = 0
    BY <1>4 DEF Longest
  <2>3. Cardinality({}) = 0
    BY FS_EmptySet
  <2>. QED
    BY <2>1, <2>2, <2>3
<1>5. CASE i > 0 /\ j > 0 /\ old[i] = new[j]
  <2>1. dp[<<i, j>>] = dp[<<i - 1, j - 1>>] + 1 /\ dp[<<i - 1, j - 1>>] \in Nat
    BY <1>5 DEF Longest
  <2>2. PICK p : \A q \in P \ {p} : q # i /\ f[q] # j
    <3>1. CASE i \in P
      <4>1. ASSUME NEW q \in P \ {i} PROVE f[q] # j
        <5>1. q < i
          BY <1>2, <4>1
        <5>2. f[q] < f[i] /\ f[i] \in 1..j /\ f[q] \in 1..j
          BY <1>2, <3>1, <5>1
        <5>. QED
          BY <5>2
      <4>. QED
        BY <4>1
    <3>2. CASE i \notin P /\ \E p \in P : f[p] = j
      <4>1. PICK p \in P : f[p] = j
        BY <3>2
      <4>2. ASSUME NEW q \in P \ {p} PROVE f[q] # j
        <5>0. q \in 1..i /\ p \in 1..i /\ q # p
          BY <1>2, <4>2
        <5>1. q < p \/ p < q
          BY <5>0
        <5>2. f[q] < f[p] \/ f[p] < f[q]
          BY <1>2, <5>1
        <5>3. f[q] \in 1..j /\ f[p] \in 1..j
          BY <1>2
        <5>. QED
          BY <4>1, <5>2, <5>3
      <4>. QED
        BY <3>2, <4>2
    <3>3. CASE i \notin P /\ \A p \in P : f[p] # j
      BY <3>3
    <3>. QED
      BY <3>1, <3>2, <3>3
  <2> DEFINE Q == P \ {p}
  <2>3. Q \in SUBSET (1..i - 1) /\ Q \in SUBSET P /\ \A q \in Q : f[q] \in 1..j - 1
    <3>1. ASSUME NEW q \in Q PROVE q \in 1..i - 1 /\ f[q] \in 1..j - 1
      <4>1. q \in 1..i /\ f[q] \in 1..j /\ q # i /\ f[q] # j
        BY <1>2, <2>2
      <4>. QED
        BY <4>1
    <3>. QED
      BY <3>1
  <2>4. j - 1 \in Nat
    BY <1>5
  <2> HIDE DEF Q
  <2>5. \E h : Embeds(old, new, Q, h, j - 1)
    BY <1>1, <2>3, <2>4, EmbedsPart
  <2>6. Cardinality(Q) <= dp[<<i - 1, j - 1>>]
    BY <1>5, <2>3, <2>5 DEF Bounds
  <2>7. Cardinality(Q) \in Nat /\ Cardinality(P) <= Cardinality(Q) + 1
    BY <1>3 DEF Q
  <2>. QED
    BY <1>3, <2>1, <2>6, <2>7
<1>6. CASE i > 0 /\ j > 0 /\ old[i] # new[j]
  <2>1. /\ dp[<<i - 1, j>>] \in Nat /\ dp[<<i, j - 1>>] \in Nat
        /\ dp[<<i, j>>] \in Nat
        /\ dp[<<i, j>>] >= dp[<<i - 1, j>>] /\ dp[<<i, j>>] >= dp[<<i, j - 1>>]
    <3>1. dp[<<i, j>>] = IF dp[<<i - 1, j>>] > dp[<<i, j - 1>>]
                         THEN dp[<<i - 1, j>>] ELSE dp[<<i, j - 1>>]
      BY <1>6 DEF Longest
    <3>2. dp[<<i - 1, j>>] \in Nat /\ dp[<<i, j - 1>>] \in Nat
      BY <1>6
    <3>. QED
      BY <3>1, <3>2
  <2>2. CASE i \notin P
    <3>1. P \in SUBSET (1..i - 1)
      <4>1. ASSUME NEW q \in P PROVE q \in 1..i - 1
        <5>1. q \in 1..i /\ q # i
          BY <2>2
        <5>. QED
          BY <5>1
      <4>. QED
        BY <4>1
    <3>2. Cardinality(P) <= dp[<<i - 1, j>>]
      BY <1>1, <1>6, <3>1 DEF Bounds
    <3>. QED
      BY <1>3, <2>1, <3>2
  <2>3. CASE i \in P
    <3>1. f[i] # j /\ f[i] \in 1..j
      BY <1>2, <1>6, <2>3
    <3>2. ASSUME NEW q \in P PROVE f[q] \in 1..j - 1
      <4>1. q = i \/ q < i
        BY <1>2
      <4>2. f[q] \in 1..j /\ (q = i \/ f[q] < f[i])
        BY <1>2, <2>3, <4>1
      <4>. QED
        BY <3>1, <4>2
    <3>3. j - 1 \in Nat
      BY <1>6
    <3>4. \E h : Embeds(old, new, P, h, j - 1)
      BY <1>1, <3>2, <3>3, EmbedsPart
    <3>5. Cardinality(P) <= dp[<<i, j - 1>>]
      BY <1>6, <3>4 DEF Bounds
    <3>. QED
      BY <1>3, <2>1, <3>5
  <2>. QED
    BY <2>2, <2>3
<1>. QED
  BY <1>4, <1>5, <1>6

\* The table bounds every common subsequence.
LEMMA TableBounds ==
    ASSUME NEW old \in Text, NEW new \in Text
    PROVE  \A i \in 0..Len(old), j \in 0..Len(new) : Bounds(LCS(old, new), old, new, i, j)
<1> DEFINE dp == LCS(old, new)
           T == {c \in Cells(old, new) : Bounds(dp, old, new, c[1], c[2])}
<1>1. \A i \in 0..Len(old), j \in 0..Len(new) :
         <<i, j>> \in T <=> Bounds(dp, old, new, i, j)
  <2> HIDE DEF dp
  <2>. QED
    BY CellsAre
<1> HIDE DEF T
<1>2. ASSUME NEW i \in 0..Len(old), NEW j \in 0..Len(new),
             i > 0 /\ j > 0 => <<i - 1, j - 1>> \in T,
             i > 0 => <<i - 1, j>> \in T,
             j > 0 => <<i, j - 1>> \in T
      PROVE  <<i, j>> \in T
  <2>1. /\ i \in Nat /\ j \in Nat
        /\ i > 0 => i - 1 \in 0..Len(old)
        /\ j > 0 => j - 1 \in 0..Len(new)
    BY CellsAre
  <2>2. Longest(dp, old, new, i, j)
    BY TableIs
  <2>3. \A x \in 0..Len(old), y \in 0..Len(new) : dp[<<x, y>>] \in Nat
    BY TableIs DEF Longest
  <2> HIDE DEF dp
  <2>4. i > 0 /\ j > 0 => /\ Bounds(dp, old, new, i - 1, j - 1) /\ dp[<<i - 1, j - 1>>] \in Nat
                          /\ Bounds(dp, old, new, i, j - 1) /\ dp[<<i, j - 1>>] \in Nat
                          /\ Bounds(dp, old, new, i - 1, j) /\ dp[<<i - 1, j>>] \in Nat
    BY <1>1, <1>2, <2>1, <2>3
  <2>5. Bounds(dp, old, new, i, j)
    BY <2>1, <2>2, <2>4, BoundsNext
  <2>. QED
    BY <1>1, <2>5
<1>3. \A i \in 0..Len(old), j \in 0..Len(new) : <<i, j>> \in T
  BY <1>2, CellInduction
<1>. QED
  BY <1>1, <1>3

\* Deletes, of a list of operations.
Erases(ops, g) ==
    \E i \in DOMAIN ops :
        /\ ops[i].op = "delete"
        /\ g \in Consumed(SubSeq(ops, 1, i - 1)) + 1 .. Consumed(SubSeq(ops, 1, i))

\* Which positions an operation at the end of a list erases.
LEMMA ErasesAppend ==
    ASSUME NEW u \in Seq(Op), NEW e \in Op, NEW g
    PROVE  Erases(u \o <<e>>, g) <=>
              \/ Erases(u, g)
              \/ e.op = "delete" /\ g \in Consumed(u) + 1 .. Consumed(u) + e.n
<1> DEFINE w == u \o <<e>>
           n == Len(u)
<1>1. n \in Nat /\ w \in Seq(Op) /\ Len(w) = n + 1 /\ w[n + 1] = e /\ DOMAIN w = 1..n + 1 /\ DOMAIN u = 1..n
      /\ \A i \in 1..n : w[i] = u[i]
  <2>1. w = Append(u, e)
    BY AppendIsConcat
  <2> HIDE DEF w
  <2>. QED
    BY <2>1, AppendProperties, LenProperties
<1>2. \A i \in 0..n : SubSeq(w, 1, i) = SubSeq(u, 1, i)
  <2>1. ASSUME NEW i \in 0..n PROVE SubSeq(w, 1, i) = SubSeq(u, 1, i)
    <3>1. i \in 0..Len(w) /\ i \in 0..Len(u) /\ i \in Nat
      BY <1>1
    <3>2. SubSeq(w, 1, i) \in Seq(Op) /\ Len(SubSeq(w, 1, i)) = i
          /\ SubSeq(u, 1, i) \in Seq(Op) /\ Len(SubSeq(u, 1, i)) = i
      <4> HIDE DEF w, n
      <4>. QED
        BY <1>1, <3>1, Cut
    <3>3. \A k \in 1..i : w[k] \in Op /\ u[k] \in Op /\ w[k] = u[k]
      <4> HIDE DEF w
      <4>. QED
        BY <1>1, <3>1, ElementOfSeq
    <3>4. \A k \in 1..i : SubSeq(w, 1, i)[k] = SubSeq(u, 1, i)[k]
      <4>1. 1 \in Int /\ i \in Int
        BY <3>1
      <4>2. \A k \in 1..i - 1 + 1 : SubSeq(w, 1, i)[k] = w[1 + k - 1]
        <5> HIDE DEF w
        <5>. QED
          BY <3>3, <4>1, SubSeqProperties
      <4>3. \A k \in 1..i - 1 + 1 : SubSeq(u, 1, i)[k] = u[1 + k - 1]
        BY <3>3, <4>1, SubSeqProperties
      <4> HIDE DEF w
      <4>. QED
        BY <3>1, <3>3, <4>2, <4>3
    <3> HIDE DEF w
    <3>. QED
      BY <3>2, <3>4, SeqEqual
  <2>. QED
    BY <2>1
<1>3. SubSeq(w, 1, n + 1) = w /\ SubSeq(u, 1, n) = u
  <2> HIDE DEF w
  <2>. QED
    BY <1>1, SubSeqFull
<1>4. Consumed(w) = Consumed(u) + Consumes(e)
  <2> DEFINE v == <<e>>
  <2>1. v \in Seq(Op) /\ Consumed(v) = Consumes(e)
    <3>1. v \in Seq(Op) /\ v \o <<>> = v /\ <<>> \in Seq(Op)
      BY ConsSeq, EmptySeq, ConcatEmptySeq
    <3>2. Consumed(v \o <<>>) = Consumes(e) + Consumed(<<>>)
      BY <3>1, ConsumedCons
    <3>. QED
      BY <3>1, <3>2, ConsumedIs, OpTypes
  <2> HIDE DEF v
  <2>2. Consumed(u \o v) = Consumed(u) + Consumed(v)
    BY <2>1, ConsumedConcat
  <2>. QED
    BY <2>1, <2>2 DEF v
<1>5. e.op = "delete" => Consumes(e) = e.n
  BY DEF Consumes
<1> HIDE DEF w
<1>6. ASSUME NEW i \in 1..n
      PROVE  /\ i \in 0..n /\ i - 1 \in 0..n /\ w[i] = u[i]
             /\ SubSeq(w, 1, i) = SubSeq(u, 1, i) /\ SubSeq(w, 1, i - 1) = SubSeq(u, 1, i - 1)
  <2>1. i \in 0..n /\ i - 1 \in 0..n
    BY <1>1
  <2>. QED
    BY <1>1, <1>2, <2>1
<1>7. n + 1 - 1 = n /\ n \in 0..n /\ (\A i \in 1..n + 1 : i \in 1..n \/ i = n + 1) /\ n + 1 \in 1..n + 1
      /\ \A i \in 1..n : i \in 1..n + 1
  BY <1>1
<1>8. ASSUME Erases(w, g)
      PROVE  Erases(u, g) \/ (e.op = "delete" /\ g \in Consumed(u) + 1 .. Consumed(u) + e.n)
  <2>1. PICK i \in 1..n + 1 :
           /\ w[i].op = "delete"
           /\ g \in Consumed(SubSeq(w, 1, i - 1)) + 1 .. Consumed(SubSeq(w, 1, i))
    BY <1>1, <1>8 DEF Erases
  <2>2. CASE i \in 1..n
    <3>1. u[i].op = "delete" /\ g \in Consumed(SubSeq(u, 1, i - 1)) + 1 .. Consumed(SubSeq(u, 1, i))
      BY <1>6, <2>1, <2>2
    <3>2. i \in DOMAIN u
      BY <1>1, <2>2
    <3>. QED
      BY <3>1, <3>2 DEF Erases
  <2>3. CASE i = n + 1
    <3>1. SubSeq(w, 1, i - 1) = u /\ SubSeq(w, 1, i) = w /\ w[i] = e
      BY <1>1, <1>2, <1>3, <1>7, <2>3
    <3>. QED
      BY <1>4, <1>5, <2>1, <3>1
  <2>. QED
    BY <1>7, <2>2, <2>3
<1>9. ASSUME Erases(u, g) PROVE Erases(w, g)
  <2>1. PICK i \in 1..n :
           /\ u[i].op = "delete"
           /\ g \in Consumed(SubSeq(u, 1, i - 1)) + 1 .. Consumed(SubSeq(u, 1, i))
    BY <1>1, <1>9 DEF Erases
  <2>2. w[i].op = "delete" /\ g \in Consumed(SubSeq(w, 1, i - 1)) + 1 .. Consumed(SubSeq(w, 1, i))
    BY <1>6, <2>1
  <2>3. i \in DOMAIN w
    BY <1>1, <1>7
  <2>. QED
    BY <2>2, <2>3 DEF Erases
<1>10. ASSUME e.op = "delete", g \in Consumed(u) + 1 .. Consumed(u) + e.n PROVE Erases(w, g)
  <2> DEFINE i == n + 1
  <2>1. SubSeq(w, 1, i - 1) = u /\ SubSeq(w, 1, i) = w /\ w[i] = e /\ i \in DOMAIN w
    BY <1>1, <1>2, <1>3, <1>7
  <2> HIDE DEF i
  <2>. QED
    BY <1>4, <1>5, <1>10, <2>1 DEF Erases
<1>. QED
  BY <1>8, <1>9, <1>10 DEF w

\* addOp erases what it is told to, after what the list consumes.
LEMMA AddOpErases ==
    ASSUME NEW ops \in Seq(Op), NEW o \in Op, NEW g \in Int
    PROVE  Erases(AddOp(ops, o), g) <=>
              \/ Erases(ops, g)
              \/ o.op = "delete" /\ g \in Consumed(ops) + 1 .. Consumed(ops) + o.n
<1>1. CASE AddOp(ops, o) = ops \o <<o>>
  BY <1>1, ErasesAppend
<1>2. CASE \E f \in Seq(Op), l \in Op :
              /\ ops = f \o <<l>> /\ l.op = o.op
              /\ AddOp(ops, o) = f \o <<Merge(l, o)>>
  <2>1. PICK f \in Seq(Op), l \in Op :
              /\ ops = f \o <<l>> /\ l.op = o.op
              /\ AddOp(ops, o) = f \o <<Merge(l, o)>>
    BY <1>2
  <2> DEFINE m == Merge(l, o)
             k == Consumed(f)
  <2>2. m \in Op /\ m.op = o.op /\ m.n = l.n + o.n
    BY <2>1, MergeIs DEF Merge
  <2>3. l.n \in Nat /\ o.n \in Nat /\ k \in Nat
    BY ConsumedIs DEF Op
  <2>4. o.op = "delete" => Consumed(ops) = k + l.n
    <3> DEFINE v == <<l>>
    <3>1. v \in Seq(Op) /\ Consumed(v) = Consumes(l)
      <4>1. v \in Seq(Op) /\ v \o <<>> = v /\ <<>> \in Seq(Op)
        BY ConsSeq, EmptySeq, ConcatEmptySeq
      <4>2. Consumed(v \o <<>>) = Consumes(l) + Consumed(<<>>)
        BY <4>1, ConsumedCons
      <4>. QED
        BY <4>1, <4>2, ConsumedIs, OpTypes
    <3> HIDE DEF v
    <3>2. Consumed(f \o v) = Consumed(f) + Consumed(v)
      BY <3>1, ConsumedConcat
    <3>. QED
      BY <2>1, <3>1, <3>2 DEF v, Consumes
  <2>5. Erases(ops, g) <=> Erases(f, g) \/ (l.op = "delete" /\ g \in k + 1 .. k + l.n)
    BY <2>1, ErasesAppend
  <2>6. AddOp(ops, o) = f \o <<m>>
    BY <2>1
  <2> HIDE DEF m
  <2>7. Erases(AddOp(ops, o), g) <=> Erases(f, g) \/ (m.op = "delete" /\ g \in k + 1 .. k + m.n)
    BY <2>2, <2>6, ErasesAppend
  <2> HIDE DEF k
  <2>8. CASE o.op = "delete"
    <3>1. g \in k + 1 .. k + m.n <=> g \in k + 1 .. k + l.n \/ g \in Consumed(ops) + 1 .. Consumed(ops) + o.n
      BY <2>2, <2>3, <2>4, <2>8
    <3>. QED
      BY <2>1, <2>2, <2>5, <2>7, <2>8, <3>1
  <2>9. CASE o.op # "delete"
    BY <2>1, <2>2, <2>5, <2>7, <2>9
  <2>. QED
    BY <2>8, <2>9
<1>3. Adds(Op, ops, o)
  BY AddOpIs
<1>. QED
  BY <1>1, <1>2, <1>3 DEF Adds

\* The operations of a cell keep as many of the first i characters as it says.
Leaves(ops, i) == {g \in 1..i : ~Erases(ops, g)}
Keeps(dp, i, j, ops) ==
    /\ \A g \in Int : Erases(ops, g) => g \in 1..i
    /\ dp[<<i, j>>] <= Cardinality(Leaves(ops, i))

\* A cell of the backtracking keeps that much if the cells it may continue do:
\* it goes where the table has the larger number.
LEMMA KeepsNext ==
    ASSUME NEW old \in Text, NEW new \in Text, NEW f,
           NEW i \in 0..Len(old), NEW j \in 0..Len(new), Continues(f, old, new, i, j),
           i > 0 /\ j > 0 => Keeps(LCS(old, new), i - 1, j - 1, f[<<i - 1, j - 1>>]),
           j > 0 => Keeps(LCS(old, new), i, j - 1, f[<<i, j - 1>>]),
           i > 0 => Keeps(LCS(old, new), i - 1, j, f[<<i - 1, j>>]),
           \A x \in 0..Len(old), y \in 0..Len(new) : Reaches(old, new, x, y, f[<<x, y>>])
    PROVE  Keeps(LCS(old, new), i, j, f[<<i, j>>])
<1> DEFINE dp == LCS(old, new)
<1>1. /\ i \in Nat /\ j \in Nat
      /\ i > 0 => i - 1 \in 0..Len(old)
      /\ j > 0 => j - 1 \in 0..Len(new)
  BY CellsAre
<1>2. Longest(dp, old, new, i, j)
  BY TableIs
<1>3. \A x \in 0..Len(old), y \in 0..Len(new) :
         /\ f[<<x, y>>] \in Seq(Op) /\ Consumed(f[<<x, y>>]) = x
         /\ dp[<<x, y>>] \in Nat
  <2>1. ASSUME NEW x \in 0..Len(old), NEW y \in 0..Len(new)
        PROVE  f[<<x, y>>] \in Seq(Op) /\ Consumed(f[<<x, y>>]) = x
    <3>1. Fits(SubSeq(old, 1, x), f[<<x, y>>])
      BY DEF Reaches
    <3>2. Len(SubSeq(old, 1, x)) = x
      BY Cut DEF Text
    <3>. QED
      BY <3>1, <3>2 DEF Fits
  <2>. QED
    BY <2>1, TableIs DEF Longest
<1> HIDE DEF dp
<1>4. \A ops, k : k \in Nat => Cardinality(Leaves(ops, k)) \in Nat /\ IsFiniteSet(Leaves(ops, k))
  BY PositionsAre DEF Leaves
<1>5. ASSUME NEW ops, NEW ops2, NEW k \in Nat, NEW l \in Nat, Leaves(ops, k) \subseteq Leaves(ops2, l)
      PROVE  Cardinality(Leaves(ops, k)) <= Cardinality(Leaves(ops2, l))
  BY <1>4, <1>5, FS_Subset
<1>6. CASE i = 0 /\ j = 0 /\ f[<<i, j>>] = <<>>
  <2>1. dp[<<i, j>>] = 0
    BY <1>2, <1>6 DEF Longest
  <2>2. \A g : ~Erases(f[<<i, j>>], g)
    BY <1>6 DEF Erases
  <2>. QED
    BY <1>1, <1>4, <2>1, <2>2, SMTT(40) DEF Keeps, dp
<1>7. CASE /\ i > 0 /\ j > 0 /\ old[i] = new[j]
           /\ f[<<i, j>>] = AddOp(f[<<i - 1, j - 1>>], Retain(1))
  <2> DEFINE u == f[<<i - 1, j - 1>>]
             v == f[<<i, j>>]
  <2>1. u \in Seq(Op) /\ Retain(1) \in Op /\ Retain(1).op = "retain" /\ Keeps(dp, i - 1, j - 1, u)
        /\ dp[<<i - 1, j - 1>>] \in Nat /\ dp[<<i, j>>] = dp[<<i - 1, j - 1>>] + 1 /\ i - 1 \in Nat
    <3>1. Retain(1) \in Op /\ Retain(1).op = "retain"
      BY PlainOps DEF Retain
    <3>2. i - 1 \in Nat /\ i - 1 \in 0..Len(old) /\ j - 1 \in 0..Len(new)
      BY <1>1, <1>7
    <3>3. u \in Seq(Op) /\ dp[<<i - 1, j - 1>>] \in Nat
      BY <1>3, <3>2
    <3>4. dp[<<i, j>>] = dp[<<i - 1, j - 1>>] + 1
      BY <1>2, <1>7 DEF Longest
    <3>5. Keeps(dp, i - 1, j - 1, u)
      BY <1>7 DEF dp
    <3>. QED
      BY <3>1, <3>2, <3>3, <3>4, <3>5
  <2>2. \A g \in Int : Erases(v, g) <=> Erases(u, g)
    BY <1>7, <2>1, AddOpErases
  <2> HIDE DEF u, v
  <2>3. \A g \in Int : Erases(v, g) => g \in 1..i - 1
    BY <2>1, <2>2 DEF Keeps
  <2> DEFINE a == Leaves(u, i - 1)
             b == Leaves(v, i)
  <2>4. b = a \cup {i} /\ i \notin a
    <3>1. ASSUME NEW g \in 1..i PROVE g \in 1..i - 1 \/ g = i
      BY <1>1
    <3>2. i \in 1..i /\ i \notin 1..i - 1 /\ i \in Int /\ \A g \in 1..i - 1 : g \in 1..i /\ g \in Int
      BY <1>1, <1>7
    <3>. QED
      BY <2>2, <2>3, <3>1, <3>2 DEF Leaves
  <2>5. IsFiniteSet(a) /\ Cardinality(a) \in Nat
    BY <1>4, <2>1
  <2> HIDE DEF a, b
  <2>6. Cardinality(a \cup {i}) = IF i \in a THEN Cardinality(a) ELSE Cardinality(a) + 1
    BY <2>5, FS_AddElement
  <2>7. Cardinality(b) = Cardinality(a) + 1
    BY <2>4, <2>6
  <2>8. dp[<<i - 1, j - 1>>] <= Cardinality(a)
    BY <2>1 DEF Keeps, a
  <2>9. dp[<<i, j>>] <= Cardinality(b)
    BY <2>1, <2>5, <2>7, <2>8
  <2>10. \A g \in Int : Erases(v, g) => g \in 1..i
    BY <1>1, <2>3
  <2>. QED
    BY <2>9, <2>10 DEF Keeps, v, b, dp
<1>8. CASE /\ j > 0 /\ ~(i > 0 /\ j > 0 /\ old[i] = new[j]) /\ BacktrackInserts(dp, i, j)
           /\ f[<<i, j>>] = AddOp(f[<<i, j - 1>>], Insert(<<new[j]>>))
  <2> DEFINE u == f[<<i, j - 1>>]
             v == f[<<i, j>>]
             o == Insert(<<new[j]>>)
  <2>1. u \in Seq(Op) /\ Keeps(dp, i, j - 1, u) /\ dp[<<i, j - 1>>] \in Nat
    BY <1>1, <1>3, <1>8 DEF dp
  <2>2. o \in Op /\ o.op = "insert"
    <3>1. new[j] \in Nat
      BY <1>8, CellsAre
    <3>2. <<new[j]>> \in Text
      BY <3>1 DEF Text
    <3>. QED
      BY <3>2, OpsOf DEF Insert
  <2>3. v = AddOp(u, o)
    BY <1>8
  <2> HIDE DEF u, v, o
  <2>4. \A g \in Int : Erases(v, g) <=> Erases(u, g)
    BY <2>1, <2>2, <2>3, AddOpErases
  <2>5. Leaves(u, i) = Leaves(v, i)
    <3>1. \A g \in 1..i : g \in Int
      OBVIOUS
    <3>. QED
      BY <2>4, <3>1 DEF Leaves
  <2>6. dp[<<i, j>>] = dp[<<i, j - 1>>] \/ dp[<<i, j>>] = 0
    <3>1. CASE i = 0
      BY <1>2, <3>1 DEF Longest
    <3>2. CASE i > 0
      <4>1. dp[<<i, j>>] = IF dp[<<i - 1, j>>] > dp[<<i, j - 1>>]
                           THEN dp[<<i - 1, j>>] ELSE dp[<<i, j - 1>>]
        BY <1>2, <1>8, <3>2 DEF Longest
      <4>2. dp[<<i, j - 1>>] >= dp[<<i - 1, j>>]
        BY <1>1, <1>8, <3>2 DEF BacktrackInserts
      <4>3. dp[<<i - 1, j>>] \in Nat
        BY <1>1, <1>3, <3>2
      <4>. QED
        BY <2>1, <4>1, <4>2, <4>3
    <3>. QED
      BY <1>1, <3>1, <3>2
  <2>7. dp[<<i, j - 1>>] <= Cardinality(Leaves(v, i)) /\ Cardinality(Leaves(v, i)) \in Nat
    BY <1>1, <1>4, <2>1, <2>5 DEF Keeps
  <2>8. dp[<<i, j>>] <= Cardinality(Leaves(v, i))
    BY <2>6, <2>7
  <2>. QED
    BY <2>1, <2>4, <2>8 DEF Keeps, v, dp
<1>9. CASE /\ i > 0 /\ ~(i > 0 /\ j > 0 /\ old[i] = new[j]) /\ ~BacktrackInserts(dp, i, j)
           /\ f[<<i, j>>] = AddOp(f[<<i - 1, j>>], Delete(1))
  <2> DEFINE u == f[<<i - 1, j>>]
             v == f[<<i, j>>]
  <2>1. u \in Seq(Op) /\ Consumed(u) = i - 1 /\ Delete(1) \in Op /\ Delete(1).n = 1 /\ Keeps(dp, i - 1, j, u)
        /\ dp[<<i - 1, j>>] \in Nat /\ i - 1 \in Nat
    BY <1>1, <1>3, <1>9, PlainOps, SMTT(40) DEF Delete, dp
  <2>2. \A g \in Int : Erases(v, g) => Erases(u, g) \/ g \in i - 1 + 1 .. i - 1 + 1
    BY <1>9, <2>1, AddOpErases
  <2> HIDE DEF u, v
  <2>3. \A g \in Int : Erases(v, g) => Erases(u, g) \/ g = i
    BY <1>1, <2>2
  <2>4. \A g \in Int : Erases(v, g) => g \in 1..i
    <3>1. ASSUME NEW g \in Int, Erases(v, g) PROVE g \in 1..i
      <4>1. g \in 1..i - 1 \/ g = i
        BY <2>1, <2>3, <3>1 DEF Keeps
      <4>. QED
        BY <1>1, <1>9, <4>1
    <3>. QED
      BY <3>1
  <2>5. Leaves(u, i - 1) \subseteq Leaves(v, i)
    <3>1. \A g \in 1..i - 1 : g \in Int /\ g \in 1..i /\ g # i
      BY <1>1
    <3>. QED
      BY <2>3, <3>1 DEF Leaves
  <2>6. dp[<<i, j>>] = dp[<<i - 1, j>>] \/ dp[<<i, j>>] = 0
    <3>1. CASE j = 0
      BY <1>2, <3>1 DEF Longest
    <3>2. CASE j > 0
      <4>1. dp[<<i, j>>] = IF dp[<<i - 1, j>>] > dp[<<i, j - 1>>]
                           THEN dp[<<i - 1, j>>] ELSE dp[<<i, j - 1>>]
        BY <1>2, <1>9, <3>2 DEF Longest
      <4>2. ~(dp[<<i, j - 1>>] >= dp[<<i - 1, j>>])
        BY <1>1, <1>9, <3>2 DEF BacktrackInserts
      <4>3. dp[<<i, j - 1>>] \in Nat
        BY <1>1, <1>3, <3>2
      <4>. QED
        BY <2>1, <4>1, <4>2, <4>3
    <3>. QED
      BY <1>1, <3>1, <3>2
  <2>7. /\ dp[<<i - 1, j>>] <= Cardinality(Leaves(u, i - 1))
        /\ Cardinality(Leaves(u, i - 1)) <= Cardinality(Leaves(v, i))
        /\ Cardinality(Leaves(u, i - 1)) \in Nat /\ Cardinality(Leaves(v, i)) \in Nat
    BY <1>1, <1>4, <1>5, <2>1, <2>5 DEF Keeps
  <2>8. dp[<<i, j>>] <= Cardinality(Leaves(v, i))
    BY <2>1, <2>6, <2>7
  <2>. QED
    BY <2>4, <2>8 DEF Keeps, v, dp
<1>. QED
  BY <1>6, <1>7, <1>8, <1>9 DEF Continues, dp

\* Every cell of the backtracking keeps a longest common subsequence.
LEMMA EveryCellKeeps ==
    ASSUME NEW old \in Text, NEW new \in Text
    PROVE  \A i \in 0..Len(old), j \in 0..Len(new) :
              Keeps(LCS(old, new), i, j, Segments(old, new)[<<i, j>>])
<1> DEFINE dp == LCS(old, new)
           f == Segments(old, new)
           T == {c \in Cells(old, new) : Keeps(dp, c[1], c[2], f[<<c[1], c[2]>>])}
<1>1. \A i \in 0..Len(old), j \in 0..Len(new) :
         <<i, j>> \in T <=> Keeps(dp, i, j, f[<<i, j>>])
  <2> HIDE DEF dp, f
  <2>. QED
    BY CellsAre
<1>2. \A i \in 0..Len(old), j \in 0..Len(new) :
         Continues(f, old, new, i, j) /\ Reaches(old, new, i, j, f[<<i, j>>])
  BY SegmentsAre, EveryCellReaches
<1> HIDE DEF T, f
<1>3. ASSUME NEW i \in 0..Len(old), NEW j \in 0..Len(new),
             i > 0 /\ j > 0 => <<i - 1, j - 1>> \in T,
             i > 0 => <<i - 1, j>> \in T,
             j > 0 => <<i, j - 1>> \in T
      PROVE  <<i, j>> \in T
  <2>1. /\ i > 0 => i - 1 \in 0..Len(old)
        /\ j > 0 => j - 1 \in 0..Len(new)
    BY CellsAre
  <2>2. /\ i > 0 /\ j > 0 => Keeps(dp, i - 1, j - 1, f[<<i - 1, j - 1>>])
        /\ j > 0 => Keeps(dp, i, j - 1, f[<<i, j - 1>>])
        /\ i > 0 => Keeps(dp, i - 1, j, f[<<i - 1, j>>])
    <3> HIDE DEF dp
    <3>. QED
      BY <1>1, <1>3, <2>1
  <2>3. Keeps(dp, i, j, f[<<i, j>>])
    BY <1>2, <2>2, KeepsNext
  <2>. QED
    BY <1>1, <2>3
<1>4. \A i \in 0..Len(old), j \in 0..Len(new) : <<i, j>> \in T
  BY <1>3, CellInduction
<1>. QED
  BY <1>1, <1>4 DEF f

\* The changeset of two texts keeps at least as much of the first as any common
\* subsequence of them: what no user touched is not erased and typed again more
\* often than it must.
THEOREM NothingMoreIsKept ==
    ASSUME NEW old \in Text, NEW new \in Text, NEW P \in SUBSET DOMAIN old,
           IsSubsequenceAt(old, new, P)
    PROVE  Cardinality(P) <= Cardinality(Kept(DiffToChangeset(old, new)))
<1> DEFINE i == Len(old)
           j == Len(new)
           L == Segments(old, new)[<<i, j>>]
           d == LCS(old, new)[<<i, j>>]
           c == DiffToChangeset(old, new)
<1>1. i \in Nat /\ j \in Nat /\ i \in 0..Len(old) /\ j \in 0..Len(new)
      /\ DOMAIN old = 1..i /\ DOMAIN new = 1..j
  BY TextNil, LenProperties DEF Text
<1>2. c.old_len = i /\ c.ops = L
  BY DEF DiffToChangeset
<1>3. Kept(c) = Leaves(L, i)
  <2> HIDE DEF c, L, i
  <2>. QED
    BY <1>2 DEF Kept, Leaves, Deletes, Erases
<1>4. d \in Nat /\ d <= Cardinality(Kept(c))
  <2>1. Keeps(LCS(old, new), i, j, L)
    BY <1>1, EveryCellKeeps
  <2>2. Longest(LCS(old, new), old, new, i, j)
    BY <1>1, TableIs
  <2> HIDE DEF c, L, i, j
  <2>. QED
    BY <1>3, <2>1, <2>2 DEF Keeps, Longest
<1>5. Cardinality(P) <= d
  <2>1. \E f : Embeds(old, new, P, f, j)
    BY <1>1 DEF IsSubsequenceAt, Embeds
  <2>2. Bounds(LCS(old, new), old, new, i, j)
    BY <1>1, TableBounds
  <2>3. P \in SUBSET (1..i)
    BY <1>1
  <2> HIDE DEF i, j
  <2>. QED
    BY <2>1, <2>2, <2>3 DEF Bounds
<1>6. Cardinality(P) \in Nat /\ Cardinality(Kept(c)) \in Nat
  <2>1. Cardinality(P) \in Nat
    BY <1>1, PositionsAre
  <2>2. Kept(c) \in SUBSET (1..i)
    BY <1>3 DEF Leaves
  <2> HIDE DEF c, i
  <2>. QED
    BY <1>1, <2>1, <2>2, PositionsAre
<1> HIDE DEF c, d
<1>7. Cardinality(P) <= Cardinality(Kept(c))
  BY <1>4, <1>5, <1>6
<1>. QED
  BY <1>7 DEF c

\* The difference of the document and any text makes the text of it, and no
\* changeset keeps more of the document.
THEOREM DifferencesAreMinimal == Spec => []DiffIsMinimal
<1>1. ASSUME EditsInv PROVE DiffIsMinimal
  <2>1. doc \in Text
    BY <1>1, EditsMean, SuitsText DEF Suits, Fits
  <2>2. SUFFICES ASSUME NEW t \in Documents
                 PROVE  LET c == DiffToChangeset(doc, t) IN
                        /\ Validate(c) /\ Applicable(doc, c)
                        /\ ApplyChangeset(doc, c) = t
                        /\ \A P \in SUBSET DOMAIN doc :
                              Cardinality(P) > Cardinality(Kept(c)) => ~IsSubsequenceAt(doc, t, P)
    BY DEF DiffIsMinimal
  <2> DEFINE c == DiffToChangeset(doc, t)
  <2>3. t \in Text
    BY DocumentsAre, CharText
  <2>4. Validate(c) /\ Applicable(doc, c) /\ ApplyChangeset(doc, c) = t
    BY <2>1, <2>3, DiffSuits, SuitsIsValid
  <2>5. ASSUME NEW P \in SUBSET DOMAIN doc, Cardinality(P) > Cardinality(Kept(c))
        PROVE  ~IsSubsequenceAt(doc, t, P)
    <3>1. DOMAIN doc = 1..Len(doc) /\ Len(doc) \in Nat
      BY <2>1, TextNil, LenProperties DEF Text
    <3>2. Cardinality(P) \in Nat
      BY <3>1, PositionsAre
    <3>3. Kept(c) \in SUBSET (1..Len(doc))
      BY DEF Kept, DiffToChangeset
    <3> HIDE DEF c
    <3>4. Cardinality(Kept(c)) \in Nat
      BY <3>1, <3>3, PositionsAre
    <3>5. ~(Cardinality(P) <= Cardinality(Kept(c)))
      BY <2>5, <3>2, <3>4
    <3>. QED
      BY <2>1, <2>3, <3>5, NothingMoreIsKept DEF c
  <2>. QED
    BY <2>4, <2>5
<1>. QED
  BY <1>1, EditsInductive, PTL

-------------------------------------------------------------------------------
(* What both sites reach is the merge of their edits, gap by gap.          *)

\* The insertions in a gap, and their text, of a list of operations.
Places(ops, g) ==
    {i \in DOMAIN ops : ops[i].op = "insert" /\ Consumed(SubSeq(ops, 1, i - 1)) = g}
Ins(ops, g) == IF Places(ops, g) = {} THEN <<>> ELSE ops[CHOOSE i \in Places(ops, g) : TRUE].chars

\* A list with one more operation in front, and what its prefixes consume.
LEMMA ConsPrefix ==
    ASSUME NEW o \in Op, NEW q \in Seq(Op)
    PROVE  /\ DOMAIN (<<o>> \o q) = 1..Len(q) + 1 /\ DOMAIN q = 1..Len(q) /\ Len(q) \in Nat
           /\ (<<o>> \o q)[1] = o
           /\ Consumed(SubSeq(<<o>> \o q, 1, 0)) = 0
           /\ Consumed(SubSeq(<<o>> \o q, 1, 1)) = Consumes(o)
           /\ \A i \in 1..Len(q) :
                 /\ (<<o>> \o q)[i + 1] = q[i]
                 /\ Consumed(SubSeq(<<o>> \o q, 1, i)) = Consumes(o) + Consumed(SubSeq(q, 1, i - 1))
                 /\ Consumed(SubSeq(<<o>> \o q, 1, i + 1)) = Consumes(o) + Consumed(SubSeq(q, 1, i))
                 /\ Consumed(SubSeq(q, 1, i - 1)) \in Nat
                 /\ Consumed(SubSeq(q, 1, i)) \in Nat
<1> DEFINE w == <<o>> \o q
           n == Len(q)
<1>1. w \in Seq(Op) /\ w # <<>> /\ Head(w) = o /\ Tail(w) = q /\ Len(w) = n + 1 /\ n \in Nat
  BY ConsSeq, LenProperties
<1> HIDE DEF w
<1>2. w[1] = o /\ (\A i \in 1..n : w[i + 1] = q[i]) /\ DOMAIN w = 1..n + 1 /\ DOMAIN q = 1..n
  <2>1. Head(w) = w[1] /\ \A i \in 1..Len(Tail(w)) : Tail(w)[i] = w[i + 1]
    BY <1>1, HeadTailProperties
  <2>2. DOMAIN w = 1..Len(w) /\ DOMAIN q = 1..n
    BY <1>1, LenProperties
  <2>. QED
    BY <1>1, <2>1, <2>2
<1>3. SubSeq(w, 1, 0) = <<>>
  BY SubSeqEmpty
<1>4. ASSUME NEW k \in 0..n
      PROVE  /\ Consumed(SubSeq(w, 1, k + 1)) = Consumes(o) + Consumed(SubSeq(q, 1, k))
             /\ Consumed(SubSeq(q, 1, k)) \in Nat
  <2> DEFINE u == SubSeq(q, 1, k)
             v == SubSeq(w, 1, k + 1)
             z == <<o>> \o u
  <2>1. u \in Seq(Op) /\ Len(u) = k
    BY Cut
  <2>2. k + 1 \in 0..Len(w) /\ k \in Nat
    BY <1>1
  <2>3. v \in Seq(Op) /\ Len(v) = k + 1
    BY <1>1, <2>2, Cut
  <2>4. \A i \in 1..k : u[i] = q[i]
    <3>1. 1 \in Int /\ k \in Int /\ \A i \in 1..k : q[i] \in Op
      BY <1>1, <2>2, ElementOfSeq
    <3>2. \A i \in 1..k - 1 + 1 : u[i] = q[1 + i - 1]
      BY <3>1, SubSeqProperties
    <3>. QED
      BY <2>2, <3>2
  <2>5. \A i \in 1..k + 1 : v[i] = w[i]
    <3> DEFINE m == k + 1
    <3>1. 1 \in Int /\ m \in Int /\ \A i \in 1..m : w[i] \in Op
      BY <1>1, <2>2, ElementOfSeq
    <3> HIDE DEF m
    <3>2. \A i \in 1..m - 1 + 1 : SubSeq(w, 1, m)[i] = w[1 + i - 1]
      BY <3>1, SubSeqProperties
    <3>. QED
      BY <2>2, <3>1, <3>2 DEF m
  <2> HIDE DEF u, v
  <2>6. z \in Seq(Op) /\ Len(z) = k + 1 /\ z[1] = o /\ (\A i \in 1..k : z[i + 1] = u[i])
    <3>1. z \in Seq(Op) /\ z # <<>> /\ Head(z) = o /\ Tail(z) = u /\ Len(z) = 1 + Len(u)
      BY <2>1, ConsSeq
    <3> HIDE DEF z
    <3>2. Head(z) = z[1] /\ \A i \in 1..Len(Tail(z)) : Tail(z)[i] = z[i + 1]
      BY <3>1, HeadTailProperties
    <3>. QED
      BY <2>1, <2>2, <3>1, <3>2, SMTT(40)
  <2>7. \A i \in 1..k + 1 : v[i] = z[i]
    <3>1. ASSUME NEW i \in 1..k + 1 PROVE v[i] = z[i]
      <4>1. CASE i = 1
        BY <1>2, <2>5, <2>6, <4>1
      <4>2. CASE i # 1
        <5> DEFINE h == i - 1
        <5>1. h \in 1..k /\ h \in 1..n /\ h + 1 = i
          BY <1>1, <2>2, <4>2
        <5> HIDE DEF h, z
        <5>2. z[h + 1] = u[h] /\ w[h + 1] = q[h] /\ u[h] = q[h]
          BY <1>2, <2>4, <2>6, <5>1
        <5>. QED
          BY <2>5, <5>1, <5>2
      <4>. QED
        BY <4>1, <4>2
    <3>. QED
      BY <3>1
  <2>8. v = z
    <3> HIDE DEF z
    <3>. QED
      BY <2>3, <2>6, <2>7, SeqEqual
  <2>9. Consumed(z) = Consumes(o) + Consumed(u) /\ Consumed(u) \in Nat
    BY <2>1, ConsumedCons
  <2>. QED
    BY <2>8, <2>9 DEF u, v
<1>5. ASSUME NEW i \in 1..n
      PROVE  /\ Consumed(SubSeq(w, 1, i)) = Consumes(o) + Consumed(SubSeq(q, 1, i - 1))
             /\ Consumed(SubSeq(w, 1, i + 1)) = Consumes(o) + Consumed(SubSeq(q, 1, i))
             /\ Consumed(SubSeq(q, 1, i - 1)) \in Nat
             /\ Consumed(SubSeq(q, 1, i)) \in Nat
  <2>1. i \in 0..n /\ i - 1 \in 0..n /\ i - 1 + 1 = i
    BY <1>1
  <2>. QED
    BY <1>4, <2>1
<1>6. Consumed(SubSeq(w, 1, 1)) = Consumes(o)
  <2>1. 0 \in 0..n /\ 0 + 1 = 1
    BY <1>1
  <2>2. SubSeq(q, 1, 0) = <<>>
    BY SubSeqEmpty
  <2>. QED
    <3>1. Consumed(SubSeq(w, 1, 0 + 1)) = Consumes(o) + Consumed(SubSeq(q, 1, 0))
      BY <1>4, <2>1
    <3>2. Consumes(o) + 0 = Consumes(o)
      BY OpTypes
    <3>. QED
      BY <2>1, <2>2, <3>1, <3>2, ConsumedIs
<1>. QED
  BY <1>1, <1>2, <1>3, <1>5, <1>6, ConsumedIs DEF w

\* The insertions of a list with one more operation in front.
LEMMA PlacesCons ==
    ASSUME NEW o \in Op, NEW q \in Seq(Op), NEW g \in Int
    PROVE  \A i : i \in Places(<<o>> \o q, g) <=>
              \/ i = 1 /\ o.op = "insert" /\ g = 0
              \/ i - 1 \in Places(q, g - Consumes(o)) /\ i \in Int
<1> DEFINE w == <<o>> \o q
           n == Len(q)
<1>1. DOMAIN w = 1..n + 1 /\ DOMAIN q = 1..n /\ n \in Nat /\ w[1] = o /\ Consumes(o) \in Nat
      /\ Consumed(SubSeq(w, 1, 0)) = 0
      /\ \A i \in 1..n :
            /\ w[i + 1] = q[i]
            /\ Consumed(SubSeq(w, 1, i)) = Consumes(o) + Consumed(SubSeq(q, 1, i - 1))
            /\ Consumed(SubSeq(q, 1, i - 1)) \in Nat
  BY ConsPrefix, OpTypes
<1> HIDE DEF w
<1>2. 1 \in Places(w, g) <=> o.op = "insert" /\ g = 0
  <2>1. 1 \in DOMAIN w /\ 1 - 1 = 0
    BY <1>1
  <2>. QED
    BY <1>1, <2>1 DEF Places
<1>3. ASSUME NEW i \in 1..n PROVE i + 1 \in Places(w, g) <=> i \in Places(q, g - Consumes(o))
  <2>1. i + 1 \in DOMAIN w /\ i \in DOMAIN q /\ i + 1 - 1 = i
    BY <1>1
  <2>2. Consumed(SubSeq(w, 1, i)) = g <=> Consumed(SubSeq(q, 1, i - 1)) = g - Consumes(o)
    BY <1>1
  <2>. QED
    BY <1>1, <2>1, <2>2 DEF Places
<1>4. \A i : i \in Places(w, g) => i = 1 \/ i - 1 \in 1..n
  BY <1>1 DEF Places
<1>5. \A i : i \in Places(q, g - Consumes(o)) => i \in 1..n
  BY <1>1 DEF Places
<1>6. 1 - 1 \notin 1..n
  BY <1>1
<1>7. ASSUME NEW i, i \in Places(w, g), i # 1
      PROVE  i - 1 \in Places(q, g - Consumes(o)) /\ i \in Int
  <2>1. i \in 1..n + 1 /\ i - 1 \in 1..n
    BY <1>1, <1>4, <1>7 DEF Places
  <2>2. i - 1 + 1 = i
    BY <2>1
  <2>. QED
    BY <1>3, <1>7, <2>1, <2>2
<1>8. ASSUME NEW i \in Int, i - 1 \in Places(q, g - Consumes(o)) PROVE i \in Places(w, g)
  <2>1. i - 1 \in 1..n /\ i - 1 + 1 = i
    BY <1>5, <1>8
  <2>. QED
    BY <1>3, <1>8, <2>1
<1>. QED
  BY <1>2, <1>7, <1>8 DEF w

\* No gap has two insertions in it, as no two insertions are next to each other.
LEMMA OneInAGap ==
    ASSUME NEW ops, Normal(ops)
    PROVE  /\ \A g \in Int : \A i, j \in Places(ops, g) : i = j
           /\ \A g \in Int : g < 0 => Places(ops, g) = {}
           /\ ~At(ops, "insert") => Places(ops, 0) = {}
<1> DEFINE Fine(q) == Normal(q) =>
             /\ \A g \in Int : \A i, j \in Places(q, g) : i = j
             /\ \A g \in Int : g < 0 => Places(q, g) = {}
             /\ ~At(q, "insert") => Places(q, 0) = {}
           T == {q \in Seq(Op) : Fine(q)}
<1>1. <<>> \in T
  <2>1. \A g : Places(<<>>, g) = {}
    BY DEF Places
  <2>. QED
    BY <2>1, EmptySeq
<1>2. ASSUME NEW q \in Seq(Op), q # <<>>, Tail(q) \in T PROVE q \in T
  <2>1. SUFFICES ASSUME Normal(q)
                 PROVE  /\ \A g \in Int : \A i, j \in Places(q, g) : i = j
                        /\ \A g \in Int : g < 0 => Places(q, g) = {}
                        /\ ~At(q, "insert") => Places(q, 0) = {}
    OBVIOUS
  <2> DEFINE o == Head(q)
             r == Tail(q)
             c == Consumes(o)
  <2>2. o \in Op /\ o \in Plain /\ r \in Seq(Op) /\ q = <<o>> \o r /\ Normal(r)
        /\ (r # <<>> => Head(r).op # o.op)
    BY <1>2, <2>1, HeadAndTail, NormalTail
  <2>3. /\ \A g \in Int : \A i, j \in Places(r, g) : i = j
        /\ \A g \in Int : g < 0 => Places(r, g) = {}
        /\ ~At(r, "insert") => Places(r, 0) = {}
    BY <1>2, <2>2
  <2>4. c \in Nat /\ (o.op = "insert" => c = 0) /\ (o.op # "insert" => c > 0)
    BY <2>2, OpTypes, PlainOps DEF Consumes, Size
  <2>5. \A g \in Int : g - c \in Int
    BY <2>4
  <2>6. \A g \in Int : \A i : i \in Places(q, g) <=>
              \/ i = 1 /\ o.op = "insert" /\ g = 0
              \/ i - 1 \in Places(r, g - c) /\ i \in Int
    BY <2>2, PlacesCons
  <2>7. o.op = "insert" => Places(r, 0) = {}
    BY <2>2, <2>3 DEF At
  <2>8. At(q, "insert") <=> o.op = "insert"
    BY <1>2 DEF At
  <2> HIDE DEF o, r, c
  <2>9. ASSUME NEW g \in Int, NEW i \in Places(q, g), NEW j \in Places(q, g) PROVE i = j
    <3>1. CASE o.op = "insert" /\ g = 0
      <4>1. Places(r, g - c) = {}
        BY <2>4, <2>7, <3>1
      <4>. QED
        BY <2>6, <2>9, <4>1
    <3>2. CASE ~(o.op = "insert" /\ g = 0)
      <4>1. i - 1 \in Places(r, g - c) /\ j - 1 \in Places(r, g - c) /\ i \in Int /\ j \in Int
        BY <2>6, <2>9, <3>2
      <4>2. i - 1 = j - 1
        BY <2>3, <2>5, <4>1
      <4>. QED
        BY <4>1, <4>2
    <3>. QED
      BY <3>1, <3>2
  <2>10. ASSUME NEW g \in Int, g < 0 PROVE Places(q, g) = {}
    <3>1. g - c < 0 /\ g # 0
      BY <2>4, <2>10
    <3>2. Places(r, g - c) = {}
      BY <2>3, <2>5, <3>1
    <3>. QED
      BY <2>6, <3>1, <3>2
  <2>11. ASSUME ~At(q, "insert") PROVE Places(q, 0) = {}
    <3>1. 0 - c < 0 /\ o.op # "insert" /\ 0 - c \in Int
      BY <2>4, <2>8, <2>11
    <3>2. Places(r, 0 - c) = {}
      BY <2>3, <3>1
    <3>. QED
      BY <2>6, <3>1, <3>2
  <2>. QED
    BY <2>9, <2>10, <2>11
<1>3. \A q \in Seq(Op) : q \in T
  <2> HIDE DEF T
  <2>. QED
    BY <1>1, <1>2, ListInduction
<1>4. ops \in Seq(Op)
  BY PlainOps, SeqMonotonic DEF Normal
<1>. QED
  BY <1>3, <1>4

\* The inserted text of a gap, of a list with one more operation in front.
LEMMA InsCons ==
    ASSUME NEW o \in Op, NEW q \in Seq(Op), Normal(<<o>> \o q), Normal(q), NEW g \in Int
    PROVE  /\ o.op = "insert" => /\ Ins(<<o>> \o q, 0) = o.chars /\ Ins(q, 0) = <<>>
                                 /\ g # 0 => Ins(<<o>> \o q, g) = Ins(q, g)
           /\ o.op # "insert" => Ins(<<o>> \o q, g) = Ins(q, g - o.n)
<1> DEFINE w == <<o>> \o q
           c == Consumes(o)
           n == Len(q)
<1>1. w[1] = o /\ (\A i \in 1..n : w[i + 1] = q[i]) /\ DOMAIN q = 1..n /\ n \in Nat
  BY ConsPrefix
<1>2. c \in Nat /\ (o.op = "insert" => c = 0) /\ (o.op # "insert" => c = o.n)
  BY OpTypes DEF Consumes
<1>3. \A h \in Int : \A i : i \in Places(w, h) <=>
              \/ i = 1 /\ o.op = "insert" /\ h = 0
              \/ i - 1 \in Places(q, h - c) /\ i \in Int
  BY PlacesCons
<1>4. \A h \in Int : \A i, j \in Places(w, h) : i = j
  BY OneInAGap
<1>5. \A h \in Int : \A i, j \in Places(q, h) : i = j
  BY OneInAGap
<1>6. ~At(q, "insert") => Places(q, 0) = {}
  BY OneInAGap
<1>7. o.op = "insert" => ~At(q, "insert")
  <2>1. w # <<>> /\ Head(w) = o /\ Tail(w) = q
    BY ConsSeq
  <2> HIDE DEF w
  <2>2. q # <<>> => Head(q).op # o.op
    BY <2>1, NormalTail DEF w
  <2>. QED
    BY <2>2 DEF At
<1> HIDE DEF w, c
<1>8. ASSUME NEW h \in Int, NEW i \in Places(q, h - c)
      PROVE  i + 1 \in Places(w, h) /\ w[i + 1] = q[i]
  <2>1. i \in 1..n
    BY <1>1 DEF Places
  <2>2. i + 1 \in Int /\ i + 1 - 1 = i
    BY <2>1
  <2>3. w[i + 1] = q[i]
    BY <1>1, <2>1
  <2>4. i + 1 \in Places(w, h)
    <3> DEFINE j == i + 1
    <3>1. j \in Int /\ j - 1 = i
      BY <2>1
    <3> HIDE DEF j
    <3>2. j - 1 \in Places(q, h - c)
      BY <1>8, <3>1
    <3>3. j \in Places(w, h)
      BY <1>3, <3>1, <3>2
    <3>. QED
      BY <3>3 DEF j
  <2>. QED
    BY <2>3, <2>4
<1>9. ASSUME NEW h \in Int, ~(o.op = "insert" /\ h = 0) PROVE Ins(w, h) = Ins(q, h - c)
  <2>0. h - c \in Int
    BY <1>2
  <2>1. CASE Places(q, h - c) = {}
    <3>1. Places(w, h) = {}
      BY <1>3, <1>9, <2>1
    <3>. QED
      BY <2>1, <3>1 DEF Ins
  <2>2. CASE Places(q, h - c) # {}
    <3> DEFINE i == CHOOSE k \in Places(q, h - c) : TRUE
               j == CHOOSE k \in Places(w, h) : TRUE
    <3>1. i \in Places(q, h - c)
      BY <2>2
    <3> HIDE DEF i
    <3>2. i + 1 \in Places(w, h) /\ w[i + 1] = q[i]
      BY <1>8, <3>1
    <3>3. j \in Places(w, h)
      BY <3>2
    <3> HIDE DEF j
    <3>4. j = i + 1
      BY <1>4, <3>2, <3>3
    <3>. QED
      BY <2>2, <3>2, <3>4 DEF Ins, i, j
  <2>. QED
    BY <2>1, <2>2
<1>10. ASSUME o.op = "insert" PROVE Ins(w, 0) = o.chars /\ Ins(q, 0) = <<>>
  <2> DEFINE j == CHOOSE k \in Places(w, 0) : TRUE
  <2>1. 1 \in Places(w, 0)
    BY <1>3, <1>10
  <2>2. j \in Places(w, 0)
    BY <2>1
  <2> HIDE DEF j
  <2>3. j = 1
    BY <1>4, <2>1, <2>2
  <2>4. Ins(w, 0) = o.chars
    BY <1>1, <2>1, <2>3 DEF Ins, j
  <2>5. Ins(q, 0) = <<>>
    BY <1>6, <1>7, <1>10 DEF Ins
  <2>. QED
    BY <2>4, <2>5
<1>11. g - 0 = g
  OBVIOUS
<1>. QED
  BY <1>2, <1>9, <1>10, <1>11 DEF w

\* The text of a gap is a text, and there is none before the first gap, or in it
\* if the list does not begin with an insertion.
LEMMA InsIs ==
    ASSUME NEW ops, Normal(ops)
    PROVE  /\ \A g \in Int : Ins(ops, g) \in Text
           /\ \A g \in Int : g < 0 => Ins(ops, g) = <<>>
           /\ ~At(ops, "insert") => Ins(ops, 0) = <<>>
<1>1. /\ \A g \in Int : g < 0 => Places(ops, g) = {}
      /\ ~At(ops, "insert") => Places(ops, 0) = {}
  BY OneInAGap
<1>2. ops \in Seq(Op)
  BY PlainOps, SeqMonotonic DEF Normal
<1>3. ASSUME NEW g \in Int PROVE Ins(ops, g) \in Text
  <2>1. CASE Places(ops, g) = {}
    BY <2>1, TextNil DEF Ins
  <2>2. CASE Places(ops, g) # {}
    <3> DEFINE i == CHOOSE k \in Places(ops, g) : TRUE
    <3>1. i \in Places(ops, g)
      BY <2>2
    <3> HIDE DEF i
    <3>2. i \in 1..Len(ops)
      BY <1>2, <3>1, LenProperties DEF Places
    <3>3. ops[i] \in Op
      BY <1>2, <3>2, ElementOfSeq
    <3>. QED
      BY <2>2, <3>3 DEF Ins, i, Op
  <2>. QED
    BY <2>1, <2>2
<1>. QED
  BY <1>1, <1>3 DEF Ins

\* What a list with one more operation in front erases; nothing before the first
\* character.
LEMMA ErasesCons ==
    ASSUME NEW o \in Op, NEW q \in Seq(Op), NEW g \in Int
    PROVE  /\ Erases(<<o>> \o q, g) <=>
                 \/ o.op = "delete" /\ g \in 1..o.n
                 \/ Erases(q, g - Consumes(o))
           /\ Erases(q, g) => g > 0
<1> DEFINE w == <<o>> \o q
           c == Consumes(o)
           n == Len(q)
<1>1. /\ DOMAIN w = 1..n + 1 /\ DOMAIN q = 1..n /\ n \in Nat /\ w[1] = o /\ c \in Nat
      /\ Consumed(SubSeq(w, 1, 0)) = 0 /\ Consumed(SubSeq(w, 1, 1)) = c
      /\ \A i \in 1..n :
            /\ w[i + 1] = q[i]
            /\ Consumed(SubSeq(w, 1, i)) = c + Consumed(SubSeq(q, 1, i - 1))
            /\ Consumed(SubSeq(w, 1, i + 1)) = c + Consumed(SubSeq(q, 1, i))
            /\ Consumed(SubSeq(q, 1, i - 1)) \in Nat
            /\ Consumed(SubSeq(q, 1, i)) \in Nat
  BY ConsPrefix, OpTypes
<1>2. o.op = "delete" => c = o.n
  BY DEF Consumes
<1> HIDE DEF w, c
<1> DEFINE In(ops, i, h) == /\ ops[i].op = "delete"
                            /\ h \in Consumed(SubSeq(ops, 1, i - 1)) + 1 .. Consumed(SubSeq(ops, 1, i))
<1>3. /\ Erases(w, g) <=> \E i \in 1..n + 1 : In(w, i, g)
      /\ \A h : Erases(q, h) <=> \E i \in 1..n : In(q, i, h)
  BY <1>1 DEF Erases
<1>4. In(w, 1, g) <=> o.op = "delete" /\ g \in 1..o.n
  <2>1. 1 - 1 = 0 /\ 0 + 1 = 1
    OBVIOUS
  <2>. QED
    BY <1>1, <1>2, <2>1
<1>5. ASSUME NEW i \in 1..n PROVE In(w, i + 1, g) <=> In(q, i, g - c)
  <2>1. i + 1 - 1 = i
    BY <1>1
  <2>2. g \in Consumed(SubSeq(w, 1, i)) + 1 .. Consumed(SubSeq(w, 1, i + 1))
          <=> g - c \in Consumed(SubSeq(q, 1, i - 1)) + 1 .. Consumed(SubSeq(q, 1, i))
    BY <1>1, SMTT(40)
  <2>. QED
    BY <1>1, <2>1, <2>2, SMTT(40)
<1>6. \A i \in 1..n + 1 : i = 1 \/ (i - 1 \in 1..n /\ i - 1 + 1 = i)
  BY <1>1
<1>7. 1 \in 1..n + 1 /\ \A i \in 1..n : i + 1 \in 1..n + 1
  BY <1>1
<1>8. ASSUME Erases(q, g) PROVE g > 0
  <2>1. PICK i \in 1..n : In(q, i, g)
    BY <1>3, <1>8
  <2>. QED
    BY <1>1, <2>1
<1>9. Erases(w, g) <=> (o.op = "delete" /\ g \in 1..o.n) \/ Erases(q, g - c)
  <2> HIDE DEF In
  <2>1. ASSUME Erases(w, g) PROVE (o.op = "delete" /\ g \in 1..o.n) \/ Erases(q, g - c)
    <3>1. PICK i \in 1..n + 1 : In(w, i, g)
      BY <1>3, <2>1
    <3>2. CASE i = 1
      BY <1>4, <3>1, <3>2
    <3>3. CASE i # 1
      <4> DEFINE j == i - 1
      <4>1. j \in 1..n /\ j + 1 = i
        BY <1>6, <3>3
      <4> HIDE DEF j
      <4>2. In(q, j, g - c)
        BY <1>5, <3>1, <4>1
      <4>. QED
        BY <1>3, <4>1, <4>2
    <3>. QED
      BY <3>2, <3>3
  <2>2. ASSUME o.op = "delete" /\ g \in 1..o.n PROVE Erases(w, g)
    BY <1>3, <1>4, <1>7, <2>2
  <2>3. ASSUME Erases(q, g - c) PROVE Erases(w, g)
    <3>1. PICK i \in 1..n : In(q, i, g - c)
      BY <1>3, <2>3
    <3>2. In(w, i + 1, g) /\ i + 1 \in 1..n + 1
      BY <1>5, <1>7, <3>1
    <3>. QED
      BY <1>3, <3>2
  <2>. QED
    BY <2>1, <2>2, <2>3
<1>. QED
  BY <1>8, <1>9 DEF w, c

\* After k source characters of its head, a list has the gaps and erases the
\* characters of the whole, k earlier; before them there is no insertion.
LEMMA GapsShift ==
    ASSUME NEW ops, Normal(ops), ops # <<>>, ~At(ops, "insert"),
           NEW k \in 0..Size(Head(ops)), NEW g \in Nat
    PROVE  /\ Ins(ops, g + k) = Ins(Consume(ops, k), g)
           /\ Erases(ops, g + k + 1) <=> Erases(Consume(ops, k), g + 1)
           /\ g < k => /\ Ins(ops, g) = <<>>
                       /\ Erases(ops, g + 1) <=> Head(ops).op = "delete"
<1> DEFINE o == Head(ops)
           q == Tail(ops)
           r == Rest(o, k)
<1>1. ops \in Seq(Op) /\ o \in Op /\ q \in Seq(Op) /\ ops = <<o>> \o q /\ Normal(q)
      /\ o.op # "insert" /\ Size(o) = o.n /\ o.n \in Nat /\ Consumes(o) = o.n
  <2>1. ops \in Seq(Op) /\ Normal(q) /\ o.op # "insert"
    BY NormalTail DEF At
  <2>2. o \in Op /\ q \in Seq(Op) /\ ops = <<o>> \o q
    BY <2>1, HeadAndTail
  <2>3. o.n \in Nat
    BY <2>2 DEF Op
  <2>. QED
    BY <2>1, <2>2, <2>3 DEF Size, Consumes
<1>2. k \in Nat /\ k <= o.n /\ g + k \in Int /\ g + k + 1 \in Int /\ g \in Int /\ g + 1 \in Int
  BY <1>1
<1>3. \A h \in Int : Ins(ops, h) = Ins(q, h - o.n)
  BY <1>1, InsCons
<1>4. \A h \in Int : /\ Erases(ops, h) <=> (o.op = "delete" /\ h \in 1..o.n) \/ Erases(q, h - o.n)
                     /\ Erases(q, h) => h > 0
  <2> HIDE DEF o, q
  <2>1. Normal(<<o>> \o q)
    BY <1>1
  <2>. QED
    BY <1>1, <2>1, ErasesCons
<1>5. g < k => /\ Ins(ops, g) = <<>>
               /\ Erases(ops, g + 1) <=> o.op = "delete"
  <2>1. SUFFICES ASSUME g < k
                 PROVE  /\ Ins(ops, g) = <<>>
                        /\ Erases(ops, g + 1) <=> o.op = "delete"
    OBVIOUS
  <2>2. g - o.n < 0 /\ g - o.n \in Int /\ g + 1 \in 1..o.n /\ (g + 1) - o.n \in Int /\ ~((g + 1) - o.n > 0)
    BY <1>1, <1>2, <2>1
  <2>3. Ins(q, g - o.n) = <<>>
    BY <1>1, <2>2, InsIs
  <2>4. ~Erases(q, (g + 1) - o.n)
    BY <1>4, <2>2
  <2>5. Ins(ops, g) = Ins(q, g - o.n)
    BY <1>2, <1>3
  <2>6. Erases(ops, g + 1) <=> (o.op = "delete" /\ g + 1 \in 1..o.n) \/ Erases(q, (g + 1) - o.n)
    <3> DEFINE m == g + 1
    <3>1. m \in Int
      BY <1>2
    <3> HIDE DEF m, o, q
    <3>2. Erases(ops, m) <=> (o.op = "delete" /\ m \in 1..o.n) \/ Erases(q, m - o.n)
      BY <1>4, <3>1
    <3>. QED
      BY <3>2 DEF m
  <2>. QED
    BY <2>2, <2>3, <2>4, <2>5, <2>6
<1>8. /\ Ins(ops, g + k) = Ins(q, (g + k) - o.n)
      /\ Erases(ops, g + k + 1) <=> (o.op = "delete" /\ g + k + 1 \in 1..o.n) \/ Erases(q, (g + k + 1) - o.n)
  <2> DEFINE h == g + k
             m == g + k + 1
  <2>1. h \in Int /\ m \in Int
    BY <1>2
  <2> HIDE DEF h, m, o, q
  <2>2. /\ Ins(ops, h) = Ins(q, h - o.n)
        /\ Erases(ops, m) <=> (o.op = "delete" /\ m \in 1..o.n) \/ Erases(q, m - o.n)
    BY <1>3, <1>4, <2>1
  <2>3. /\ Ins(ops, g + k) = Ins(q, (g + k) - o.n)
        /\ (Erases(ops, m) <=> (o.op = "delete" /\ m \in 1..o.n) \/ Erases(q, m - o.n))
    BY <2>2 DEF h
  <2>. QED
    BY <2>3 DEF m
<1>6. CASE k = Size(o)
  <2>1. Consume(ops, k) = q
    BY <1>1, <1>6, ConsumeIs
  <2>2. (g + k) - o.n = g /\ (g + k + 1) - o.n = g + 1 /\ ~(g + k + 1 \in 1..o.n)
    BY <1>1, <1>6
  <2>3. /\ Ins(ops, g + k) = Ins(q, g)
        /\ Erases(ops, g + k + 1) <=> Erases(q, g + 1)
    BY <1>8, <2>2
  <2>. QED
    BY <1>5, <2>1, <2>3
<1>7. CASE k # Size(o)
  <2>1. Consume(ops, k) = <<r>> \o q
    BY <1>1, <1>7, ConsumeIs
  <2>2. r \in Op /\ r.op = o.op /\ r.n = o.n - k /\ Consumes(r) = o.n - k
    <3>1. r \in Op
      BY <1>1, <1>7, RestIs
    <3>2. r.op = o.op /\ r.n = o.n - k
      BY <1>1 DEF Rest
    <3>. QED
      BY <1>1, <3>1, <3>2 DEF Consumes
  <2>3. Normal(<<r>> \o q)
    BY <2>1, NormalConsume
  <2> HIDE DEF r
  <2> HIDE DEF o, q
  <2>4. Ins(<<r>> \o q, g) = Ins(q, g - (o.n - k))
    <3>1. r.op # "insert" /\ g \in Int
      BY <1>1, <1>2, <2>2
    <3>2. Ins(<<r>> \o q, g) = Ins(q, g - Consumes(r))
      BY <1>1, <2>2, <2>3, <3>1, InsCons
    <3>. QED
      BY <2>2, <3>2
  <2>5. Erases(<<r>> \o q, g + 1) <=> (r.op = "delete" /\ g + 1 \in 1..r.n) \/ Erases(q, (g + 1) - (o.n - k))
    <3> DEFINE h == g + 1
    <3>1. h \in Int
      BY <1>2
    <3> HIDE DEF h, q
    <3>2. Erases(<<r>> \o q, h) <=> (r.op = "delete" /\ h \in 1..r.n) \/ Erases(q, h - Consumes(r))
      BY <1>1, <2>2, <3>1, ErasesCons
    <3>3. Erases(<<r>> \o q, h) <=> (r.op = "delete" /\ h \in 1..r.n) \/ Erases(q, h - (o.n - k))
      BY <2>2, <3>2
    <3>. QED
      BY <3>3 DEF h
  <2>6. g - (o.n - k) = (g + k) - o.n /\ (g + 1) - (o.n - k) = (g + k + 1) - o.n
        /\ (g + 1 \in 1..r.n <=> g + k + 1 \in 1..o.n)
    BY <1>1, <1>2, <2>2
  <2>. QED
    <3>1. /\ Ins(ops, g + k) = Ins(<<r>> \o q, g)
          /\ Erases(ops, g + k + 1) <=> Erases(<<r>> \o q, g + 1)
      BY <1>8, <2>2, <2>4, <2>5, <2>6
    <3>. QED
      BY <1>5, <2>1, <3>1 DEF o, q
<1>. QED
  BY <1>6, <1>7


\* Texts G[g] to G[n] joined, for each g: what Merged does with its gaps.
Joins(f, G, n) == f = [g \in 0..n |-> G[g] \o (IF g = n THEN <<>> ELSE f[g + 1])]
Joined(G, n) == CHOOSE f : Joins(f, G, n)

\* What is known of the last number, and of each number when of the next one,
\* is known of all.
LEMMA DownInduction ==
    ASSUME NEW n \in Nat, NEW lo \in 0..n, NEW T, n \in T,
           \A g \in lo..n : g # n /\ g + 1 \in T => g \in T
    PROVE  \A g \in lo..n : g \in T
<1> DEFINE S == lo..n
           mu == [g \in S |-> n - g]
<1>1. mu \in [S -> Nat]
  OBVIOUS
<1>2. ASSUME NEW g \in S, \A x \in S : mu[x] < mu[g] => x \in T PROVE g \in T
  <2>1. CASE g = n
    BY <2>1
  <2>2. CASE g # n
    <3> DEFINE m == g + 1
    <3>1. m \in S /\ n - m < n - g
      BY <2>2
    <3>2. mu[m] = n - m /\ mu[g] = n - g
      BY <3>1
    <3> HIDE DEF mu
    <3>3. mu[m] < mu[g]
      BY <3>1, <3>2
    <3> HIDE DEF m
    <3>4. m \in T
      BY <1>2, <3>1, <3>3
    <3>. QED
      BY <2>2, <3>4 DEF m
  <2>. QED
    BY <2>1, <2>2
<1> HIDE DEF S, mu
<1>3. \A g \in S : g \in T
  BY <1>1, <1>2, MeasureInduction
<1>. QED
  BY <1>3 DEF S

\* There is such a joining.
LEMMA JoinedIs ==
    ASSUME NEW n \in Nat, NEW G \in [0..n -> Text]
    PROVE  Joins(Joined(G, n), G, n)
<1> DEFINE S == 0..n
           next(f, g) == G[g] \o (IF g = n THEN <<>> ELSE f[g + 1])
           mu == [g \in S |-> n - g]
           Phi == [f \in [S -> Text] |-> [g \in S |-> next(f, g)]]
<1>1. \A g \in S : g # n => g + 1 \in S /\ n - (g + 1) < n - g
  OBVIOUS
<1>2. ASSUME NEW f \in [S -> Text], NEW g \in S PROVE next(f, g) \in Text
  <2>1. g # n => f[g + 1] \in Text
    <3> HIDE DEF S
    <3>. QED
      BY <1>1
  <2>2. (IF g = n THEN <<>> ELSE f[g + 1]) \in Text /\ G[g] \in Text
    BY <2>1, TextNil
  <2>. QED
    BY <2>2, TextConcat
<1>3. ASSUME NEW f \in [S -> Text], NEW h \in [S -> Text], NEW g \in S,
             \A x \in S : mu[x] < mu[g] => f[x] = h[x]
      PROVE  next(f, g) = next(h, g)
  <2>1. g # n => f[g + 1] = h[g + 1]
    <3>1. SUFFICES ASSUME g # n PROVE f[g + 1] = h[g + 1]
      OBVIOUS
    <3> DEFINE m == g + 1
    <3>2. m \in S /\ mu[m] = n - m /\ mu[g] = n - g /\ n - m < n - g
      BY <1>1, <3>1
    <3> HIDE DEF m, S, mu
    <3>3. f[m] = h[m]
      BY <1>3, <3>2
    <3>. QED
      BY <3>3 DEF m
  <2>. QED
    BY <2>1
<1>4. PICK f \in [S -> Text] : Phi[f] = f
  <2>1. mu \in [S -> Nat]
    OBVIOUS
  <2>2. Phi \in [[S -> Text] -> [S -> Text]]
    <3> HIDE DEF S, next
    <3>. QED
      BY <1>2
  <2>3. ASSUME NEW f \in [S -> Text], NEW h \in [S -> Text], NEW g \in S,
               \A x \in S : mu[x] < mu[g] => f[x] = h[x]
        PROVE  Phi[f][g] = Phi[h][g]
    <3>1. next(f, g) = next(h, g)
      BY <1>3, <2>3
    <3> HIDE DEF S, next, mu
    <3>. QED
      BY <3>1
  <2>4. Text # {}
    BY TextNil
  <2> HIDE DEF S, mu, Phi
  <2>5. Descends(S, Text, mu, Phi)
    BY <2>1, <2>2, <2>3, <2>4 DEF Descends
  <2>. QED
    BY <2>5, Recursion
<1>5. f = [g \in S |-> next(f, g)]
  <2> HIDE DEF next, S
  <2>. QED
    BY <1>4
<1>6. Joins(f, G, n)
  BY <1>5 DEF Joins
<1>. QED
  BY <1>6 DEF Joined

\* What a joining is at a place.
LEMMA JoinsAt ==
    ASSUME NEW n \in Nat, NEW G \in [0..n -> Text], NEW f, Joins(f, G, n)
    PROVE  /\ f[n] = G[n]
           /\ \A g \in 0..n : g # n => f[g] = G[g] \o f[g + 1]
           /\ \A g \in 0..n : f[g] \in Text
<1>1. \A g \in 0..n : f[g] = G[g] \o (IF g = n THEN <<>> ELSE f[g + 1])
  BY DEF Joins
<1>2. f[n] = G[n]
  <2>1. n \in 0..n
    OBVIOUS
  <2>2. G[n] \in Text /\ f[n] = G[n] \o <<>>
    BY <1>1, <2>1
  <2>. QED
    BY <2>2, TextConcatNil
<1>3. \A g \in 0..n : g # n => f[g] = G[g] \o f[g + 1]
  BY <1>1
<1> DEFINE T == {g \in 0..n : f[g] \in Text}
<1>4. n \in T
  BY <1>2
<1>5. ASSUME NEW g \in 0..n, g # n, g + 1 \in T PROVE g \in T
  <2>1. f[g] = G[g] \o f[g + 1] /\ f[g + 1] \in Text /\ G[g] \in Text
    BY <1>3, <1>5
  <2>. QED
    BY <2>1, TextConcat
<1>6. \A g \in 0..n : g \in T
  <2>1. 0 \in 0..n
    OBVIOUS
  <2> HIDE DEF T
  <2>. QED
    BY <1>4, <1>5, <2>1, DownInduction
<1>. QED
  BY <1>2, <1>3, <1>6

\* Two sequences of texts, the same from lo on but for a shift by k.
Shifted(n, k, lo, G, H) ==
    /\ n \in Nat /\ k \in Nat /\ lo \in 0..n
    /\ G \in [0..n + k -> Text] /\ H \in [0..n -> Text]
    /\ \A g \in lo..n : G[g + k] = H[g]

\* From there on they join to the same.
LEMMA JoinsShift ==
    ASSUME NEW n, NEW k, NEW lo, NEW G, NEW H, Shifted(n, k, lo, G, H),
           NEW f, Joins(f, G, n + k), NEW h, Joins(h, H, n)
    PROVE  \A g \in lo..n : f[g + k] = h[g]
<1>0. /\ n \in Nat /\ k \in Nat /\ lo \in 0..n
      /\ G \in [0..n + k -> Text] /\ H \in [0..n -> Text]
      /\ \A g \in lo..n : G[g + k] = H[g]
  BY DEF Shifted
<1>. USE <1>0
<1> DEFINE T == {g \in lo..n : f[g + k] = h[g]}
<1>1. h[n] = H[n] /\ \A g \in 0..n : g # n => h[g] = H[g] \o h[g + 1]
  BY JoinsAt, ZenonT(40)
<1>2. f[n + k] = G[n + k] /\ \A g \in 0..n + k : g # n + k => f[g] = G[g] \o f[g + 1]
  <2> DEFINE m == n + k
  <2>1. m \in Nat
    OBVIOUS
  <2>2. G \in [0..m -> Text] /\ Joins(f, G, m)
    OBVIOUS
  <2> HIDE DEF m
  <2>3. f[m] = G[m] /\ \A g \in 0..m : g # m => f[g] = G[g] \o f[g + 1]
    BY <2>1, <2>2, JoinsAt, ZenonT(40)
  <2>. QED
    BY <2>3 DEF m
<1>3. n \in T
  BY <1>1, <1>2
<1>4. ASSUME NEW g \in lo..n, g # n, g + 1 \in T PROVE g \in T
  <2>1. g \in 0..n /\ g + k \in 0..n + k /\ g + k # n + k /\ (g + k) + 1 = (g + 1) + k
    BY <1>4
  <2>2. h[g] = H[g] \o h[g + 1]
    BY <1>1, <1>4, <2>1
  <2>3. f[g + k] = G[g + k] \o f[(g + 1) + k]
    <3> DEFINE m == g + k
    <3>1. m \in 0..n + k /\ m # n + k /\ m + 1 = (g + 1) + k
      BY <2>1
    <3> HIDE DEF m
    <3>2. f[m] = G[m] \o f[m + 1]
      BY <1>2, <3>1
    <3>. QED
      BY <3>1, <3>2 DEF m
  <2>4. f[(g + 1) + k] = h[g + 1] /\ G[g + k] = H[g]
    BY <1>4
  <2>. QED
    BY <2>2, <2>3, <2>4
<1>5. \A g \in lo..n : g \in T
  <2> HIDE DEF T
  <2>. QED
    BY <1>3, <1>4, DownInduction
<1>. QED
  BY <1>5


\* What the edits with operations a and b make of the gap before character g + 1
\* of t and of that character, and of t from there on.
InGap(a, b, g) ==
    IF LexLeq(Ins(a, g), Ins(b, g)) THEN Ins(a, g) \o Ins(b, g) ELSE Ins(b, g) \o Ins(a, g)
KeptAfter(t, a, b, g) ==
    IF g < Len(t) /\ ~Erases(a, g + 1) /\ ~Erases(b, g + 1) THEN <<t[g + 1]>> ELSE <<>>
Gap(t, a, b, g) == InGap(a, b, g) \o KeptAfter(t, a, b, g)
Gaps(t, a, b) == [g \in 0..Len(t) |-> Gap(t, a, b, g)]
MergeOf(t, a, b) == Joined(Gaps(t, a, b), Len(t))[0]

\* These are texts.
LEMMA GapsAre ==
    ASSUME NEW t \in Text, NEW a, NEW b, Normal(a), Normal(b)
    PROVE  /\ Len(t) \in Nat
           /\ \A g \in 0..Len(t) : /\ InGap(a, b, g) \in Text /\ KeptAfter(t, a, b, g) \in Text
                                   /\ Gaps(t, a, b)[g] = Gap(t, a, b, g)
           /\ Gaps(t, a, b) \in [0..Len(t) -> Text]
           /\ Joins(Joined(Gaps(t, a, b), Len(t)), Gaps(t, a, b), Len(t))
           /\ MergeOf(t, a, b) \in Text
<1>1. Len(t) \in Nat
  BY TextNil
<1>2. ASSUME NEW g \in 0..Len(t) PROVE InGap(a, b, g) \in Text /\ KeptAfter(t, a, b, g) \in Text
  <2>1. g \in Int
    BY <1>1
  <2>2. Ins(a, g) \in Text /\ Ins(b, g) \in Text
    BY <2>1, InsIs
  <2>3. InGap(a, b, g) \in Text
    BY <2>2, TextConcat DEF InGap
  <2>4. KeptAfter(t, a, b, g) \in Text
    <3>1. CASE g < Len(t)
      <4> DEFINE i == g + 1
      <4>1. i \in 1..Len(t)
        BY <1>1, <3>1
      <4> HIDE DEF i
      <4>2. <<t[i]>> \in Text
        BY <4>1, PrefixGrows
      <4>. QED
        BY <4>2, TextNil DEF KeptAfter, i
    <3>2. CASE ~(g < Len(t))
      BY <3>2, TextNil DEF KeptAfter
    <3>. QED
      BY <3>1, <3>2
  <2>. QED
    BY <2>3, <2>4
<1>3. \A g \in 0..Len(t) : Gaps(t, a, b)[g] = Gap(t, a, b, g) /\ Gap(t, a, b, g) \in Text
  BY <1>2, TextConcat DEF Gaps, Gap
<1>4. Gaps(t, a, b) \in [0..Len(t) -> Text]
  BY <1>3 DEF Gaps
<1>5. Joins(Joined(Gaps(t, a, b), Len(t)), Gaps(t, a, b), Len(t))
  BY <1>1, <1>4, JoinedIs
<1>6. MergeOf(t, a, b) \in Text
  <2>1. 0 \in 0..Len(t)
    BY <1>1
  <2>. QED
    BY <1>1, <1>4, <1>5, <2>1, JoinsAt DEF MergeOf
<1>. QED
  BY <1>1, <1>2, <1>3, <1>4, <1>5, <1>6

\* Edits that differ in the first gap only, where the first two have c more.
StartsWith(x, a, b, c, d) ==
    /\ InGap(a, b, 0) = x \o InGap(c, d, 0)
    /\ \A g \in Nat : g # 0 => InGap(a, b, g) = InGap(c, d, g)
    /\ \A g \in Nat : Erases(a, g + 1) <=> Erases(c, g + 1)
    /\ \A g \in Nat : Erases(b, g + 1) <=> Erases(d, g + 1)

LEMMA MergeStartsWith ==
    ASSUME NEW t \in Text, NEW x \in Text, NEW a, NEW b, NEW c, NEW d,
           Normal(a), Normal(b), Normal(c), Normal(d), StartsWith(x, a, b, c, d)
    PROVE  MergeOf(t, a, b) = x \o MergeOf(t, c, d)
<1>. USE DEF StartsWith
<1> DEFINE n == Len(t)
           G == Gaps(t, a, b)
           H == Gaps(t, c, d)
           f == Joined(G, n)
           h == Joined(H, n)
<1>1. /\ n \in Nat
      /\ G \in [0..n -> Text] /\ Joins(f, G, n)
      /\ H \in [0..n -> Text] /\ Joins(h, H, n)
      /\ \A g \in 0..n : /\ G[g] = InGap(a, b, g) \o KeptAfter(t, a, b, g)
                         /\ H[g] = InGap(c, d, g) \o KeptAfter(t, c, d, g)
                         /\ InGap(c, d, g) \in Text /\ KeptAfter(t, c, d, g) \in Text
  BY GapsAre DEF Gap
<1>2. \A g \in 0..n : KeptAfter(t, a, b, g) = KeptAfter(t, c, d, g)
  BY <1>1 DEF KeptAfter
<1> HIDE DEF n, G, H, f, h
<1>3. 0 \in 0..n /\ n + 0 = n
  BY <1>1
<1>4. H[0] \in Text /\ G[0] = x \o H[0]
  <2> DEFINE u == InGap(c, d, 0)
             v == KeptAfter(t, c, d, 0)
  <2>1. u \in Text /\ v \in Text /\ G[0] = (x \o u) \o v /\ H[0] = u \o v
    BY <1>1, <1>2, <1>3
  <2> HIDE DEF u, v
  <2>2. (x \o u) \o v = x \o (u \o v)
    BY ONLY x \in Text, <2>1, TextAssociative
  <2>. QED
    BY <2>1, <2>2, TextConcat
<1>5. CASE n = 0
  <2>1. f[0] = G[0] /\ h[0] = H[0]
    BY <1>1, <1>5, JoinsAt
  <2>. QED
    BY <1>4, <2>1 DEF MergeOf, f, h, G, H, n
<1>6. CASE n # 0
  <2>1. 1 \in 0..n /\ 0 # n /\ 0 + 1 = 1
    BY <1>1, <1>6
  <2>2. f[0] = G[0] \o f[1] /\ h[0] = H[0] \o h[1] /\ h[1] \in Text
    <3>1. \A g \in 0..n : g # n => f[g] = G[g] \o f[g + 1]
      BY <1>1, JoinsAt
    <3>2. \A g \in 0..n : (g # n => h[g] = H[g] \o h[g + 1]) /\ h[g] \in Text
      BY <1>1, JoinsAt
    <3>. QED
      BY <1>3, <2>1, <3>1, <3>2
  <2>3. \A g \in 1..n : G[g] = H[g]
    <3>1. ASSUME NEW g \in 1..n PROVE G[g] = H[g]
      <4>1. g \in 0..n /\ g \in Nat /\ g # 0
        BY <1>1
      <4>2. InGap(a, b, g) = InGap(c, d, g)
        BY <4>1
      <4>. QED
        BY <1>1, <1>2, <4>1, <4>2
    <3>. QED
      BY <3>1
  <2>4. f[1] = h[1]
    <3> DEFINE k == 0
    <3>1. k \in Nat /\ n + k = n /\ \A g \in 0..n : g + k = g
      BY <1>1
    <3>2. 1 \in 1..n /\ \A g \in 1..n : g + k = g
      BY <1>1, <1>6
    <3> HIDE DEF k
    <3>3. G \in [0..n + k -> Text] /\ Joins(f, G, n + k) /\ \A g \in 1..n : G[g + k] = H[g]
      BY <1>1, <2>3, <3>1, <3>2
    <3> DEFINE lo == 1
    <3>4. lo \in 0..n /\ \A g \in lo..n : G[g + k] = H[g]
      BY <2>1, <3>3
    <3> HIDE DEF lo
    <3>5. Shifted(n, k, lo, G, H)
      BY <1>1, <3>1, <3>3, <3>4 DEF Shifted
    <3>6. \A g \in lo..n : f[g + k] = h[g]
      BY <1>1, <3>3, <3>5, JoinsShift
    <3>. QED
      BY <3>2, <3>6 DEF lo
  <2>5. f[0] = x \o h[0]
    <3> DEFINE u == H[0]
               v == h[1]
    <3>1. u \in Text /\ v \in Text /\ f[0] = (x \o u) \o v /\ h[0] = u \o v
      BY <1>4, <2>2, <2>4
    <3> HIDE DEF u, v
    <3>2. (x \o u) \o v = x \o (u \o v)
      BY ONLY x \in Text, <3>1, TextAssociative
    <3>. QED
      BY <3>1, <3>2
  <2>. QED
    BY <2>5 DEF MergeOf, f, h, G, H, n
<1>. QED
  BY <1>5, <1>6

\* The head of a list that begins with an insertion: the first gap's text.
LEMMA InsHead ==
    ASSUME NEW ops, Normal(ops), At(ops, "insert")
    PROVE  /\ Normal(Tail(ops)) /\ Head(ops).chars \in Text
           /\ Ins(ops, 0) = Head(ops).chars /\ Ins(Tail(ops), 0) = <<>>
           /\ \A g \in Nat : g # 0 => Ins(ops, g) = Ins(Tail(ops), g)
           /\ \A g \in Nat : Erases(ops, g + 1) <=> Erases(Tail(ops), g + 1)
<1> DEFINE o == Head(ops)
           q == Tail(ops)
<1>1. ops # <<>> /\ o.op = "insert"
  BY DEF At
<1>2. ops \in Seq(Op) /\ Normal(q)
  BY <1>1, NormalTail
<1>3. o \in Op /\ q \in Seq(Op) /\ ops = <<o>> \o q
  BY <1>1, <1>2, HeadAndTail
<1>4. o.chars \in Text /\ Consumes(o) = 0
  BY <1>1, <1>3 DEF Op, Consumes
<1> HIDE DEF o, q
<1>5. \A g \in Int : /\ Ins(ops, 0) = o.chars /\ Ins(q, 0) = <<>>
                     /\ g # 0 => Ins(ops, g) = Ins(q, g)
  BY <1>1, <1>2, <1>3, InsCons
<1>6. ASSUME NEW g \in Nat PROVE Erases(ops, g + 1) <=> Erases(q, g + 1)
  <2> DEFINE h == g + 1
  <2>1. h \in Int /\ h - 0 = h
    OBVIOUS
  <2> HIDE DEF h
  <2>2. Erases(ops, h) <=> Erases(q, h)
    BY <1>1, <1>3, <1>4, <2>1, ErasesCons
  <2>. QED
    BY <2>2 DEF h
<1>7. 0 \in Int /\ \A g \in Nat : g \in Int
  OBVIOUS
<1>. QED
  BY <1>2, <1>4, <1>5, <1>6, <1>7 DEF o, q

\* The empty text sorts first.
LEMMA LexNil == ASSUME NEW x \in Text PROVE LexLeq(<<>>, x)
<1>1. SubSeq(x, 1, 0) = <<>> /\ Len(<<>>) = 0 /\ Len(x) \in Nat
  BY SubSeqEmpty, TextNil
<1>. QED
  BY <1>1 DEF LexLeq

\* A's insertion at the head of its list comes first in the merge.
LEMMA MergeA ==
    ASSUME NEW t \in Text, NEW a, NEW b, Normal(a), Normal(b), At(a, "insert"),
           At(b, "insert") => LexLeq(Head(a).chars, Head(b).chars)
    PROVE  MergeOf(t, a, b) = Head(a).chars \o MergeOf(t, Tail(a), b)
<1> DEFINE c == Tail(a)
           x == Head(a).chars
           y == Ins(b, 0)
<1>1. /\ Normal(c) /\ x \in Text /\ Ins(a, 0) = x /\ Ins(c, 0) = <<>>
      /\ \A g \in Nat : g # 0 => Ins(a, g) = Ins(c, g)
      /\ \A g \in Nat : Erases(a, g + 1) <=> Erases(c, g + 1)
  BY InsHead
<1>2. y \in Text /\ (At(b, "insert") => y = Head(b).chars) /\ (~At(b, "insert") => y = <<>>)
  BY InsIs, InsHead
<1>3. LexLeq(x, y) \/ y = <<>>
  BY <1>2
<1>4. x \o <<>> = x /\ <<>> \o x = x /\ <<>> \o y = y /\ LexLeq(<<>>, y)
  BY <1>1, <1>2, LexNil, TextConcatNil
<1> HIDE DEF c, x
<1>5. InGap(a, b, 0) = x \o InGap(c, b, 0)
  BY <1>1, <1>3, <1>4 DEF InGap
<1>6. \A g \in Nat : g # 0 => InGap(a, b, g) = InGap(c, b, g)
  BY <1>1 DEF InGap
<1>7. StartsWith(x, a, b, c, b)
  BY <1>1, <1>5, <1>6 DEF StartsWith
<1>8. MergeOf(t, a, b) = x \o MergeOf(t, c, b)
  BY <1>1, <1>7, MergeStartsWith
<1>. QED
  BY <1>8 DEF c, x

\* B's insertion at the head of its list does, if A's does not.
LEMMA MergeB ==
    ASSUME NEW t \in Text, NEW a, NEW b, Normal(a), Normal(b), At(b, "insert"),
           At(a, "insert") => ~LexLeq(Head(a).chars, Head(b).chars)
    PROVE  MergeOf(t, a, b) = Head(b).chars \o MergeOf(t, a, Tail(b))
<1> DEFINE c == Tail(b)
           x == Head(b).chars
           y == Ins(a, 0)
<1>1. /\ Normal(c) /\ x \in Text /\ Ins(b, 0) = x /\ Ins(c, 0) = <<>>
      /\ \A g \in Nat : g # 0 => Ins(b, g) = Ins(c, g)
      /\ \A g \in Nat : Erases(b, g + 1) <=> Erases(c, g + 1)
  BY InsHead
<1>2. y \in Text /\ (At(a, "insert") => y = Head(a).chars) /\ (~At(a, "insert") => y = <<>>)
  BY InsIs, InsHead
<1>3. ~LexLeq(y, x) \/ y = <<>>
  BY <1>2
<1>4. x \o <<>> = x /\ <<>> \o x = x /\ <<>> \o y = y /\ y \o <<>> = y
  BY <1>1, <1>2, TextConcatNil
<1> HIDE DEF c, x
<1>5. InGap(a, b, 0) = x \o InGap(a, c, 0)
  BY <1>1, <1>3, <1>4 DEF InGap
<1>6. \A g \in Nat : g # 0 => InGap(a, b, g) = InGap(a, c, g)
  BY <1>1 DEF InGap
<1>7. StartsWith(x, a, b, a, c)
  BY <1>1, <1>5, <1>6 DEF StartsWith
<1>8. MergeOf(t, a, b) = x \o MergeOf(t, a, c)
  BY <1>1, <1>7, MergeStartsWith
<1>. QED
  BY <1>8 DEF c, x


\* Where neither inserts, the merge begins with what both keep of the characters
\* x both address.
BothAddress(x, a, b) ==
    /\ Normal(a) /\ a # <<>> /\ ~At(a, "insert")
    /\ Normal(b) /\ b # <<>> /\ ~At(b, "insert")
    /\ Len(x) = Shorter(Head(a), Head(b))

LEMMA MergeBoth ==
    ASSUME NEW a, NEW b, NEW x \in Text, NEW y \in Text, BothAddress(x, a, b)
    PROVE  MergeOf(x \o y, a, b)
             = BothKeep(x, Head(a), Head(b)) \o MergeOf(y, Consume(a, Len(x)), Consume(b, Len(x)))
<1> DEFINE t == x \o y
           k == Len(x)
           n == Len(y)
           c == Consume(a, k)
           d == Consume(b, k)
           G == Gaps(t, a, b)
           H == Gaps(y, c, d)
           f == Joined(G, n + k)
           h == Joined(H, n)
           both == Head(a).op = "retain" /\ Head(b).op = "retain"
           P(m) == IF both THEN SubSeq(x, 1, m) ELSE <<>>
<1>0. /\ Normal(a) /\ a # <<>> /\ ~At(a, "insert")
      /\ Normal(b) /\ b # <<>> /\ ~At(b, "insert")
      /\ Len(x) = Shorter(Head(a), Head(b))
  BY DEF BothAddress
<1>. USE <1>0
<1>1. t \in Text /\ Len(t) = n + k /\ n \in Nat /\ k \in Nat
  <2>1. t \in Text /\ Len(t) = Len(x) + Len(y) /\ Len(x) \in Nat /\ Len(y) \in Nat
    BY TextConcat, TextNil
  <2>. QED
    BY <2>1
<1>2. /\ Head(a) \in Op /\ Head(a).op \in {"retain", "delete"}
      /\ Head(b) \in Op /\ Head(b).op \in {"retain", "delete"}
  BY NormalTail DEF At, Op
<1>3. k \in 0..Size(Head(a)) /\ k \in 0..Size(Head(b))
  BY <1>2, ShorterIs
<1>4. Normal(c) /\ Normal(d)
  BY <1>3, NormalConsume
<1>5. ASSUME NEW g \in Nat
      PROVE  /\ Ins(a, g + k) = Ins(c, g) /\ Ins(b, g + k) = Ins(d, g)
             /\ Erases(a, g + k + 1) <=> Erases(c, g + 1)
             /\ Erases(b, g + k + 1) <=> Erases(d, g + 1)
             /\ g < k => /\ Ins(a, g) = <<>> /\ Ins(b, g) = <<>>
                         /\ Erases(a, g + 1) <=> Head(a).op = "delete"
                         /\ Erases(b, g + 1) <=> Head(b).op = "delete"
  BY <1>3, GapsShift
<1>6. /\ G \in [0..n + k -> Text] /\ Joins(f, G, n + k)
      /\ H \in [0..n -> Text] /\ Joins(h, H, n)
      /\ \A g \in 0..n + k : G[g] = InGap(a, b, g) \o KeptAfter(t, a, b, g)
      /\ \A g \in 0..n : H[g] = InGap(c, d, g) \o KeptAfter(y, c, d, g)
      /\ MergeOf(t, a, b) = f[0] /\ MergeOf(y, c, d) = h[0]
  <2>1. /\ G \in [0..Len(t) -> Text] /\ Joins(Joined(G, Len(t)), G, Len(t))
        /\ \A g \in 0..Len(t) : G[g] = InGap(a, b, g) \o KeptAfter(t, a, b, g)
    BY <1>1, GapsAre DEF Gap
  <2>2. /\ H \in [0..n -> Text] /\ Joins(h, H, n)
        /\ \A g \in 0..n : H[g] = InGap(c, d, g) \o KeptAfter(y, c, d, g)
    BY <1>4, GapsAre DEF Gap
  <2> HIDE DEF G, H, n, k, c, d
  <2>. QED
    BY <1>1, <2>1, <2>2 DEF MergeOf, G, H, n, k, c, d
<1>7. /\ \A g \in 1..k : t[g] = x[g]
      /\ \A g \in 1..n : t[g + k] = y[g]
  <2>1. /\ \A g \in 1..k : (x \o y)[g] = x[g]
        /\ \A g \in k + 1 .. k + n : (x \o y)[g] = y[g - k]
    BY ConcatProperties, SMTT(40) DEF Text
  <2> HIDE DEF k, n
  <2>2. ASSUME NEW g \in 1..n PROVE t[g + k] = y[g]
    <3> DEFINE i == g + k
    <3>1. i \in k + 1 .. k + n /\ i - k = g
      BY <1>1
    <3> HIDE DEF i
    <3>2. t[i] = y[i - k]
      BY <2>1, <3>1
    <3>. QED
      BY <3>1, <3>2 DEF i
  <2>. QED
    BY <2>1, <2>2
<1> HIDE DEF t, k, n, c, d, G, H, f, h
<1>8. f[k] = h[0]
  <2>1. ASSUME NEW g \in 0..n PROVE G[g + k] = H[g]
    <3>1. g \in Nat /\ g + k \in 0..n + k /\ (g + k < n + k <=> g < n)
      BY <1>1
    <3>2. InGap(a, b, g + k) = InGap(c, d, g)
      BY <1>5, <3>1 DEF InGap
    <3>3. KeptAfter(t, a, b, g + k) = KeptAfter(y, c, d, g)
      <4>1. g < n => t[g + k + 1] = y[g + 1]
        <5>1. SUFFICES ASSUME g < n PROVE t[g + k + 1] = y[g + 1]
          OBVIOUS
        <5> DEFINE i == g + 1
        <5>2. i \in 1..n /\ g + k + 1 = i + k
          BY <1>1, <5>1
        <5> HIDE DEF i
        <5>3. t[i + k] = y[i]
          BY <1>7, <5>2
        <5>. QED
          BY <5>2, <5>3 DEF i
      <4>. QED
        BY <1>1, <1>5, <3>1, <4>1 DEF KeptAfter, n
    <3>. QED
      BY <1>6, <3>1, <3>2, <3>3
  <2> DEFINE lo == 0
  <2>2. lo \in 0..n /\ (\A g \in lo..n : G[g + k] = H[g]) /\ lo \in lo..n /\ lo + k = k
    BY <1>1, <2>1
  <2> HIDE DEF lo
  <2>3. Shifted(n, k, lo, G, H)
    BY <1>1, <1>6, <2>2 DEF Shifted
  <2>4. \A g \in lo..n : f[g + k] = h[g]
    BY <1>6, <2>3, JoinsShift
  <2>5. f[lo + k] = h[lo]
    BY <2>2, <2>4
  <2>. QED
    BY <2>2, <2>5 DEF lo
<1>9. ASSUME NEW m \in 0..k, m # k
      PROVE  P(m) \in Text /\ P(m + 1) = P(m) \o G[m]
  <2> DEFINE i == m + 1
  <2>1. m \in Nat /\ m < k /\ m < n + k /\ m \in 0..n + k /\ i \in 1..Len(x) /\ i - 1 = m /\ i \in 1..k
    BY <1>1, <1>9 DEF k
  <2>2. Ins(a, m) = <<>> /\ Ins(b, m) = <<>>
        /\ (Erases(a, m + 1) <=> Head(a).op = "delete")
        /\ (Erases(b, m + 1) <=> Head(b).op = "delete")
    BY <1>5, <2>1
  <2>3. InGap(a, b, m) = <<>>
    BY <2>2, TextNil, TextConcatNil DEF InGap
  <2>4. KeptAfter(t, a, b, m) = IF both THEN <<t[m + 1]>> ELSE <<>>
    BY <1>1, <1>2, <2>1, <2>2 DEF KeptAfter
  <2> HIDE DEF i
  <2>5. SubSeq(x, 1, m) \in Text /\ <<x[i]>> \in Text /\ SubSeq(x, 1, i) = SubSeq(x, 1, m) \o <<x[i]>>
    BY <2>1, PrefixGrows
  <2>6. t[i] = x[i]
    BY <1>7, <2>1
  <2>7. G[m] = IF both THEN <<x[i]>> ELSE <<>>
    <3> DEFINE e == IF both THEN <<x[i]>> ELSE <<>>
    <3>1. e \in Text
      BY <2>5, TextNil
    <3>2. G[m] = <<>> \o e
      BY <1>6, <2>1, <2>3, <2>4, <2>6 DEF i
    <3> HIDE DEF e
    <3>3. <<>> \o e = e
      BY <3>1, TextConcatNil
    <3>. QED
      BY <3>2, <3>3 DEF e
  <2>8. P(m) \in Text
    BY <2>5, TextNil
  <2>9. P(i) = P(m) \o G[m]
    <3>1. CASE both
      BY <2>5, <2>7, <3>1
    <3>2. CASE ~both
      BY <2>7, <3>2, TextNil, TextConcatNil
    <3>. QED
      BY <3>1, <3>2
  <2>. QED
    BY <2>8, <2>9 DEF i
<1>10. /\ \A g \in 0..n + k : g # n + k => f[g] = G[g] \o f[g + 1]
       /\ \A g \in 0..n + k : f[g] \in Text
  <2> DEFINE e == n + k
  <2>1. e \in Nat /\ G \in [0..e -> Text] /\ Joins(f, G, e)
    BY <1>1, <1>6
  <2> HIDE DEF e
  <2>2. /\ \A g \in 0..e : g # e => f[g] = G[g] \o f[g + 1]
        /\ \A g \in 0..e : f[g] \in Text
    BY <2>1, JoinsAt
  <2>. QED
    BY <2>2 DEF e
<1> DEFINE T == {m \in Nat : m <= k => f[0] = P(m) \o f[m]}
<1>11. 0 \in T
  <2>1. P(0) = <<>>
    BY SubSeqEmpty
  <2>2. 0 \in 0..n + k
    BY <1>1
  <2>3. f[0] \in Text
    BY <1>10, <2>2
  <2> HIDE DEF P
  <2>. QED
    BY <2>1, <2>3, TextConcatNil
<1>12. ASSUME NEW m \in T PROVE m + 1 \in T
  <2>1. SUFFICES ASSUME m + 1 <= k PROVE f[0] = P(m + 1) \o f[m + 1]
    <3>1. m + 1 \in Nat
      OBVIOUS
    <3> HIDE DEF P
    <3>. QED
      BY <3>1
  <2>2. m \in Nat /\ m \in 0..k /\ m # k /\ m <= k /\ m \in 0..n + k /\ m # n + k /\ m + 1 \in 0..n + k
    BY <1>1, <2>1
  <2>3. f[0] = P(m) \o f[m]
    BY <2>2
  <2> DEFINE p == P(m)
             u == G[m]
             v == f[m + 1]
  <2> HIDE DEF P, T
  <2>4. f[m] = u \o v /\ v \in Text /\ u \in Text
    BY <1>6, <1>10, <2>2
  <2>5. p \in Text /\ P(m + 1) = p \o u
    BY <1>9, <2>2
  <2>6. f[0] = p \o (u \o v)
    BY <2>3, <2>4
  <2> HIDE DEF p, u, v
  <2>7. (p \o u) \o v = p \o (u \o v)
    BY ONLY <2>4, <2>5, TextAssociative
  <2>8. f[0] = P(m + 1) \o v
    BY <2>5, <2>6, <2>7
  <2>. QED
    BY <2>8 DEF v
<1>13. k \in T
  <2>1. T \subseteq Nat
    OBVIOUS
  <2> HIDE DEF T
  <2>. QED
    BY <1>1, <1>11, <1>12, <2>1, SetInduction
<1>14. f[0] = P(k) \o f[k]
  <2>1. k <= k
    BY <1>1
  <2> HIDE DEF P
  <2>. QED
    BY <1>13, <2>1
<1>15. P(k) = BothKeep(x, Head(a), Head(b))
  <2>1. SubSeq(x, 1, k) = x
    BY SubSeqFull DEF Text, k
  <2>. QED
    BY <2>1 DEF BothKeep
<1> HIDE DEF P
<1>16. MergeOf(t, a, b) = BothKeep(x, Head(a), Head(b)) \o MergeOf(y, c, d)
  BY <1>6, <1>8, <1>14, <1>15
<1>. QED
  BY <1>16 DEF c, d, k, t

\* Nothing is left to merge where both lists and the source end.
LEMMA MergeEnd == MergeOf(<<>>, <<>>, <<>>) = <<>>
<1> DEFINE t == <<>>
           n == Len(t)
           G == Gaps(t, t, t)
           f == Joined(G, n)
<1>1. t \in Text /\ n = 0 /\ Normal(t) /\ t \in Seq(Op)
  <2>1. t \in Seq(Plain) /\ Len(t) = 0
    BY EmptySeq
  <2>. QED
    BY <2>1, TextNil, EmptySeq DEF Normal
<1>2. /\ G \in [0..n -> Text] /\ Joins(f, G, n) /\ MergeOf(t, t, t) = f[0]
      /\ \A g \in 0..n : G[g] = InGap(t, t, g) \o KeptAfter(t, t, t, g)
  BY <1>1, GapsAre DEF Gap, MergeOf
<1>3. Ins(t, 0) = <<>>
  BY <1>1, InsIs DEF At
<1>4. InGap(t, t, 0) = <<>>
  BY <1>3, TextNil, TextConcatNil DEF InGap
<1>5. KeptAfter(t, t, t, 0) = <<>>
  BY <1>1 DEF KeptAfter
<1> HIDE DEF n, G, f
<1>6. f[0] = G[0]
  BY <1>1, <1>2, JoinsAt
<1>7. G[0] = <<>>
  <2>1. 0 \in 0..n
    BY <1>1
  <2>. QED
    BY <1>2, <1>4, <1>5, <2>1, TextNil, TextConcatNil
<1>. QED
  BY <1>2, <1>6, <1>7


\* The loop of Follow ends with operations that make the merge of the rest of
\* the source out of what A makes of it, behind what is there already.
MergesWell(t, a, b, p, out) ==
    Run(p \o Run(t, a), FollowLoop[Pair(a, b, out)]) = Run(p, out) \o MergeOf(t, a, b)

\* This is so from every state with these operands.
Merging(a, b) == \A t, p, out : Rebases(p, t, Pair(a, b, out)) => MergesWell(t, a, b, p, out)

\* A step that skips an insertion of A.
LEMMA MergesA ==
    ASSUME NEW t, NEW a, NEW b, NEW p, NEW out, Rebases(p, t, Pair(a, b, out)), At(a, "insert"),
           At(b, "insert") => LexLeq(Head(a).chars, Head(b).chars), Merging(Tail(a), b)
    PROVE  MergesWell(t, a, b, p, out)
<1> DEFINE c == Head(a).chars
           r == Tail(a)
           v == Run(t, r)
           m == MergeOf(t, r, b)
           q == Run(p, out)
<1>1. PICK o : /\ FollowLoop[Pair(a, b, out)] = FollowLoop[Pair(r, b, o)]
               /\ Rebases(p \o c, t, Pair(r, b, o))
               /\ Run(p \o c, o) = q \o c
  BY FollowA
<1>2. Normal(a) /\ Fits(t, a) /\ Normal(b) /\ p \in Text /\ t \in Text /\ Fits(p, out)
  BY PairIs
<1>3. Normal(r) /\ c \in Text /\ Run(t, a) = c \o v /\ v \in Text
  BY <1>2, FitsInsert, RunText
<1>4. m \in Text /\ q \in Text
  BY <1>2, <1>3, GapsAre, RunText
<1>5. MergeOf(t, a, b) = c \o m
  BY <1>2, MergeA
<1>6. MergesWell(t, r, b, p \o c, o)
  BY <1>1 DEF Merging
<1>7. Run((p \o c) \o v, FollowLoop[Pair(r, b, o)]) = (q \o c) \o m
  BY <1>1, <1>6 DEF MergesWell
<1> HIDE DEF c, r, v, m, q
<1>8. (p \o c) \o v = p \o (c \o v)
  BY ONLY <1>2, <1>3, TextAssociative
<1>9. (q \o c) \o m = q \o (c \o m)
  BY ONLY <1>3, <1>4, TextAssociative
<1>. QED
  BY <1>1, <1>3, <1>5, <1>7, <1>8, <1>9 DEF MergesWell, q

\* A step that outputs an insertion of B.
LEMMA MergesB ==
    ASSUME NEW t, NEW a, NEW b, NEW p, NEW out, Rebases(p, t, Pair(a, b, out)), At(b, "insert"),
           At(a, "insert") => ~LexLeq(Head(a).chars, Head(b).chars), Merging(a, Tail(b))
    PROVE  MergesWell(t, a, b, p, out)
<1> DEFINE c == Head(b).chars
           r == Tail(b)
           m == MergeOf(t, a, r)
           q == Run(p, out)
<1>1. PICK o : /\ FollowLoop[Pair(a, b, out)] = FollowLoop[Pair(a, r, o)]
               /\ Rebases(p, t, Pair(a, r, o))
               /\ Run(p, o) = q \o c
  BY FollowB
<1>2. Normal(a) /\ Normal(b) /\ Fits(t, b) /\ p \in Text /\ t \in Text /\ Fits(p, out)
  BY PairIs
<1>3. Normal(r) /\ c \in Text
  BY <1>2, FitsInsert
<1>4. m \in Text /\ q \in Text
  BY <1>2, <1>3, GapsAre, RunText
<1>5. MergeOf(t, a, b) = c \o m
  BY <1>2, MergeB
<1>6. MergesWell(t, a, r, p, o)
  BY <1>1 DEF Merging
<1>7. Run(p \o Run(t, a), FollowLoop[Pair(a, r, o)]) = (q \o c) \o m
  BY <1>1, <1>6 DEF MergesWell
<1> HIDE DEF c, r, m, q
<1>8. (q \o c) \o m = q \o (c \o m)
  BY ONLY <1>3, <1>4, TextAssociative
<1>. QED
  BY <1>1, <1>5, <1>7, <1>8 DEF MergesWell, q

\* A step in which neither side inserts.
LEMMA MergesBoth ==
    ASSUME NEW t, NEW a, NEW b, NEW p, NEW out, Rebases(p, t, Pair(a, b, out)),
           ~At(a, "insert"), ~At(b, "insert"), a # <<>>, b # <<>>,
           \A k \in Nat : k = Shorter(Head(a), Head(b)) => Merging(Consume(a, k), Consume(b, k))
    PROVE  MergesWell(t, a, b, p, out)
<1> DEFINE ha == Head(a)
           hb == Head(b)
<1>1. /\ Normal(a) /\ Fits(t, a) /\ Normal(b) /\ Fits(t, b) /\ p \in Text /\ t \in Text
      /\ Fits(p, out)
  BY PairIs
<1>2. PICK x, y \in Text : t = x \o y /\ Len(x) = Shorter(ha, hb)
  <2> HIDE DEF ha, hb
  <2>1. Splits(t, a, b)
    BY <1>1, SourceNext
  <2>. QED
    BY <2>1, Zenon DEF Splits, ha, hb
<1> DEFINE k == Len(x)
           ca == Consume(a, k)
           cb == Consume(b, k)
           ra == ResultOf(x, ha)
           z == BothKeep(x, ha, hb)
           v == Run(y, ca)
           m == MergeOf(y, ca, cb)
           q == Run(p, out)
<1>3. PICK o : /\ FollowLoop[Pair(a, b, out)] = FollowLoop[Pair(ca, cb, o)]
               /\ Rebases(p \o ra, y, Pair(ca, cb, o))
               /\ Run(p \o ra, o) = q \o z
               /\ Run(t, a) = ra \o v
  <2>1. RebasesBoth(p, t, a, b, out, x, y)
    <3>1. Len(x) = Shorter(Head(a), Head(b))
      BY <1>2
    <3> HIDE DEF ha, hb, k, ca, cb, ra, z, v, m, q
    <3>. QED
      BY <1>1, <1>2, <3>1, FollowBoth
  <2>. QED
    BY <2>1, Zenon DEF RebasesBoth
<1>4. ha \in Op
  BY <1>1, NormalTail
<1>5. k \in Nat /\ k = Shorter(ha, hb)
  BY <1>2, TextNil
<1>6. Merging(ca, cb)
  BY <1>5
<1>7. ra \in Text /\ z \in Text
  <2>1. ra \in {x, <<>>} /\ z \in {x, <<>>}
    BY <1>1, NormalTail DEF ResultOf, BothKeep, Op, At
  <2>. QED
    BY <2>1, TextNil
<1>8. v \in Text /\ m \in Text /\ q \in Text
  <2>1. y \in Text /\ Normal(ca) /\ Normal(cb) /\ Fits(y, ca)
    BY <1>3, PairIs
  <2> HIDE DEF ca, cb
  <2>. QED
    BY <1>1, <2>1, GapsAre, RunText
<1>9. MergeOf(t, a, b) = z \o m
  <2>1. Len(x) = Shorter(Head(a), Head(b))
    BY <1>2
  <2> HIDE DEF ha, hb, k, ca, cb, z, m
  <2>2. MergeOf(t, a, b)
          = BothKeep(x, Head(a), Head(b)) \o MergeOf(y, Consume(a, Len(x)), Consume(b, Len(x)))
    <3>1. MergeOf(x \o y, a, b)
            = BothKeep(x, Head(a), Head(b)) \o MergeOf(y, Consume(a, Len(x)), Consume(b, Len(x)))
      <4>1. BothAddress(x, a, b)
        BY <1>1, <2>1 DEF BothAddress
      <4>. QED
        BY <4>1, MergeBoth
    <3>. QED
      BY <1>2, <3>1
  <2>. QED
    BY <2>2 DEF ha, hb, k, ca, cb, z, m
<1> HIDE DEF k, ca, cb, ra, z, ha, hb
<1>10. MergesWell(y, ca, cb, p \o ra, o)
  BY <1>3, <1>6 DEF Merging
<1>11. Run((p \o ra) \o v, FollowLoop[Pair(ca, cb, o)]) = (q \o z) \o m
  BY <1>3, <1>10 DEF MergesWell
<1> HIDE DEF v, m, q
<1>12. (p \o ra) \o v = p \o (ra \o v)
  <2>1. p \in Text /\ ra \in Text /\ v \in Text
    BY <1>1, <1>7, <1>8
  <2>. QED
    BY ONLY <2>1, TextAssociative, SMTT(40)
<1>13. (q \o z) \o m = q \o (z \o m)
  <2>1. q \in Text /\ z \in Text /\ m \in Text
    BY <1>7, <1>8
  <2>. QED
    BY ONLY <2>1, TextAssociative, SMTT(40)
<1>. QED
  BY <1>3, <1>9, <1>11, <1>12, <1>13 DEF MergesWell, q

\* The end of the loop.
LEMMA MergesEnd ==
    ASSUME NEW t, NEW a, NEW b, NEW p, NEW out, Rebases(p, t, Pair(a, b, out)),
           ~At(a, "insert"), ~At(b, "insert"), a = <<>> \/ b = <<>>
    PROVE  MergesWell(t, a, b, p, out)
<1>1. a = <<>> /\ b = <<>> /\ t = <<>> /\ FollowLoop[Pair(a, b, out)] = out
  BY FollowEnd
<1>2. Fits(p, out) /\ p \in Text
  BY PairIs
<1>3. Run(t, a) = <<>> /\ p \o <<>> = p /\ Run(p, out) \o <<>> = Run(p, out)
  BY <1>1, <1>2, RunNil, RunText, TextConcatNil
<1>. QED
  BY <1>1, <1>3, MergeEnd DEF MergesWell

\* The induction step: one turn of the loop shortens an operand.
LEMMA MergesStep ==
    ASSUME NEW a \in Seq(Op), NEW b \in Seq(Op),
           \A c, d \in Seq(Op) : Len(c) + Len(d) < Len(a) + Len(b) => Merging(c, d)
    PROVE  Merging(a, b)
<1>1. SUFFICES ASSUME NEW t, NEW p, NEW out, Rebases(p, t, Pair(a, b, out))
               PROVE  MergesWell(t, a, b, p, out)
  BY DEF Merging
<1>2. Len(a) \in Nat /\ Len(b) \in Nat
  OBVIOUS
<1>3. ASSUME NEW c \in Seq(Op), c # <<>>
      PROVE  Tail(c) \in Seq(Op) /\ Len(Tail(c)) \in Nat /\ Len(c) = Len(Tail(c)) + 1
  BY <1>3, HeadAndTail
<1>4. CASE At(a, "insert") /\ (At(b, "insert") => LexLeq(Head(a).chars, Head(b).chars))
  <2>1. Tail(a) \in Seq(Op) /\ Len(Tail(a)) + Len(b) < Len(a) + Len(b)
    BY <1>2, <1>3, <1>4 DEF At
  <2>2. Merging(Tail(a), b)
    BY <2>1
  <2>. QED
    BY <1>1, <1>4, <2>2, MergesA
<1>5. CASE At(b, "insert") /\ (At(a, "insert") => ~LexLeq(Head(a).chars, Head(b).chars))
  <2>1. Tail(b) \in Seq(Op) /\ Len(a) + Len(Tail(b)) < Len(a) + Len(b)
    BY <1>2, <1>3, <1>5 DEF At
  <2>2. Merging(a, Tail(b))
    BY <2>1
  <2>. QED
    BY <1>1, <1>5, <2>2, MergesB
<1>6. CASE ~At(a, "insert") /\ ~At(b, "insert") /\ a # <<>> /\ b # <<>>
  <2>1. ASSUME NEW k \in Nat, k = Shorter(Head(a), Head(b))
        PROVE  Merging(Consume(a, k), Consume(b, k))
    <3> DEFINE c == Consume(a, k)
               d == Consume(b, k)
    <3>1. c \in Seq(Op) /\ d \in Seq(Op) /\ Len(c) + Len(d) < Len(a) + Len(b)
      BY <1>6, <2>1, ConsumeShortens
    <3> HIDE DEF c, d
    <3>2. Merging(c, d)
      BY <3>1
    <3>. QED
      BY <3>2 DEF c, d
  <2>. QED
    BY <1>1, <1>6, <2>1, MergesBoth
<1>7. CASE ~At(a, "insert") /\ ~At(b, "insert") /\ (a = <<>> \/ b = <<>>)
  BY <1>1, <1>7, MergesEnd
<1>. QED
  BY <1>4, <1>5, <1>6, <1>7

\* From every state the loop of Follow makes the merge.
LEMMA EveryFollowMerges == \A a, b \in Seq(Op) : Merging(a, b)
<1> DEFINE T == {s \in Seq(Op) \X Seq(Op) : Merging(s[1], s[2])}
<1>1. ASSUME NEW a \in Seq(Op), NEW b \in Seq(Op) PROVE <<a, b>> \in T <=> Merging(a, b)
  OBVIOUS
<1> HIDE DEF T
<1>2. ASSUME NEW a \in Seq(Op), NEW b \in Seq(Op),
             \A c, d \in Seq(Op) : Len(c) + Len(d) < Len(a) + Len(b) => <<c, d>> \in T
      PROVE  <<a, b>> \in T
  <2>1. \A c, d \in Seq(Op) : Len(c) + Len(d) < Len(a) + Len(b) => Merging(c, d)
    BY <1>1, <1>2
  <2>2. Merging(a, b)
    BY <2>1, MergesStep
  <2>. QED
    BY <1>1, <2>2
<1>3. \A a, b \in Seq(Op) : <<a, b>> \in T
  BY <1>2, PairInduction
<1>. QED
  BY <1>1, <1>3

\* Of any two edits of a text, B rebased on A makes of A's result the merge of
\* the two: each gap gets what both insert there, in the order of the texts, and
\* each character stays that neither deletes.
THEOREM FollowMerges ==
    ASSUME NEW text, NEW A, NEW B, Suits(text, A), Suits(text, B)
    PROVE  ApplyChangeset(ApplyChangeset(text, A), Follow(A, B)) = MergeOf(text, A.ops, B.ops)
<1> DEFINE a == A.ops
           b == B.ops
           nil == <<>>
<1>1. Normal(a) /\ Fits(text, a) /\ Normal(b) /\ Fits(text, b)
  BY DEF Suits
<1>2. a \in Seq(Op) /\ b \in Seq(Op) /\ text \in Text
  BY <1>1 DEF Fits
<1>3. Follow(A, B).ops = FollowLoop[Pair(a, b, nil)]
  BY DEF Follow, Pair
<1>4. Normal(nil) /\ Fits(nil, nil) /\ nil \in Text /\ Run(nil, nil) = nil
  BY TextNil, ConsumedIs, RunNil DEF Normal, Fits
<1>5. Run(text, a) \in Text /\ MergeOf(text, a, b) \in Text
  BY <1>1, <1>2, RunText, GapsAre
<1>6. ApplyChangeset(ApplyChangeset(text, A), Follow(A, B))
        = Run(Run(text, a), FollowLoop[Pair(a, b, nil)])
  BY <1>3, ApplyIsRun
<1>7. nil \o Run(text, a) = Run(text, a) /\ nil \o MergeOf(text, a, b) = MergeOf(text, a, b)
  BY <1>5, TextConcatNil
<1> HIDE DEF a, b, nil
<1>8. Rebases(nil, text, Pair(a, b, nil))
  BY <1>1, <1>4 DEF Rebases, Pair
<1>9. MergesWell(text, a, b, nil, nil)
  BY <1>2, <1>8, EveryFollowMerges DEF Merging
<1>. QED
  BY <1>4, <1>6, <1>7, <1>9 DEF MergesWell, a, b

\* Intention is preserved: FollowIsMerge holds however often the edits that meet
\* were rebased.
THEOREM RebasedIsTheMerge == Spec => []FollowIsMerge
<1>1. ASSUME EditsInv PROVE FollowIsMerge
  <2> DEFINE A == pending[1]
             B == pending[2]
             a == A.ops
             b == B.ops
             n == Len(doc)
             G == Gaps(doc, a, b)
             next(f, g) == MergedGap(A, B, g) \o (IF g = n THEN <<>> ELSE f[g + 1])
             from == CHOOSE f : f = [g \in 0..n |-> next(f, g)]
  <2>1. Suits(doc, A) /\ Suits(doc, B) /\ doc \in Text
    BY <1>1, EditsMean
  <2>2. Normal(a) /\ Normal(b) /\ n \in Nat
    BY <2>1, TextNil DEF Suits
  <2>3. /\ G \in [0..n -> Text] /\ Joins(Joined(G, n), G, n) /\ MergeOf(doc, a, b) = Joined(G, n)[0]
        /\ \A g \in 0..n : G[g] = Gap(doc, a, b, g)
    BY <2>1, <2>2, GapsAre DEF MergeOf
  <2>4. ASSUME NEW g PROVE MergedGap(A, B, g) = Gap(doc, a, b, g)
    <3>1. InsertedAt(A, g) = Ins(a, g) /\ InsertedAt(B, g) = Ins(b, g)
      BY DEF InsertedAt, Ins, Places
    <3>2. (Deletes(A, g + 1) <=> Erases(a, g + 1)) /\ (Deletes(B, g + 1) <=> Erases(b, g + 1))
      BY DEF Deletes, Erases
    <3> HIDE DEF A, B, a, b
    <3>. QED
      BY <3>1, <3>2 DEF MergedGap, Gap, InGap, KeptAfter
  <2>5. Merged(A, B) = from[0]
    BY DEF Merged
  <2> HIDE DEF A, B, a, b, n, G
  <2>6. ASSUME NEW f, Joins(f, G, n) PROVE f = [g \in 0..n |-> next(f, g)]
    BY <2>3, <2>4, <2>6 DEF Joins
  <2>7. ASSUME NEW f, f = [g \in 0..n |-> next(f, g)] PROVE Joins(f, G, n)
    BY <2>3, <2>4, <2>7 DEF Joins
  <2> DEFINE old == Joined(G, n)
  <2>8. old = [g \in 0..n |-> next(old, g)]
    BY <2>3, <2>6
  <2> HIDE DEF next, old
  <2>9. from = [g \in 0..n |-> next(from, g)]
    BY <2>8
  <2> HIDE DEF from
  <2>10. Joins(from, G, n)
    BY <2>7, <2>9
  <2>11. from[0] = old[0]
    <3> DEFINE k == 0
               lo == 0
    <3>1. k \in Nat /\ lo \in 0..n /\ n + k = n /\ lo \in lo..n /\ lo + k = lo
          /\ \A g \in lo..n : g + k = g
      BY <2>2
    <3> HIDE DEF k, lo
    <3>2. Shifted(n, k, lo, G, G) /\ Joins(from, G, n + k) /\ Joins(old, G, n)
      BY <2>2, <2>3, <2>10, <3>1 DEF Shifted, old
    <3>3. \A g \in lo..n : from[g + k] = old[g]
      BY <3>2, JoinsShift
    <3>4. from[lo] = old[lo]
      BY <3>1, <3>3
    <3>. QED
      BY <3>4 DEF lo
  <2>12. ApplyChangeset(ApplyChangeset(doc, A), Follow(A, B)) = MergeOf(doc, a, b)
    BY <2>1, FollowMerges DEF a, b
  <2>. QED
    BY <2>3, <2>5, <2>11, <2>12 DEF FollowIsMerge, A, B, old
<1>. QED
  BY <1>1, EditsInductive, PTL

-------------------------------------------------------------------------------
(* The cursors of the browser.                                             *)

\* What a cursor has before it, as a list of operations: the list that a cursor of
\* internal/ot is represented by.
Left(t) == IF Ended(t) THEN <<>> ELSE <<peek(t)>> \o SubSeq(t.ops, t.pos + 1, Len(t.ops))

\* The fields of a cursor.
LEMMA SliceFields ==
    ASSUME NEW t \in Slices
    PROVE  /\ t.ops \in Seq(Plain) /\ t.pos \in Nat \ {0} /\ t.off \in Nat
           /\ Len(t.ops) \in Nat
           /\ t = [ops |-> t.ops, pos |-> t.pos, off |-> t.off]
           /\ ~Ended(t) => /\ t.pos \in 1..Len(t.ops)
                           /\ Current(t) \in Plain /\ Current(t) \in Op
                           /\ t.off < Size(Current(t))
                           /\ Size(Current(t)) \in Nat
<1>1. t.ops \in Seq(Plain) /\ t.pos \in Nat \ {0} /\ t.off \in Nat
      /\ t = [ops |-> t.ops, pos |-> t.pos, off |-> t.off]
      /\ (t.pos <= Len(t.ops) => t.off < Size(t.ops[t.pos]))
  BY DEF Slices
<1>2. Len(t.ops) \in Nat
  BY <1>1, LenProperties
<1>3. ASSUME ~Ended(t)
      PROVE  /\ t.pos \in 1..Len(t.ops)
             /\ Current(t) \in Plain /\ Current(t) \in Op
             /\ t.off < Size(Current(t))
             /\ Size(Current(t)) \in Nat
  <2>1. t.pos \in 1..Len(t.ops)
    BY <1>1, <1>2, <1>3 DEF Ended
  <2>2. Current(t) \in Plain
    BY <1>1, <2>1, ElementOfSeq DEF Current
  <2>3. Current(t) \in Op /\ Size(Current(t)) \in Nat
    BY <2>2, PlainOps
  <2>4. t.off < Size(Current(t))
    BY <1>1, <1>2, <2>1 DEF Current
  <2>. QED
    BY <2>1, <2>2, <2>3, <2>4
<1>. QED
  BY <1>1, <1>2, <1>3

\* A cursor is made of a list, a position and an offset before the end of the operation.
LEMMA SliceMade ==
    ASSUME NEW ops \in Seq(Plain), NEW pos \in Nat \ {0}, NEW off \in Nat,
           pos <= Len(ops) => off < Size(ops[pos])
    PROVE  [ops |-> ops, pos |-> pos, off |-> off] \in Slices
BY DEF Slices

\* The end of the end of a list.
LEMMA SubSeqTwice ==
    ASSUME NEW S, NEW c \in Seq(S), NEW j \in Nat, NEW k \in Nat, j + k <= Len(c)
    PROVE  /\ Len(SubSeq(c, j + 1, Len(c))) = Len(c) - j
           /\ SubSeq(SubSeq(c, j + 1, Len(c)), k + 1, Len(SubSeq(c, j + 1, Len(c))))
                 = SubSeq(c, j + k + 1, Len(c))
<1> DEFINE d == SubSeq(c, j + 1, Len(c))
           e == SubSeq(c, j + k + 1, Len(c))
<1>1. Len(c) \in Nat /\ \A i \in 1..Len(c) : c[i] \in S
  BY LenProperties, ElementOfSeq
<1>2. d \in Seq(S) /\ Len(d) = Len(c) - j /\ \A i \in 1..Len(c) - j : d[i] = c[j + i]
  <2>1. j + 1 \in Int /\ Len(c) \in Int /\ \A i \in j + 1 .. Len(c) : c[i] \in S
    BY <1>1
  <2>2. d \in Seq(S) /\ Len(d) = (IF j + 1 <= Len(c) THEN Len(c) - (j + 1) + 1 ELSE 0)
        /\ \A i \in 1 .. Len(c) - (j + 1) + 1 : d[i] = c[(j + 1) + i - 1]
    BY <2>1, SubSeqProperties
  <2> HIDE DEF d
  <2>. QED
    BY <1>1, <2>2
<1>3. e \in Seq(S) /\ Len(e) = Len(c) - j - k /\ \A i \in 1..Len(c) - j - k : e[i] = c[j + k + i]
  <2>1. j + k + 1 \in Int /\ Len(c) \in Int /\ \A i \in j + k + 1 .. Len(c) : c[i] \in S
    BY <1>1
  <2>2. e \in Seq(S) /\ Len(e) = (IF j + k + 1 <= Len(c) THEN Len(c) - (j + k + 1) + 1 ELSE 0)
        /\ \A i \in 1 .. Len(c) - (j + k + 1) + 1 : e[i] = c[(j + k + 1) + i - 1]
    BY <2>1, SubSeqProperties
  <2> HIDE DEF e
  <2>. QED
    BY <1>1, <2>2
<1> HIDE DEF d, e
<1> DEFINE f == SubSeq(d, k + 1, Len(d))
<1>4. f \in Seq(S) /\ Len(f) = Len(c) - j - k /\ \A i \in 1..Len(c) - j - k : f[i] = d[k + i]
  <2>1. k + 1 \in Int /\ Len(d) \in Int /\ \A i \in k + 1 .. Len(d) : d[i] \in S
    BY <1>1, <1>2, ElementOfSeq
  <2>2. f \in Seq(S) /\ Len(f) = (IF k + 1 <= Len(d) THEN Len(d) - (k + 1) + 1 ELSE 0)
        /\ \A i \in 1 .. Len(d) - (k + 1) + 1 : f[i] = d[(k + 1) + i - 1]
    BY <2>1, SubSeqProperties
  <2> HIDE DEF f
  <2>3. Len(d) = Len(c) - j /\ Len(d) - (k + 1) + 1 = Len(c) - j - k
    BY <1>1, <1>2
  <2>4. Len(f) = Len(c) - j - k
    <3>1. Len(c) \in Nat /\ Len(f) = IF k + 1 <= Len(d) THEN Len(d) - (k + 1) + 1 ELSE 0
      BY <1>1, <2>2
    <3>. QED
      BY <2>3, <3>1
  <2>5. ASSUME NEW i \in 1..Len(c) - j - k PROVE f[i] = d[k + i]
    <3>1. (k + 1) + i - 1 = k + i
      BY <2>5
    <3>2. f[i] = d[(k + 1) + i - 1]
      BY <2>2, <2>3, <2>5
    <3>. QED
      BY <3>1, <3>2
  <2>. QED
    BY <2>2, <2>4, <2>5
<1> HIDE DEF f
<1>5. \A i \in 1..Len(c) - j - k : f[i] = e[i]
  <2>1. SUFFICES ASSUME NEW i \in 1..Len(c) - j - k PROVE f[i] = e[i]
    OBVIOUS
  <2>2. k + i \in 1..Len(c) - j /\ j + (k + i) = j + k + i
    BY <1>1, <2>1
  <2>. QED
    BY <1>2, <1>3, <1>4, <2>1, <2>2
<1>6. f = e
  BY <1>3, <1>4, <1>5, SeqEqual
<1>. QED
  BY <1>2, <1>6 DEF d, e, f

\* What is left of an operation after nothing of it, and after j and k of it.
LEMMA RestOfRest ==
    ASSUME NEW o \in Plain, NEW j \in Nat, NEW k \in Nat, j + k < Size(o)
    PROVE  /\ Rest(o, 0) = o
           /\ Rest(Rest(o, j), k) = Rest(o, j + k)
<1>1. o \in Op /\ Size(o) \in Nat \ {0} /\ o.n \in Nat /\ o.chars \in Seq(Nat) /\ Len(o.chars) \in Nat
      /\ o.op \in {"retain", "insert", "delete"}
      /\ (o.op = "insert" => o.n = 0) /\ (o.op # "insert" => o.chars = <<>>)
      /\ o = [op |-> o.op, n |-> o.n, chars |-> o.chars]
  BY PlainOps, OpTypes DEF Plain, Op
<1>2. SubSeq(o.chars, 0 + 1, Len(o.chars)) = o.chars
  BY <1>1
<1>3. Rest(o, 0) = o
  BY <1>1, <1>2 DEF Rest
<1> DEFINE c == o.chars
           d == SubSeq(c, j + 1, Len(c))
<1>4. SubSeq(d, k + 1, Len(d)) = SubSeq(c, j + k + 1, Len(c))
  <2>1. CASE o.op = "insert"
    <3>1. j + k < Len(c)
      BY <2>1 DEF Size
    <3> HIDE DEF c
    <3>2. c \in Seq(Nat) /\ Len(c) \in Nat
      BY <1>1 DEF c
    <3>. QED
      BY <3>1, <3>2, SubSeqTwice DEF d
  <2>2. CASE o.op # "insert"
    <3>1. c = <<>>
      BY <1>1, <2>2
    <3>2. \A i \in Nat : SubSeq(c, i + 1, Len(c)) = <<>>
      BY <3>1
    <3>3. d = <<>>
      BY <3>2
    <3>4. SubSeq(d, k + 1, Len(d)) = <<>>
      BY <3>3
    <3>5. SubSeq(c, (j + k) + 1, Len(c)) = <<>>
      BY <3>2
    <3>. QED
      BY <3>4, <3>5
  <2>. QED
    BY <2>1, <2>2
<1>5. (o.n - j) - k = o.n - (j + k)
  BY <1>1
<1>. QED
  BY <1>3, <1>4, <1>5 DEF Rest

\* peek is the rest of the current operation.
LEMMA PeekIs ==
    ASSUME NEW t \in Slices, ~Ended(t)
    PROVE  /\ peek(t) = Rest(Current(t), t.off)
           /\ peek(t) \in Plain /\ peek(t) \in Op
           /\ peek(t).op = Current(t).op
           /\ Size(peek(t)) = Size(Current(t)) - t.off
           /\ Size(peek(t)) \in Nat \ {0}
<1> DEFINE o == Current(t)
<1>1. o \in Plain /\ o \in Op /\ t.off \in Nat /\ t.off < Size(o) /\ Size(o) \in Nat
  BY SliceFields
<1>2. /\ o.op \in {"retain", "insert", "delete"} /\ o.n \in Nat /\ Len(o.chars) \in Nat
      /\ (o.op = "insert" => o.n = 0) /\ (o.op # "insert" => o.chars = <<>>)
      /\ o = [op |-> o.op, n |-> o.n, chars |-> o.chars]
  BY <1>1, OpTypes DEF Plain, Op
<1>3. peek(t) = Rest(o, t.off)
  <2>1. CASE o.op = "insert"
    BY <2>1 DEF peek, Is, Rest, Insert
  <2>2. CASE o.op # "insert"
    <3>1. SubSeq(o.chars, t.off + 1, Len(o.chars)) = <<>>
      BY <1>1, <1>2, <2>2
    <3>2. peek(t) = [o EXCEPT !.n = @ - t.off]
      BY <2>2 DEF peek, Is
    <3> HIDE DEF o
    <3>. QED
      BY <1>2, <2>2, <3>1, <3>2 DEF Rest
  <2>. QED
    BY <2>1, <2>2
<1>4. /\ Rest(o, t.off) \in Plain /\ Rest(o, t.off) \in Op /\ Rest(o, t.off).op = o.op
      /\ Size(Rest(o, t.off)) = Size(o) - t.off
  BY <1>1, RestIs
<1>. QED
  BY <1>1, <1>3, <1>4

\* What a cursor has left begins with what it shows.
LEMMA LeftIs ==
    ASSUME NEW t \in Slices
    PROVE  /\ Left(t) \in Seq(Plain) /\ Left(t) \in Seq(Op)
           /\ Ended(t) <=> Left(t) = <<>>
           /\ ~Ended(t) => /\ Head(Left(t)) = peek(t)
                           /\ Tail(Left(t)) = SubSeq(t.ops, t.pos + 1, Len(t.ops))
           /\ \A type : Is(t, type) <=> At(Left(t), type)
<1>1. CASE Ended(t)
  <2>1. Left(t) = <<>>
    BY <1>1 DEF Left
  <2>2. Left(t) \in Seq(Plain) /\ Left(t) \in Seq(Op)
    BY <2>1, EmptySeq
  <2>. QED
    BY <1>1, <2>1, <2>2 DEF Is, At
<1>2. CASE ~Ended(t)
  <2> DEFINE r == SubSeq(t.ops, t.pos + 1, Len(t.ops))
  <2>1. peek(t) \in Plain /\ peek(t).op = Current(t).op
    BY <1>2, PeekIs
  <2>2. r \in Seq(Plain)
    BY SliceFields, SuffixSeq
  <2>3. Left(t) = <<peek(t)>> \o r
    BY <1>2 DEF Left
  <2> HIDE DEF r
  <2>4. Left(t) \in Seq(Plain) /\ Left(t) # <<>> /\ Head(Left(t)) = peek(t) /\ Tail(Left(t)) = r
    BY <2>1, <2>2, <2>3
  <2>5. Left(t) \in Seq(Op)
    BY <2>4, PlainOps, SeqMonotonic
  <2>. QED
    BY <1>2, <2>1, <2>4, <2>5 DEF Is, At, r
<1>. QED
  BY <1>1, <1>2

\* A step of consume: the cursor that is moved by less than the current operation, or by
\* all of it and more.
Passed(t) == [ops |-> t.ops, pos |-> t.pos + 1, off |-> 0]
Inside(t, k) == [ops |-> t.ops, pos |-> t.pos, off |-> t.off + k]

LEMMA PassedIs ==
    ASSUME NEW t \in Slices, ~Ended(t)
    PROVE  /\ Passed(t) \in Slices
           /\ \A k \in Nat : k < Size(peek(t)) => Inside(t, k) \in Slices
<1>1. t.ops \in Seq(Plain) /\ t.pos \in 1..Len(t.ops) /\ Len(t.ops) \in Nat /\ t.off \in Nat
      /\ Size(Current(t)) \in Nat /\ Size(peek(t)) = Size(Current(t)) - t.off
  BY SliceFields, PeekIs
<1>2. Passed(t) \in Slices
  <2>1. ASSUME t.pos + 1 <= Len(t.ops) PROVE 0 < Size(t.ops[t.pos + 1])
    <3>1. t.pos + 1 \in 1..Len(t.ops)
      BY <1>1, <2>1
    <3>2. t.ops[t.pos + 1] \in Plain
      BY <1>1, <3>1, ElementOfSeq
    <3>. QED
      BY <3>2, PlainOps
  <2>2. t.pos + 1 \in Nat \ {0}
    BY <1>1
  <2>. QED
    BY <1>1, <2>1, <2>2, SliceMade DEF Passed
<1>3. ASSUME NEW k \in Nat, k < Size(peek(t)) PROVE Inside(t, k) \in Slices
  <2>1. t.off + k \in Nat /\ t.off + k < Size(t.ops[t.pos])
    BY <1>1, <1>3 DEF Current
  <2>2. t.pos \in Nat \ {0}
    BY <1>1
  <2>. QED
    BY <1>1, <2>1, <2>2, SliceMade DEF Inside
<1>. QED
  BY <1>2, <1>3

LEMMA SliceMoved ==
    ASSUME NEW t \in Slices, NEW k \in Nat
    PROVE  /\ [t EXCEPT !.off = @ + k] = Inside(t, k)
           /\ [t EXCEPT !.pos = @ + 1, !.off = 0] = Passed(t)
<1>1. t \in [ops : Seq(Plain), pos : Nat \ {0}, off : Nat]
  BY DEF Slices
<1>2. [t EXCEPT !.off = t.off + k] = Inside(t, k)
  BY <1>1 DEF Inside
<1>3. [t EXCEPT !.pos = t.pos + 1, !.off = 0] = Passed(t)
  <2>1. t = [ops |-> t.ops, pos |-> t.pos, off |-> t.off]
    BY <1>1
  <2> DEFINE r == [t EXCEPT !.pos = t.pos + 1]
  <2>2. r = [ops |-> t.ops, pos |-> t.pos + 1, off |-> t.off]
    BY <2>1
  <2> HIDE DEF r
  <2>3. [r EXCEPT !.off = 0] = Passed(t)
    BY <2>2 DEF Passed
  <2>. QED
    BY <2>3 DEF r
<1>. QED
  BY <1>2, <1>3

\* consume within an operation, and up to the end of it.
LEMMA ConsumeMoves ==
    ASSUME NEW t \in Slices, ~Ended(t), NEW k \in Nat \ {0}, k <= Size(peek(t))
    PROVE  consume(t, k) = IF k < Size(peek(t)) THEN Inside(t, k) ELSE Passed(t)
<1> DEFINE D == Moving
           V == Slices
           rem(m) == Size(Current(m.s)) - m.s.off
           ended == {m \in D : m.k = 0 \/ Ended(m.s)}
           within == {m \in D : m.k > 0 /\ ~Ended(m.s) /\ m.k < rem(m)}
           done == ended \cup within
           out == [m \in D |-> IF m \in within THEN Inside(m.s, m.k) ELSE m.s]
           next(m) == [s |-> Passed(m.s), k |-> m.k - rem(m)]
           step == [m \in D |-> IF m \in done THEN m ELSE next(m)]
           mu == [m \in D |-> IF Ended(m.s) THEN 0 ELSE Len(m.s.ops) + 1 - m.s.pos]
           body(f, m) == CASE m.k = 0 \/ Ended(m.s) -> m.s
                           [] m.k > 0 /\ ~Ended(m.s) /\ m.k < rem(m) -> [m.s EXCEPT !.off = @ + m.k]
                           [] OTHER -> f[[s |-> [m.s EXCEPT !.pos = @ + 1, !.off = 0], k |-> m.k - rem(m)]]
           move == CHOOSE f : f = [m \in D |-> body(f, m)]
<1>1. ASSUME NEW m \in D
      PROVE  /\ m.s \in Slices /\ m.k \in Nat
             /\ ~Ended(m.s) => rem(m) = Size(peek(m.s)) /\ rem(m) \in Nat \ {0}
             /\ [m.s EXCEPT !.off = @ + m.k] = Inside(m.s, m.k)
             /\ [m.s EXCEPT !.pos = @ + 1, !.off = 0] = Passed(m.s)
  <2>1. m.s \in Slices /\ m.k \in Nat
    BY DEF Moving
  <2>2. m.s = [ops |-> m.s.ops, pos |-> m.s.pos, off |-> m.s.off]
    BY <2>1, SliceFields
  <2>3. ~Ended(m.s) => rem(m) = Size(peek(m.s)) /\ rem(m) \in Nat \ {0}
    BY <2>1, PeekIs
  <2>4. [m.s EXCEPT !.off = @ + m.k] = Inside(m.s, m.k)
        /\ [m.s EXCEPT !.pos = @ + 1, !.off = 0] = Passed(m.s)
    BY <2>1, SliceMoved
  <2>. QED
    BY <2>1, <2>3, <2>4
<1>2. out \in [D -> V]
  <2>1. ASSUME NEW m \in D PROVE out[m] \in V
    <3>1. CASE m \in within
      <4>1. Inside(m.s, m.k) \in V
        BY <1>1, <3>1, PassedIs
      <4>. QED
        BY <3>1, <4>1
    <3>2. CASE m \notin within
      BY <1>1, <3>2
    <3>. QED
      BY <3>1, <3>2
  <2> HIDE DEF D, V, within
  <2>. QED
    BY <2>1
<1>3. ASSUME NEW m \in D, m \notin done
      PROVE  ~Ended(m.s) /\ m.k # 0 /\ rem(m) <= m.k /\ next(m) \in D
  <2>1. ~Ended(m.s) /\ m.k # 0
    BY <1>3
  <2>2. rem(m) \in Nat /\ m.k \in Nat
    BY <1>1, <2>1
  <2> HIDE DEF rem
  <2>5. ~(m.k < rem(m))
    BY <1>3, <2>1, <2>2
  <2>3. m.k - rem(m) \in Nat /\ rem(m) <= m.k
    BY <2>2, <2>5
  <2>4. Passed(m.s) \in Slices
    BY <1>1, <2>1, PassedIs
  <2>. QED
    BY <2>1, <2>3, <2>4 DEF Moving
<1>4. step \in [D -> D]
  <2> HIDE DEF D, done, next
  <2>. QED
    BY <1>3
<1>5. mu \in [D -> Nat]
  <2>1. ASSUME NEW m \in D PROVE (IF Ended(m.s) THEN 0 ELSE Len(m.s.ops) + 1 - m.s.pos) \in Nat
    <3>1. ~Ended(m.s) => m.s.pos \in 1..Len(m.s.ops) /\ Len(m.s.ops) \in Nat
      BY <1>1, SliceFields
    <3>. QED
      BY <3>1
  <2> HIDE DEF D
  <2>. QED
    BY <2>1
<1>6. \A m \in D : m \notin done => mu[step[m]] < mu[m]
  <2>1. SUFFICES ASSUME NEW m \in D, m \notin done PROVE mu[step[m]] < mu[m]
    OBVIOUS
  <2>2. next(m) \in D /\ ~Ended(m.s) /\ step[m] = next(m)
    <3> HIDE DEF D, done, next
    <3>. QED
      BY <1>3, <2>1
  <2>3. m.s.pos \in 1..Len(m.s.ops) /\ Len(m.s.ops) \in Nat
    BY <1>1, <2>2, SliceFields
  <2>4. mu[m] = Len(m.s.ops) + 1 - m.s.pos
    BY <2>2
  <2>5. mu[next(m)] = IF Ended(Passed(m.s)) THEN 0 ELSE Len(m.s.ops) + 1 - (m.s.pos + 1)
    BY <2>2 DEF Passed
  <2> DEFINE l == Len(m.s.ops)
             i == m.s.pos
  <2>6. l \in Nat /\ i \in 1..l /\ mu[m] = l + 1 - i
        /\ (mu[next(m)] = 0 \/ mu[next(m)] = l + 1 - (i + 1))
    BY <2>3, <2>4, <2>5
  <2> HIDE DEF mu, next, l, i
  <2>7. mu[next(m)] < mu[m]
    BY <2>6
  <2>. QED
    BY <2>2, <2>7
<1>7. PICK f : IsLoop(f, D, V, done, out, step)
  <2>1. V # {}
    OBVIOUS
  <2> HIDE DEF D, V, done, out, step, mu
  <2>. QED
    BY <1>2, <1>4, <1>5, <1>6, <2>1, LoopRecursion
<1>8. \A g, m : m \in D => body(g, m) = IF m \in done THEN out[m] ELSE g[step[m]]
  <2>1. SUFFICES ASSUME NEW g, NEW m \in D
                 PROVE  body(g, m) = IF m \in done THEN out[m] ELSE g[step[m]]
    OBVIOUS
  <2>2. CASE m \in ended
    <3>1. m.k = 0 \/ Ended(m.s)
      BY <2>2
    <3>4. m \notin within
      BY <3>1
    <3>2. body(g, m) = m.s
      BY <2>2
    <3> HIDE DEF body, ended, within
    <3>. QED
      BY <2>2, <3>2, <3>4
  <2>3. CASE m \in within
    <3> HIDE DEF rem
    <3>4. m.k > 0 /\ ~Ended(m.s) /\ m.k < rem(m)
      BY <2>3
    <3>1. ~(m.k = 0 \/ Ended(m.s)) /\ m.k > 0 /\ ~Ended(m.s) /\ m.k < rem(m)
      BY <3>4
    <3>2. body(g, m) = [m.s EXCEPT !.off = @ + m.k]
      BY <3>1
    <3>3. out[m] = Inside(m.s, m.k)
      BY <2>3
    <3> HIDE DEF body, within, out
    <3>. QED
      BY <1>1, <2>3, <3>2, <3>3
  <2>4. CASE m \notin done
    <3>1. ~(m.k = 0 \/ Ended(m.s)) /\ ~(m.k < rem(m))
      <4> HIDE DEF rem, D
      <4>1. ~Ended(m.s) /\ m.k # 0 /\ m.k \in Nat
        BY <1>1, <2>4
      <4>. QED
        BY <2>4, <4>1
    <3>2. body(g, m) = g[[s |-> [m.s EXCEPT !.pos = @ + 1, !.off = 0], k |-> m.k - rem(m)]]
      BY <3>1, Zenon
    <3>3. step[m] = next(m)
      <4> HIDE DEF done, next
      <4>. QED
        BY <2>4
    <3> HIDE DEF body, done, step
    <3>. QED
      BY <1>1, <2>4, <3>2, <3>3
  <2>. QED
    BY <2>2, <2>3, <2>4
<1>9. f = [m \in D |-> body(f, m)]
  <2> HIDE DEF D, V, body, done, out, step
  <2>. QED
    BY <1>7, <1>8 DEF IsLoop
<1>10. move = [m \in D |-> body(move, m)]
  <2> HIDE DEF body
  <2>. QED
    BY <1>9
<1>11. \A m \in D : move[m] = IF m \in done THEN out[m] ELSE move[step[m]]
  <2> HIDE DEF body, done, out, step, move, D
  <2>. QED
    BY <1>8, <1>10
<1> DEFINE m0 == [s |-> t, k |-> k]
<1>12. consume(t, k) = move[m0]
  BY DEF consume, Moving
<1>13. m0 \in D /\ m0.s = t /\ m0.k = k /\ m0 \notin ended
  BY DEF Moving
<1>14. Size(peek(t)) \in Nat \ {0} /\ rem(m0) = Size(peek(t))
  BY <1>1, <1>13
<1>15. CASE k < Size(peek(t))
  <2>1. m0 \in within
    BY <1>13, <1>14, <1>15
  <2>2. out[m0] = Inside(t, k)
    BY <1>13, <2>1
  <2> HIDE DEF move, within, ended, out, m0, step, D
  <2>. QED
    BY <1>11, <1>12, <1>13, <1>15, <2>1, <2>2
<1>16. CASE ~(k < Size(peek(t)))
  <2>1. m0 \notin done
    BY <1>13, <1>14, <1>16
  <2>2. k = Size(peek(t))
    BY <1>14, <1>16
  <2> DEFINE m1 == [s |-> Passed(t), k |-> 0]
  <2>3. m1 \in D /\ m1 \in done /\ out[m1] = Passed(t)
    <3>1. m1 \in D
      BY PassedIs DEF Moving
    <3>2. m1.k = 0 /\ m1 \notin within
      BY <3>1
    <3>3. out[m1] = m1.s
      BY <3>1, <3>2
    <3>. QED
      BY <3>1, <3>2, <3>3
  <2>4. step[m0] = m1
    <3>1. next(m0) = m1
      BY <1>13, <1>14, <2>2
    <3> HIDE DEF done, next, m1, D, m0
    <3>. QED
      BY <1>13, <2>1, <3>1
  <2> HIDE DEF move, done, out, m0, m1, step, D
  <2>. QED
    BY <1>11, <1>12, <1>13, <1>16, <2>1, <2>3, <2>4
<1>. QED
  BY <1>15, <1>16

\* The end of a list from i on begins with the i-th.
LEMMA SuffixCons ==
    ASSUME NEW S, NEW c \in Seq(S), NEW i \in 1..Len(c)
    PROVE  SubSeq(c, i, Len(c)) = <<c[i]>> \o SubSeq(c, i + 1, Len(c))
<1> DEFINE d == SubSeq(c, i, Len(c))
<1>1. Len(c) \in Nat /\ \A j \in 1..Len(c) : c[j] \in S
  BY LenProperties, ElementOfSeq
<1>2. d \in Seq(S) /\ Len(d) > 0
  <2>1. i \in Int /\ Len(c) \in Int /\ i <= Len(c) /\ \A j \in i .. Len(c) : c[j] \in S
    BY <1>1
  <2>2. d \in Seq(S) /\ Len(d) = IF i <= Len(c) THEN Len(c) - i + 1 ELSE 0
    BY <2>1, SubSeqProperties
  <2> HIDE DEF d
  <2>. QED
    BY <2>1, <2>2
<1>3. Head(d) = c[i] /\ Tail(d) = SubSeq(c, i + 1, Len(c))
  BY <1>1, HeadTailOfSubSeq
<1> HIDE DEF d
<1>4. d # <<>>
  BY <1>2
<1>5. d = <<Head(d)>> \o Tail(d)
  BY <1>2, <1>4, HeadAndTail
<1>. QED
  BY <1>3, <1>5 DEF d

\* A new cursor has all of the list before it.
LEMMA MakeSliceIs ==
    ASSUME NEW ops \in Seq(Plain)
    PROVE  makeSlice(ops) \in Slices /\ Left(makeSlice(ops)) = ops
<1> DEFINE t == makeSlice(ops)
<1>1. t.ops = ops /\ t.pos = 1 /\ t.off = 0 /\ Len(ops) \in Nat
  BY LenProperties DEF makeSlice
<1>2. t \in Slices
  <2>1. ASSUME 1 <= Len(ops) PROVE 0 < Size(ops[1])
    <3>1. ops[1] \in Plain
      BY <1>1, <2>1, ElementOfSeq
    <3>. QED
      BY <3>1, PlainOps
  <2>. QED
    BY <2>1, SliceMade DEF makeSlice
<1> HIDE DEF t
<1>3. CASE ops = <<>>
  <2>1. Ended(t)
    BY <1>1, <1>3 DEF Ended
  <2>. QED
    BY <1>2, <1>3, <2>1 DEF Left, t
<1>4. CASE ops # <<>>
  <2>1. 1 \in 1..Len(ops)
    BY <1>1, <1>4, EmptySeq
  <2>2. ~Ended(t) /\ Current(t) = ops[1] /\ Current(t) \in Plain
    BY <1>1, <2>1, ElementOfSeq DEF Ended, Current
  <2>3. peek(t) = ops[1]
    <3>1. peek(t) = Rest(Current(t), 0)
      BY <1>1, <1>2, <2>2, PeekIs
    <3>2. 0 + 0 < Size(Current(t))
      BY <2>2, PlainOps
    <3>. QED
      BY <2>2, <3>1, <3>2, RestOfRest
  <2>4. Left(t) = <<ops[1]>> \o SubSeq(ops, 1 + 1, Len(ops))
    BY <1>1, <2>2, <2>3 DEF Left
  <2>5. SubSeq(ops, 1, Len(ops)) = <<ops[1]>> \o SubSeq(ops, 1 + 1, Len(ops))
    BY <2>1, SuffixCons
  <2>6. SubSeq(ops, 1, Len(ops)) = ops
    BY SubSeqFull
  <2>. QED
    BY <1>2, <2>4, <2>5, <2>6 DEF t
<1>. QED
  BY <1>3, <1>4

\* Moving a cursor of the browser is what consuming the list is.
LEMMA ConsumeLeft ==
    ASSUME NEW t \in Slices, ~Ended(t), NEW k \in Nat \ {0}, k <= Size(peek(t))
    PROVE  /\ consume(t, k) \in Slices
           /\ Left(consume(t, k)) = Consume(Left(t), k)
<1> DEFINE o == Current(t)
           r == SubSeq(t.ops, t.pos + 1, Len(t.ops))
           u == consume(t, k)
<1>1. /\ t.ops \in Seq(Plain) /\ t.pos \in 1..Len(t.ops) /\ Len(t.ops) \in Nat /\ t.off \in Nat
      /\ o \in Plain /\ o \in Op /\ Size(o) \in Nat
  BY SliceFields
<1>2. /\ peek(t) = Rest(o, t.off) /\ peek(t) \in Plain /\ Size(peek(t)) = Size(o) - t.off
      /\ Size(peek(t)) \in Nat \ {0}
  BY PeekIs
<1>3. Left(t) \in Seq(Op) /\ Left(t) # <<>> /\ Head(Left(t)) = peek(t) /\ Tail(Left(t)) = r
  BY LeftIs
<1>4. u = IF k < Size(peek(t)) THEN Inside(t, k) ELSE Passed(t)
  BY ConsumeMoves
<1>5. /\ k = Size(peek(t)) => Consume(Left(t), k) = r
      /\ k # Size(peek(t)) => Consume(Left(t), k) = <<Rest(peek(t), k)>> \o r
  <2>1. k \in 0..Size(Head(Left(t)))
    BY <1>2, <1>3
  <2> HIDE DEF r
  <2>. QED
    BY <1>3, <2>1, ConsumeIs
<1>6. CASE k < Size(peek(t))
  <2>1. u = Inside(t, k) /\ u \in Slices
    BY <1>4, <1>6, PassedIs
  <2>2. u.ops = t.ops /\ u.pos = t.pos /\ u.off = t.off + k
    BY <2>1 DEF Inside
  <2>3. ~Ended(u) /\ Current(u) = o
    BY <2>2 DEF Ended, Current
  <2>4. peek(u) = Rest(o, t.off + k)
    BY <2>1, <2>2, <2>3, PeekIs
  <2>5. Rest(Rest(o, t.off), k) = Rest(o, t.off + k)
    BY <1>1, <1>2, <1>6, RestOfRest
  <2>6. Left(u) = <<Rest(peek(t), k)>> \o r
    BY <1>2, <2>2, <2>3, <2>4, <2>5 DEF Left
  <2>7. k # Size(peek(t))
    BY <1>2, <1>6
  <2>. QED
    BY <1>5, <2>1, <2>6, <2>7
<1>7. CASE ~(k < Size(peek(t)))
  <2>1. k = Size(peek(t))
    BY <1>2, <1>7
  <2>2. u = Passed(t) /\ u \in Slices
    BY <1>4, <1>7, PassedIs
  <2>3. u.ops = t.ops /\ u.pos = t.pos + 1 /\ u.off = 0
    BY <2>2 DEF Passed
  <2>4. Left(u) = r
    <3>1. CASE Ended(u)
      <4>1. t.pos + 1 > Len(t.ops)
        BY <2>3, <3>1 DEF Ended
      <4>2. r = <<>>
        <5>1. t.pos + 1 \in Int /\ Len(t.ops) \in Int /\ Len(t.ops) < t.pos + 1
          BY <1>1, <4>1
        <5>. QED
          BY <5>1, SubSeqEmpty
      <4>. QED
        BY <3>1, <4>2 DEF Left
    <3>2. CASE ~Ended(u)
      <4>1. t.pos + 1 \in 1..Len(t.ops) /\ Current(u) = t.ops[t.pos + 1]
        BY <1>1, <2>3, <3>2 DEF Ended, Current
      <4>2. peek(u) = t.ops[t.pos + 1]
        <5>1. peek(u) = Rest(Current(u), 0)
          BY <2>2, <2>3, <3>2, PeekIs
        <5>2. Current(u) \in Plain
          BY <2>2, <3>2, SliceFields
        <5>3. 0 + 0 < Size(Current(u))
          BY <5>2, PlainOps
        <5>. QED
          BY <4>1, <5>1, <5>2, <5>3, RestOfRest
      <4>3. Left(u) = <<t.ops[t.pos + 1]>> \o SubSeq(t.ops, (t.pos + 1) + 1, Len(t.ops))
        BY <2>3, <3>2, <4>2 DEF Left
      <4>4. r = <<t.ops[t.pos + 1]>> \o SubSeq(t.ops, (t.pos + 1) + 1, Len(t.ops))
        BY <1>1, <4>1, SuffixCons
      <4>. QED
        BY <4>3, <4>4
    <3>. QED
      BY <3>1, <3>2
  <2>. QED
    BY <1>5, <2>1, <2>2, <2>4
<1>. QED
  BY <1>6, <1>7

\* The fields of an operation.
LEMMA OpFields ==
    ASSUME NEW o \in Op
    PROVE  /\ o = [op |-> o.op, n |-> o.n, chars |-> o.chars]
           /\ o.op \in {"retain", "insert", "delete"} /\ o.n \in Nat /\ o.chars \in Seq(Nat)
BY DEF Op, Text

\* What one operation produces, and one that is merged of two.
LEMMA OneProduced ==
    ASSUME NEW o \in Op
    PROVE  <<o>> \in Seq(Op) /\ Produced(<<o>>) = Produces(o)
<1>1. <<>> \in Seq(Op) /\ <<o>> = <<o>> \o <<>>
  BY ConcatEmptySeq, EmptySeq
<1>2. Produced(<<o>> \o <<>>) = Produces(o) + Produced(<<>>)
  BY <1>1, ConsumedCons
<1>3. Produced(<<>>) = 0 /\ Produces(o) \in Nat
  BY ProducedIs, OpTypes
<1>. QED
  BY <1>1, <1>2, <1>3

LEMMA MergeProduces ==
    ASSUME NEW l \in Op, NEW o \in Op, l.op = o.op
    PROVE  Produces(Merge(l, o)) = Produces(l) + Produces(o)
<1>1. l.chars \in Seq(Nat) /\ o.chars \in Seq(Nat) /\ o.op \in {"retain", "insert", "delete"}
      /\ l.n \in Nat /\ o.n \in Nat
  BY OpFields
<1>2. Len(l.chars \o o.chars) = Len(l.chars) + Len(o.chars)
  BY <1>1, ConcatProperties
<1> DEFINE e == Merge(l, o)
<1>3. e.op = o.op /\ e.n = l.n + o.n /\ e.chars = l.chars \o o.chars
  BY DEF Merge
<1> HIDE DEF e
<1>4. l.op = o.op
  OBVIOUS
<1>5. CASE o.op = "retain"
  <2>1. Produces(e) = e.n /\ Produces(l) = l.n /\ Produces(o) = o.n
    BY <1>3, <1>4, <1>5 DEF Produces
  <2>. QED
    BY <1>3, <2>1 DEF e
<1>6. CASE o.op = "insert"
  <2>1. Produces(e) = Len(e.chars) /\ Produces(l) = Len(l.chars) /\ Produces(o) = Len(o.chars)
    BY <1>3, <1>4, <1>6 DEF Produces
  <2>. QED
    BY <1>2, <1>3, <2>1 DEF e
<1>7. CASE o.op = "delete"
  <2>1. Produces(e) = 0 /\ Produces(l) = 0 /\ Produces(o) = 0
    BY <1>3, <1>4, <1>7 DEF Produces
  <2>. QED
    BY <2>1 DEF e
<1>. QED
  BY <1>1, <1>5, <1>6, <1>7

\* The browser's addOp adds to plain operations what Go's adds, and counts it.
LEMMA AddOpSame ==
    ASSUME NEW ops \in Seq(Plain), NEW o \in Plain
    PROVE  /\ addOp(ops, o) = AddOp(ops, o)
           /\ AddOp(ops, o) \in Seq(Plain)
           /\ Produced(AddOp(ops, o)) = Produced(ops) + Produces(o)
<1>1. o \in Op /\ ops \in Seq(Op) /\ Plain \subseteq Op
  BY PlainOps, SeqMonotonic
<1>2. Adds(Plain, ops, o)
  BY <1>1, AddOpIs
<1>3. <<o>> \in Seq(Op) /\ Produced(<<o>>) = Produces(o)
  BY <1>1, OneProduced
<1>4. CASE /\ ops # <<>> => ops[Len(ops)].op # o.op
           /\ AddOp(ops, o) = ops \o <<o>>
  <2>1. addOp(ops, o) = Append(ops, o)
    BY <1>4 DEF addOp
  <2>2. Append(ops, o) = ops \o <<o>> /\ Append(ops, o) \in Seq(Plain)
    BY AppendIsConcat, AppendProperties
  <2>3. Produced(ops \o <<o>>) = Produced(ops) + Produced(<<o>>)
    BY <1>1, <1>3, ConsumedConcat
  <2>. QED
    BY <1>3, <1>4, <2>1, <2>2, <2>3
<1>5. ASSUME NEW f \in Seq(Plain), NEW l \in Plain,
             ops = f \o <<l>>, ops[Len(ops)] = l, l.op = o.op,
             Len(ops) = Len(f) + 1,
             AddOp(ops, o) = f \o <<Merge(l, o)>>
      PROVE  /\ addOp(ops, o) = AddOp(ops, o)
             /\ AddOp(ops, o) \in Seq(Plain)
             /\ Produced(AddOp(ops, o)) = Produced(ops) + Produces(o)
  <2> DEFINE e == Merge(l, o)
  <2>1. l \in Op /\ e \in Plain /\ e \in Op /\ f \in Seq(Op)
    BY <1>1, <1>5, MergeIs, SeqMonotonic
  <2>2. ops = Append(f, l) /\ f \o <<e>> = Append(f, e)
    BY <1>5, <2>1, AppendIsConcat
  <2>4. [ops EXCEPT ![Len(ops)] = e] = Append(f, e)
    <3> DEFINE k == Len(ops)
               q == [ops EXCEPT ![k] = e]
               w == Append(f, e)
    <3>1. k \in 1..Len(ops) /\ k = Len(f) + 1 /\ Len(f) \in Nat /\ f \in Seq(Op) /\ l \in Op
      BY <1>5, <2>1, LenProperties
    <3>2. \A i \in 1..k : ops[i] = IF i = k THEN l ELSE f[i]
      BY <2>1, <2>2, <3>1, AppendProperties
    <3>3. q \in Seq(Op) /\ Len(q) = k /\ \A i \in 1..k : q[i] = IF i = k THEN e ELSE ops[i]
      <4> HIDE DEF e
      <4>. QED
        BY <1>1, <2>1, <3>1, ExceptSeq
    <3>4. w \in Seq(Op) /\ Len(w) = k /\ \A i \in 1..k : w[i] = IF i = k THEN e ELSE f[i]
      <4> HIDE DEF e
      <4>. QED
        BY <2>1, <3>1, AppendProperties
    <3>5. \A i \in 1..k : q[i] = w[i]
      <4> HIDE DEF e, q, w
      <4>. QED
        BY <3>1, <3>2, <3>3, <3>4
    <3> HIDE DEF q, w
    <3>6. q = w
      BY <3>3, <3>4, <3>5, SeqEqual
    <3>. QED
      BY <3>6 DEF q, w
  <2>5. ops # <<>>
    BY <2>2, <1>5, EmptySeq, LenProperties
  <2>6. (IF o.op = "insert" THEN Insert(l.chars \o o.chars) ELSE [o EXCEPT !.n = l.n + @]) = e
    <3>1. /\ l = [op |-> l.op, n |-> l.n, chars |-> l.chars] /\ o = [op |-> o.op, n |-> o.n, chars |-> o.chars]
          /\ l.n \in Nat /\ o.n \in Nat
      BY <1>1, <2>1, OpFields
    <3>2. CASE o.op = "insert"
      <4>1. l.n = 0 /\ o.n = 0
        BY <1>5, <3>2 DEF Plain
      <4>. QED
        BY <1>5, <3>2, <4>1 DEF Insert, Merge
    <3>3. CASE o.op # "insert"
      <4>1. l.chars = <<>> /\ o.chars = <<>>
        BY <1>5, <3>3 DEF Plain
      <4>2. l.chars \o o.chars = <<>>
        BY <4>1, ConcatEmptySeq, EmptySeq
      <4>3. [o EXCEPT !.n = l.n + @] = [op |-> o.op, n |-> l.n + o.n, chars |-> o.chars]
        BY <3>1
      <4>. QED
        BY <1>5, <3>3, <4>1, <4>2, <4>3 DEF Merge
    <3>. QED
      BY <3>2, <3>3
  <2>7. addOp(ops, o) = Append(f, e)
    <3>1. addOp(ops, o) = [ops EXCEPT ![Len(ops)] = IF o.op = "insert" THEN Insert(@.chars \o o.chars)
                                                    ELSE [o EXCEPT !.n = ops[Len(ops)].n + @]]
      BY <1>5, <2>5 DEF addOp
    <3>2. addOp(ops, o) = [ops EXCEPT ![Len(ops)] = IF o.op = "insert" THEN Insert(l.chars \o o.chars)
                                                    ELSE [o EXCEPT !.n = l.n + @]]
      BY <1>5, <3>1
    <3>. QED
      BY <2>4, <2>6, <3>2
  <2>8. Append(f, e) \in Seq(Plain)
    BY <2>1, AppendProperties
  <2>9. Produced(f \o <<e>>) = Produced(ops) + Produces(o)
    <3>1. <<e>> \in Seq(Op) /\ Produced(<<e>>) = Produces(e) /\ <<l>> \in Seq(Op) /\ Produced(<<l>>) = Produces(l)
      BY <2>1, OneProduced
    <3>2. Produced(f \o <<e>>) = Produced(f) + Produces(e) /\ Produced(ops) = Produced(f) + Produces(l)
      BY <1>5, <2>1, <3>1, ConsumedConcat
    <3>3. Produces(e) = Produces(l) + Produces(o)
      BY <1>1, <1>5, <2>1, MergeProduces
    <3>4. Produced(f) \in Nat /\ Produces(l) \in Nat /\ Produces(o) \in Nat
      BY <1>1, <2>1, ProducedIs, OpTypes
    <3> HIDE DEF e
    <3>. QED
      BY <3>2, <3>3, <3>4
  <2>. QED
    BY <1>5, <2>2, <2>7, <2>8, <2>9
<1>. QED
  BY <1>2, <1>4, <1>5 DEF Adds

-------------------------------------------------------------------------------
(* follow and compose of the browser.                                      *)

\* A loop of the browser as one of internal/ot.
AsCursors(s) == [a |-> Left(s.a), b |-> Left(s.b), out |-> s.ops]

\* The fields of a loop.
LEMMA LoopFields ==
    ASSUME NEW s \in Loop
    PROVE  /\ s.a \in Slices /\ s.b \in Slices /\ s.ops \in Seq(Plain) /\ s.new_len \in Nat
           /\ s = [a |-> s.a, b |-> s.b, ops |-> s.ops, new_len |-> s.new_len]
           /\ AsCursors(s) \in Cursors
           /\ AsCursors(s).a = Left(s.a) /\ AsCursors(s).b = Left(s.b) /\ AsCursors(s).out = s.ops
<1>1. /\ s.a \in Slices /\ s.b \in Slices /\ s.ops \in Seq(Plain) /\ s.new_len \in Nat
      /\ s = [a |-> s.a, b |-> s.b, ops |-> s.ops, new_len |-> s.new_len]
  BY DEF Loop
<1>2. Left(s.a) \in Seq(Op) /\ Left(s.b) \in Seq(Op)
  BY <1>1, LeftIs
<1>3. s.ops \in Seq(Op)
  BY <1>1, PlainOps, SeqMonotonic
<1>. QED
  BY <1>1, <1>2, <1>3 DEF AsCursors, Cursors

\* u follows s in a loop: it is one of the browser, where a step of internal/ot goes to v,
\* and still counts what is emitted.
Mirrors(s, u, v) ==
    /\ u \in Loop
    /\ AsCursors(u) = v
    /\ s.new_len = Produced(s.ops) => u.new_len = Produced(u.ops)

\* A step that moves the cursors to x and y, and emits o or nothing.
LEMMA Moved ==
    ASSUME NEW s \in Loop, NEW x \in Slices, NEW y \in Slices, NEW o \in Plain,
           NEW u, u = [a |-> x, b |-> y, ops |-> s.ops, new_len |-> s.new_len]
    PROVE  /\ Mirrors(s, u, [a |-> Left(x), b |-> Left(y), out |-> s.ops])
           /\ Mirrors(s, Emit(u, o), [a |-> Left(x), b |-> Left(y), out |-> AddOp(s.ops, o)])
<1>1. s.ops \in Seq(Plain) /\ s.new_len \in Nat
  BY LoopFields
<1>2. Mirrors(s, u, [a |-> Left(x), b |-> Left(y), out |-> s.ops])
  BY <1>1 DEF Mirrors, Loop, AsCursors
<1>3. /\ addOp(s.ops, o) = AddOp(s.ops, o) /\ AddOp(s.ops, o) \in Seq(Plain)
      /\ Produced(AddOp(s.ops, o)) = Produced(s.ops) + Produces(o)
  BY <1>1, AddOpSame
<1>4. Emit(u, o) = [a |-> x, b |-> y, ops |-> AddOp(s.ops, o), new_len |-> s.new_len + Produces(o)]
  <2> DEFINE p == addOp(s.ops, o)
             q == s.new_len + Produces(o)
  <2>1. u.ops = s.ops /\ u.new_len = s.new_len
    OBVIOUS
  <2>2. Emit(u, o) = [u EXCEPT !.ops = p, !.new_len = q]
    BY <2>1 DEF Emit
  <2> HIDE DEF p, q
  <2>3. [u EXCEPT !.ops = p, !.new_len = q] = [a |-> x, b |-> y, ops |-> p, new_len |-> q]
    <3> DEFINE e == [u EXCEPT !.ops = p]
    <3>1. e = [a |-> x, b |-> y, ops |-> p, new_len |-> s.new_len]
      OBVIOUS
    <3> HIDE DEF e
    <3>2. [e EXCEPT !.new_len = q] = [a |-> x, b |-> y, ops |-> p, new_len |-> q]
      BY <3>1
    <3>. QED
      BY <3>2 DEF e
  <2>. QED
    BY <1>3, <2>2, <2>3 DEF p, q
<1>5. s.new_len + Produces(o) \in Nat
  BY <1>1, PlainOps, OpTypes
<1>6. Mirrors(s, Emit(u, o), [a |-> Left(x), b |-> Left(y), out |-> AddOp(s.ops, o)])
  BY <1>1, <1>3, <1>4, <1>5 DEF Mirrors, Loop, AsCursors
<1>. QED
  BY <1>2, <1>6

\* The cursor behind its whole current operation.
LEMMA WholeLeft ==
    ASSUME NEW t \in Slices, ~Ended(t), NEW k, k = Size(peek(t))
    PROVE  consume(t, k) \in Slices /\ Left(consume(t, k)) = Tail(Left(t))
<1>1. k \in Nat \ {0} /\ Left(t) \in Seq(Op) /\ Left(t) # <<>> /\ Head(Left(t)) = peek(t)
  BY PeekIs, LeftIs
<1>2. consume(t, k) \in Slices /\ Left(consume(t, k)) = Consume(Left(t), k)
  BY <1>1, ConsumeLeft
<1>3. Consume(Left(t), k) = Tail(Left(t))
  BY <1>1 DEF Consume
<1>. QED
  BY <1>2, <1>3

\* Both cursors moved by the shorter of their current operations.
LEMMA BothLeft ==
    ASSUME NEW t \in Slices, ~Ended(t), NEW r \in Slices, ~Ended(r),
           NEW k, k = Min({Size(peek(t)), Size(peek(r))})
    PROVE  /\ k \in Nat \ {0} /\ k <= Size(peek(t)) /\ k <= Size(peek(r))
           /\ k = Shorter(peek(t), peek(r))
           /\ consume(t, k) \in Slices /\ Left(consume(t, k)) = Consume(Left(t), k)
           /\ consume(r, k) \in Slices /\ Left(consume(r, k)) = Consume(Left(r), k)
<1> DEFINE m == Size(peek(t))
           n == Size(peek(r))
<1>1. m \in Nat \ {0} /\ n \in Nat \ {0}
  BY PeekIs
<1>2. k = IF m < n THEN m ELSE n
  <2> HIDE DEF m, n
  <2>1. \E x \in {m, n} : \A y \in {m, n} : x <= y
    BY <1>1
  <2>2. k \in {m, n} /\ k <= m /\ k <= n
    BY <2>1 DEF Min, m, n
  <2>. QED
    BY <1>1, <2>2
<1>3. k = Shorter(peek(t), peek(r))
  BY <1>2 DEF Shorter
<1>4. k \in Nat \ {0} /\ k <= m /\ k <= n
  <2> HIDE DEF m, n
  <2>. QED
    BY <1>1, <1>2
<1>. QED
  BY <1>3, <1>4, ConsumeLeft

\* An operation that is no insertion, cut to k.
LEMMA CutIs ==
    ASSUME NEW o \in Plain, o.op # "insert", NEW k \in Nat \ {0}
    PROVE  /\ [o EXCEPT !.n = k] \in Plain
           /\ o.op = "retain" => [o EXCEPT !.n = k] = Retain(k)
           /\ o.op = "delete" => [o EXCEPT !.n = k] = Delete(k)
           /\ o.op \in {"retain", "delete"} /\ Size(o) = o.n
<1>1. o.op \in {"retain", "insert", "delete"} /\ o = [op |-> o.op, n |-> o.n, chars |-> o.chars]
      /\ o.chars = <<>>
  BY PlainOps, OpFields DEF Plain
<1>2. [o EXCEPT !.n = k] = [op |-> o.op, n |-> k, chars |-> <<>>]
  BY <1>1
<1>3. Retain(k) \in Plain /\ Delete(k) \in Plain
  BY PlainOps
<1>. QED
  BY <1>1, <1>2, <1>3 DEF Retain, Delete, Size

\* A loop both of whose cursors are moved.
LEMMA BothMoved ==
    ASSUME NEW s \in Loop, NEW x, NEW y
    PROVE  [s EXCEPT !.a = x, !.b = y] = [a |-> x, b |-> y, ops |-> s.ops, new_len |-> s.new_len]
<1> DEFINE e == [s EXCEPT !.a = x]
<1>1. s = [a |-> s.a, b |-> s.b, ops |-> s.ops, new_len |-> s.new_len]
  BY LoopFields
<1>2. e = [a |-> x, b |-> s.b, ops |-> s.ops, new_len |-> s.new_len]
  BY <1>1
<1> HIDE DEF e
<1>3. [e EXCEPT !.b = y] = [a |-> x, b |-> y, ops |-> s.ops, new_len |-> s.new_len]
  BY <1>2
<1>. QED
  BY <1>3 DEF e

\* follow: a turn of the browser's loop is one of Follow, and it ends where that does.
LEMMA TurnMirrors ==
    ASSUME NEW s \in Loop
    PROVE  /\ Followed(s) <=> FollowDone(AsCursors(s))
           /\ ~Followed(s) => Mirrors(s, Turn(s), FollowStep(AsCursors(s)))
<1> DEFINE r == AsCursors(s)
<1>1. /\ s.a \in Slices /\ s.b \in Slices /\ s.ops \in Seq(Plain) /\ s.new_len \in Nat
      /\ s = [a |-> s.a, b |-> s.b, ops |-> s.ops, new_len |-> s.new_len]
      /\ r \in Cursors /\ r.a = Left(s.a) /\ r.b = Left(s.b) /\ r.out = s.ops
  BY LoopFields
<1> HIDE DEF r
<1>2. /\ Is(s.a, "insert") <=> At(r.a, "insert")
      /\ Is(s.b, "insert") <=> At(r.b, "insert")
      /\ Ended(s.a) <=> r.a = <<>>
      /\ Ended(s.b) <=> r.b = <<>>
      /\ ~Ended(s.a) => Head(r.a) = peek(s.a)
      /\ ~Ended(s.b) => Head(r.b) = peek(s.b)
  BY <1>1, LeftIs
<1>3. Followed(s) <=> FollowDone(r)
  BY <1>2 DEF Followed, FollowDone
<1> DEFINE a == peek(s.a)
           b == peek(s.b)
           aInserts == Is(s.a, "insert") /\ (Is(s.b, "insert") => GoesFirst(a.chars, b.chars))
           bInserts == Is(s.b, "insert") /\ (Is(s.a, "insert") => ~GoesFirst(a.chars, b.chars))
<1>4. Turn(s) = CASE aInserts -> Emit([s EXCEPT !.a = consume(@, Len(a.chars))], Retain(Len(a.chars)))
                  [] bInserts -> Emit([s EXCEPT !.b = consume(@, Len(b.chars))], Insert(b.chars))
                  [] ~aInserts /\ ~bInserts -> Both(s)
  BY DEF Turn
<1>5. aInserts <=> At(r.a, "insert") /\ (At(r.b, "insert") => InsertsFirst(Head(r.a), Head(r.b)))
  BY <1>2 DEF GoesFirst, InsertsFirst, Is
<1>6. bInserts <=> At(r.b, "insert") /\ ~(At(r.a, "insert") /\ InsertsFirst(Head(r.a), Head(r.b)))
  BY <1>2 DEF GoesFirst, InsertsFirst, Is
<1>7. CASE aInserts
  <2> DEFINE k == Len(a.chars)
             x == consume(s.a, k)
             u == [s EXCEPT !.a = x]
  <2>1. ~Ended(s.a) /\ a \in Plain /\ a.op = "insert" /\ k = Size(a) /\ k \in Nat \ {0}
    BY <1>1, <1>7, PeekIs DEF Is, Size
  <2>2. x \in Slices /\ Left(x) = Tail(r.a)
    BY <1>1, <2>1, WholeLeft
  <2>3. u = [a |-> x, b |-> s.b, ops |-> s.ops, new_len |-> s.new_len]
    BY <1>1
  <2>4. Retain(k) \in Plain
    BY <2>1, PlainOps
  <2>5. Turn(s) = Emit(u, Retain(k))
    BY <1>4, <1>7
  <2>6. FollowStep(r) = [a |-> Tail(r.a), b |-> r.b, out |-> AddOp(r.out, Retain(k))]
    <3>1. Head(r.a).chars = a.chars
      BY <1>2, <2>1
    <3> HIDE DEF aInserts, a
    <3>. QED
      BY <1>1, <1>5, <1>7, <3>1, FollowStepIs
  <2> HIDE DEF x, u, k
  <2>7. Mirrors(s, Emit(u, Retain(k)), [a |-> Left(x), b |-> Left(s.b), out |-> AddOp(s.ops, Retain(k))])
    BY <1>1, <2>2, <2>3, <2>4, Moved
  <2>. QED
    BY <1>1, <1>3, <2>2, <2>5, <2>6, <2>7 DEF r
<1>8. CASE bInserts
  <2> DEFINE k == Len(b.chars)
             y == consume(s.b, k)
             u == [s EXCEPT !.b = y]
             o == Insert(b.chars)
  <2>1. ~Ended(s.b) /\ b \in Plain /\ b.op = "insert" /\ k = Size(b)
    BY <1>1, <1>8, PeekIs DEF Is, Size
  <2>2. y \in Slices /\ Left(y) = Tail(r.b)
    BY <1>1, <2>1, WholeLeft
  <2>3. u = [a |-> s.a, b |-> y, ops |-> s.ops, new_len |-> s.new_len]
    BY <1>1
  <2>4. o \in Plain
    BY <2>1, PlainOps
  <2>5. Turn(s) = Emit(u, o)
    <3>1. ~aInserts
      BY <1>5, <1>6, <1>8
    <3>. QED
      BY <1>4, <1>8, <3>1
  <2>6. FollowStep(r) = [a |-> r.a, b |-> Tail(r.b), out |-> AddOp(r.out, o)]
    <3>1. Head(r.b).chars = b.chars
      BY <1>2, <2>1
    <3> HIDE DEF bInserts, b
    <3>. QED
      BY <1>1, <1>6, <1>8, <3>1, FollowStepIs
  <2> HIDE DEF y, u, k, o
  <2>7. Mirrors(s, Emit(u, o), [a |-> Left(s.a), b |-> Left(y), out |-> AddOp(s.ops, o)])
    BY <1>1, <2>2, <2>3, <2>4, Moved
  <2>. QED
    BY <1>1, <1>3, <2>2, <2>5, <2>6, <2>7 DEF r
<1>9. CASE ~aInserts /\ ~bInserts /\ ~Followed(s)
  <2> DEFINE n == Min({a.n, b.n})
             x == consume(s.a, n)
             y == consume(s.b, n)
             u == [s EXCEPT !.a = x, !.b = y]
             o == [b EXCEPT !.n = n]
  <2>1. ~At(r.a, "insert") /\ ~At(r.b, "insert") /\ r.a # <<>> /\ r.b # <<>>
    BY <1>2, <1>3, <1>5, <1>6, <1>9 DEF FollowDone
  <2>2. /\ ~Ended(s.a) /\ ~Ended(s.b) /\ a \in Plain /\ b \in Plain /\ a.op # "insert" /\ b.op # "insert"
        /\ Head(r.a) = a /\ Head(r.b) = b
    <3>1. ~Ended(s.a) /\ ~Ended(s.b)
      BY <1>2, <2>1
    <3>2. Head(r.a) = a /\ Head(r.b) = b
      BY <1>2, <3>1
    <3>. QED
      BY <1>1, <2>1, <3>1, <3>2, PeekIs DEF At
  <2>3. a.n = Size(a) /\ b.n = Size(b)
    BY <2>2 DEF Size
  <2>4. /\ n \in Nat \ {0} /\ n = Shorter(a, b)
        /\ x \in Slices /\ Left(x) = Consume(r.a, n)
        /\ y \in Slices /\ Left(y) = Consume(r.b, n)
    BY <1>1, <2>2, <2>3, BothLeft
  <2>5. u = [a |-> x, b |-> y, ops |-> s.ops, new_len |-> s.new_len]
    <3> HIDE DEF x, y
    <3>. QED
      BY BothMoved
  <2>6. o \in Plain /\ (b.op = "retain" => o = Retain(n)) /\ (b.op = "delete" => o = Delete(n))
        /\ a.op \in {"retain", "delete"} /\ b.op \in {"retain", "delete"}
    <3> HIDE DEF n
    <3>. QED
      BY <2>2, <2>4, CutIs
  <2>7. Turn(s) = IF a.op = "retain" THEN Emit(u, o) ELSE u
    <3>1. Turn(s) = Both(s)
      BY <1>4, <1>9
    <3>. QED
      BY <3>1 DEF Both
  <2>8. FollowStep(r) = [a |-> Consume(r.a, n), b |-> Consume(r.b, n), out |-> FollowSource(a, b, n, r.out)]
    <3> HIDE DEF a, b, n
    <3>. QED
      BY <1>1, <2>1, <2>2, <2>4, FollowStepIs
  <2>9. FollowSource(a, b, n, r.out) = IF a.op = "retain" THEN AddOp(s.ops, o) ELSE s.ops
    <3> HIDE DEF a, b, n, o
    <3>. QED
      BY <1>1, <2>6 DEF FollowSource
  <2> HIDE DEF a, b, n, x, y, u, o
  <2>10. /\ Mirrors(s, u, [a |-> Left(x), b |-> Left(y), out |-> s.ops])
         /\ Mirrors(s, Emit(u, o), [a |-> Left(x), b |-> Left(y), out |-> AddOp(s.ops, o)])
    BY <2>4, <2>5, <2>6, Moved
  <2>. QED
    BY <1>3, <2>4, <2>7, <2>8, <2>9, <2>10 DEF r
<1>. QED
  BY <1>3, <1>7, <1>8, <1>9 DEF r

\* compose: a turn of the browser's loop is one of Compose, and it ends where that does.
LEMMA ComposeMirrors ==
    ASSUME NEW s \in Loop
    PROVE  /\ WasComposed(s) <=> ComposeDone(AsCursors(s))
           /\ ~WasComposed(s) => Mirrors(s, ComposeTurn(s), ComposeStep(AsCursors(s)))
<1> DEFINE r == AsCursors(s)
<1>1. /\ s.a \in Slices /\ s.b \in Slices /\ s.ops \in Seq(Plain) /\ s.new_len \in Nat
      /\ s = [a |-> s.a, b |-> s.b, ops |-> s.ops, new_len |-> s.new_len]
      /\ r \in Cursors /\ r.a = Left(s.a) /\ r.b = Left(s.b) /\ r.out = s.ops
  BY LoopFields
<1> HIDE DEF r
<1>2. /\ Is(s.b, "insert") <=> At(r.b, "insert")
      /\ Is(s.a, "delete") <=> At(r.a, "delete")
      /\ Ended(s.a) <=> r.a = <<>>
      /\ Ended(s.b) <=> r.b = <<>>
      /\ ~Ended(s.a) => Head(r.a) = peek(s.a)
      /\ ~Ended(s.b) => Head(r.b) = peek(s.b)
  BY <1>1, LeftIs
<1>3. WasComposed(s) <=> ComposeDone(r)
  BY <1>2 DEF WasComposed, ComposeDone
<1> DEFINE a == peek(s.a)
           b == peek(s.b)
<1>4. CASE Is(s.b, "insert")
  <2> DEFINE k == Len(b.chars)
             y == consume(s.b, k)
             u == [s EXCEPT !.b = y]
  <2>1. ~Ended(s.b) /\ b \in Plain /\ b.op = "insert" /\ k = Size(b)
    BY <1>1, <1>4, PeekIs DEF Is, Size
  <2>2. y \in Slices /\ Left(y) = Tail(r.b)
    BY <1>1, <2>1, WholeLeft
  <2>3. u = [a |-> s.a, b |-> y, ops |-> s.ops, new_len |-> s.new_len]
    BY <1>1
  <2>4. ComposeTurn(s) = Emit(u, b)
    BY <1>4 DEF ComposeTurn
  <2>5. ComposeStep(r) = [a |-> r.a, b |-> Tail(r.b), out |-> AddOp(r.out, b)]
    <3>1. Head(r.b) = b
      BY <1>2, <2>1
    <3> HIDE DEF b
    <3>. QED
      BY <1>1, <1>2, <1>4, <3>1, ComposeStepIs
  <2> HIDE DEF y, u, k, b
  <2>6. Mirrors(s, Emit(u, b), [a |-> Left(s.a), b |-> Left(y), out |-> AddOp(s.ops, b)])
    BY <1>1, <2>1, <2>2, <2>3, Moved
  <2>. QED
    BY <1>1, <1>3, <2>2, <2>4, <2>5, <2>6 DEF r
<1>5. CASE ~Is(s.b, "insert") /\ Is(s.a, "delete")
  <2> DEFINE x == consume(s.a, a.n)
             u == [s EXCEPT !.a = x]
  <2>1. ~Ended(s.a) /\ a \in Plain /\ a.op = "delete" /\ a.n = Size(a)
    BY <1>1, <1>5, PeekIs DEF Is, Size
  <2>2. x \in Slices /\ Left(x) = Tail(r.a)
    BY <1>1, <2>1, WholeLeft
  <2>3. u = [a |-> x, b |-> s.b, ops |-> s.ops, new_len |-> s.new_len]
    BY <1>1
  <2>4. ComposeTurn(s) = Emit(u, a)
    BY <1>5 DEF ComposeTurn
  <2>5. ComposeStep(r) = [a |-> Tail(r.a), b |-> r.b, out |-> AddOp(r.out, a)]
    <3>1. Head(r.a) = a
      BY <1>2, <2>1
    <3> HIDE DEF a
    <3>. QED
      BY <1>1, <1>2, <1>5, <3>1, ComposeStepIs
  <2> HIDE DEF x, u, a
  <2>6. Mirrors(s, Emit(u, a), [a |-> Left(x), b |-> Left(s.b), out |-> AddOp(s.ops, a)])
    BY <1>1, <2>1, <2>2, <2>3, Moved
  <2>. QED
    BY <1>1, <1>3, <2>2, <2>4, <2>5, <2>6 DEF r
<1>6. CASE ~Is(s.b, "insert") /\ ~Is(s.a, "delete") /\ ~WasComposed(s)
  <2> DEFINE n == Min({Size(a), b.n})
             x == consume(s.a, n)
             y == consume(s.b, n)
             u == [s EXCEPT !.a = x, !.b = y]
             o == [b EXCEPT !.n = n]
             c == Insert(SubSeq(a.chars, 1, n))
  <2>1. ~At(r.b, "insert") /\ ~At(r.a, "delete") /\ r.a # <<>> /\ r.b # <<>>
    BY <1>2, <1>3, <1>6 DEF ComposeDone
  <2>2. /\ ~Ended(s.a) /\ ~Ended(s.b) /\ a \in Plain /\ b \in Plain /\ a.op # "delete" /\ b.op # "insert"
        /\ Head(r.a) = a /\ Head(r.b) = b
    <3>1. ~Ended(s.a) /\ ~Ended(s.b)
      BY <1>2, <2>1
    <3>2. Head(r.a) = a /\ Head(r.b) = b
      BY <1>2, <3>1
    <3>. QED
      BY <1>1, <2>1, <3>1, <3>2, PeekIs DEF At
  <2>3. b.n = Size(b)
    BY <2>2 DEF Size
  <2>4. /\ n \in Nat \ {0} /\ n = Shorter(a, b) /\ n <= Size(a)
        /\ x \in Slices /\ Left(x) = Consume(r.a, n)
        /\ y \in Slices /\ Left(y) = Consume(r.b, n)
    BY <1>1, <2>2, <2>3, BothLeft
  <2>5. u = [a |-> x, b |-> y, ops |-> s.ops, new_len |-> s.new_len]
    <3> HIDE DEF x, y
    <3>. QED
      BY BothMoved
  <2>6. o \in Plain /\ (b.op = "retain" => o = Retain(n)) /\ (b.op = "delete" => o = Delete(n))
        /\ a.op \in {"retain", "insert"} /\ b.op \in {"retain", "delete"}
    <3>1. a.op \in {"retain", "insert", "delete"}
      BY <2>2, PlainOps, OpFields
    <3> HIDE DEF n
    <3>. QED
      BY <2>2, <2>4, <3>1, CutIs
  <2>7. a.op = "insert" => c \in Plain
    <3>1. ASSUME a.op = "insert" PROVE SubSeq(a.chars, 1, n) \in Text \ {<<>>}
      <4> DEFINE w == a.chars
      <4>1. w \in Seq(Nat) /\ n \in 1..Len(w)
        <5>1. Size(a) = Len(w) /\ w \in Seq(Nat)
          BY <2>2, <3>1, PlainOps, OpFields DEF Size
        <5> HIDE DEF n, a
        <5>. QED
          BY <2>4, <5>1
      <4> HIDE DEF w, n
      <4>2. SubSeq(w, 1, n) \in Seq(Nat) /\ Len(SubSeq(w, 1, n)) = n
        BY <4>1
      <4>. QED
        BY <4>1, <4>2 DEF Text, w
    <3>. QED
      BY <3>1, PlainOps
  <2>8. ComposeTurn(s) = CASE a.op = "retain" -> Emit(u, o)
                           [] a.op = "insert" /\ b.op = "retain" -> Emit(u, c)
                           [] a.op = "insert" /\ b.op = "delete" -> u
    <3>1. ComposeTurn(s) = Through(s)
      BY <1>6 DEF ComposeTurn
    <3>. QED
      BY <3>1 DEF Through
  <2>9. ComposeStep(r) = [a |-> Consume(r.a, n), b |-> Consume(r.b, n), out |-> ComposeOutput(a, b, n, r.out)]
    <3> HIDE DEF a, b, n
    <3>. QED
      BY <1>1, <2>1, <2>2, <2>4, ComposeStepIs
  <2>10. ComposeOutput(a, b, n, r.out) = CASE a.op = "retain" -> AddOp(s.ops, o)
                                           [] a.op = "insert" /\ b.op = "retain" -> AddOp(s.ops, c)
                                           [] a.op = "insert" /\ b.op = "delete" -> s.ops
    <3> HIDE DEF a, b, n, o
    <3>. QED
      BY <1>1, <2>6 DEF ComposeOutput
  <2> HIDE DEF a, b, n, x, y, u, o, c
  <2>11. /\ Mirrors(s, u, [a |-> Left(x), b |-> Left(y), out |-> s.ops])
         /\ Mirrors(s, Emit(u, o), [a |-> Left(x), b |-> Left(y), out |-> AddOp(s.ops, o)])
         /\ a.op = "insert" => Mirrors(s, Emit(u, c), [a |-> Left(x), b |-> Left(y), out |-> AddOp(s.ops, c)])
    BY <2>4, <2>5, <2>6, <2>7, Moved
  <2>12. CASE a.op = "retain"
    BY <1>3, <2>4, <2>8, <2>9, <2>10, <2>11, <2>12 DEF r
  <2>13. CASE a.op = "insert" /\ b.op = "retain"
    BY <1>3, <2>4, <2>8, <2>9, <2>10, <2>11, <2>13 DEF r
  <2>14. CASE a.op = "insert" /\ b.op = "delete"
    BY <1>3, <2>4, <2>8, <2>9, <2>10, <2>11, <2>14 DEF r
  <2>. QED
    BY <2>6, <2>12, <2>13, <2>14
<1>. QED
  BY <1>3, <1>4, <1>5, <1>6 DEF r

\* Two loops side by side: f that of internal/ot, g that of the browser.  If they take the
\* same turns, they end with the same list, and its length is counted.
SideBySideLoops(f, fdone, fstep, g, gdone, gstep, mu) ==
    /\ mu \in [Loop -> Nat]
    /\ \A r \in Cursors : f[r] = IF r \in fdone THEN r.out ELSE f[fstep[r]]
    /\ \A s \in Loop : g[s] = IF s \in gdone THEN s ELSE g[gstep[s]]
    /\ \A s \in Loop : s \in gdone <=> AsCursors(s) \in fdone
    /\ \A s \in Loop : s \notin gdone => /\ Mirrors(s, gstep[s], fstep[AsCursors(s)])
                                        /\ mu[gstep[s]] < mu[s]

LEMMA SameLoops ==
    ASSUME NEW f, NEW fdone, NEW fstep, NEW g, NEW gdone, NEW gstep, NEW mu,
           SideBySideLoops(f, fdone, fstep, g, gdone, gstep, mu)
    PROVE  \A s \in Loop : /\ g[s].ops = f[AsCursors(s)]
                           /\ s.new_len = Produced(s.ops) => g[s].new_len = Produced(g[s].ops)
<1> DEFINE T == {s \in Loop : /\ g[s].ops = f[AsCursors(s)]
                              /\ s.new_len = Produced(s.ops) => g[s].new_len = Produced(g[s].ops)}
<1>0. /\ mu \in [Loop -> Nat]
      /\ \A r \in Cursors : f[r] = IF r \in fdone THEN r.out ELSE f[fstep[r]]
      /\ \A s \in Loop : g[s] = IF s \in gdone THEN s ELSE g[gstep[s]]
      /\ \A s \in Loop : s \in gdone <=> AsCursors(s) \in fdone
      /\ \A s \in Loop : s \notin gdone => /\ Mirrors(s, gstep[s], fstep[AsCursors(s)])
                                          /\ mu[gstep[s]] < mu[s]
  BY DEF SideBySideLoops
<1>1. ASSUME NEW s \in Loop, \A x \in Loop : mu[x] < mu[s] => x \in T
      PROVE  s \in T
  <2>1. AsCursors(s) \in Cursors /\ AsCursors(s).out = s.ops
    BY LoopFields
  <2>2. CASE s \in gdone
    <3>1. g[s] = s
      BY <1>0, <2>2
    <3>2. f[AsCursors(s)] = s.ops
      BY <1>0, <2>1, <2>2
    <3>. QED
      BY <3>1, <3>2
  <2>3. CASE s \notin gdone
    <3> DEFINE u == gstep[s]
    <3>1. Mirrors(s, u, fstep[AsCursors(s)]) /\ mu[u] < mu[s]
      BY <1>0, <2>3
    <3>2. u \in Loop /\ AsCursors(u) = fstep[AsCursors(s)]
          /\ (s.new_len = Produced(s.ops) => u.new_len = Produced(u.ops))
      BY <3>1 DEF Mirrors
    <3>3. g[s] = g[u]
      BY <1>0, <2>3
    <3>4. f[AsCursors(s)] = f[AsCursors(u)]
      BY <1>0, <2>1, <2>3, <3>2
    <3>5. u \in T
      BY <1>1, <3>1, <3>2
    <3> HIDE DEF u
    <3>. QED
      BY <3>2, <3>3, <3>4, <3>5
  <2>. QED
    BY <2>2, <2>3
<1> HIDE DEF T
<1>2. \A s \in Loop : s \in T
  BY <1>0, <1>1, MeasureInduction
<1>. QED
  BY <1>2 DEF T

\* What a loop has left to read.
ToRead == [s \in Loop |-> Len(Left(s.a)) + Len(Left(s.b))]

LEMMA ToReadIs ==
    /\ ToRead \in [Loop -> Nat]
    /\ \A s \in Loop : ToRead[s] = Len(AsCursors(s).a) + Len(AsCursors(s).b)
<1>1. ASSUME NEW s \in Loop
      PROVE  /\ Len(Left(s.a)) + Len(Left(s.b)) \in Nat
             /\ Len(Left(s.a)) + Len(Left(s.b)) = Len(AsCursors(s).a) + Len(AsCursors(s).b)
  <2>1. Left(s.a) \in Seq(Op) /\ Left(s.b) \in Seq(Op)
    BY LoopFields, LeftIs
  <2>2. Len(Left(s.a)) \in Nat /\ Len(Left(s.b)) \in Nat
    BY <2>1, LenProperties
  <2>3. AsCursors(s).a = Left(s.a) /\ AsCursors(s).b = Left(s.b)
    BY LoopFields
  <2> DEFINE m == Len(Left(s.a))
             n == Len(Left(s.b))
  <2>4. m \in Nat /\ n \in Nat
    BY <2>2
  <2>5. m + n \in Nat
    <3> HIDE DEF m, n
    <3>. QED
      BY <2>4
  <2>. QED
    BY <2>3, <2>5
<1>. QED
  BY <1>1 DEF ToRead

\* A loop of the browser whose turns are those of a loop of internal/ot ends.
LEMMA LoopEnds ==
    ASSUME NEW done, NEW step \in [Loop -> Loop], NEW g,
           \A s \in Loop : s \notin done => ToRead[step[s]] < ToRead[s],
           g = CHOOSE h : h = [s \in Loop |-> IF s \in done THEN s ELSE h[step[s]]]
    PROVE  \A s \in Loop : g[s] = IF s \in done THEN s ELSE g[step[s]]
<1> DEFINE id == [s \in Loop |-> s]
<1>1. PICK h : IsLoop(h, Loop, Loop, done, id, step)
  <2>1. id \in [Loop -> Loop] /\ ToRead \in [Loop -> Nat]
    BY ToReadIs
  <2>2. Loop # {}
    <3> DEFINE t == makeSlice(<<>>)
    <3>1. <<>> \in Seq(Plain) /\ t \in Slices
      BY EmptySeq, MakeSliceIs
    <3> HIDE DEF t
    <3>2. [a |-> t, b |-> t, ops |-> <<>>, new_len |-> 0] \in Loop
      BY <3>1 DEF Loop
    <3>. QED
      BY <3>2
  <2> HIDE DEF id
  <2>. QED
    BY <2>1, <2>2, LoopRecursion
<1>2. h = [s \in Loop |-> IF s \in done THEN s ELSE h[step[s]]]
  <2>1. h \in [Loop -> Loop] /\ \A s \in Loop : h[s] = IF s \in done THEN s ELSE h[step[s]]
    BY <1>1 DEF IsLoop
  <2>. QED
    BY <2>1
<1>3. g = [s \in Loop |-> IF s \in done THEN s ELSE g[step[s]]]
  BY <1>2
<1>. QED
  BY <1>3

\* The loops of the browser end, on every pair of cursors.
LEMMA FollowingIs ==
    \A s \in Loop :
       /\ following[s].ops = FollowLoop[AsCursors(s)]
       /\ s.new_len = Produced(s.ops) => following[s].new_len = Produced(following[s].ops)
<1> DEFINE done == {s \in Loop : Followed(s)}
           step == [s \in Loop |-> IF Followed(s) THEN s ELSE Turn(s)]
           fdone == {r \in Cursors : FollowDone(r)}
           fstep == [r \in Cursors |-> FollowStep(r)]
<1>1. ASSUME NEW s \in Loop, ~Followed(s)
      PROVE  /\ Turn(s) \in Loop
             /\ Mirrors(s, Turn(s), FollowStep(AsCursors(s)))
             /\ ToRead[Turn(s)] < ToRead[s]
  <2>1. Mirrors(s, Turn(s), FollowStep(AsCursors(s))) /\ ~FollowDone(AsCursors(s))
    BY <1>1, TurnMirrors
  <2>2. Turn(s) \in Loop /\ AsCursors(Turn(s)) = FollowStep(AsCursors(s))
    BY <2>1 DEF Mirrors
  <2> DEFINE r == AsCursors(s)
             t == AsCursors(Turn(s))
  <2>3. Len(t.a) + Len(t.b) < Len(r.a) + Len(r.b)
    BY <2>1, <2>2, LoopFields, FollowProgress
  <2>. QED
    BY <2>1, <2>2, <2>3, ToReadIs
<1>2. step \in [Loop -> Loop]
  BY <1>1
<1>3. \A s \in Loop : s \notin done => ToRead[step[s]] < ToRead[s]
  BY <1>1
<1>4. following = CHOOSE h : h = [s \in Loop |-> IF s \in done THEN s ELSE h[step[s]]]
  <2>1. \A h : [s \in Loop |-> IF Followed(s) THEN s ELSE h[Turn(s)]]
                  = [s \in Loop |-> IF s \in done THEN s ELSE h[step[s]]]
    OBVIOUS
  <2>2. following = CHOOSE h : h = [s \in Loop |-> IF Followed(s) THEN s ELSE h[Turn(s)]]
    BY DEF following
  <2> HIDE DEF done, step
  <2>. QED
    BY <2>1, <2>2
<1>5. \A s \in Loop : following[s] = IF s \in done THEN s ELSE following[step[s]]
  <2> DEFINE g == following
  <2>1. g = CHOOSE h : h = [s \in Loop |-> IF s \in done THEN s ELSE h[step[s]]]
    BY <1>4
  <2> HIDE DEF done, step, g
  <2>2. \A s \in Loop : g[s] = IF s \in done THEN s ELSE g[step[s]]
    BY <1>2, <1>3, <2>1, LoopEnds
  <2>. QED
    BY <2>2 DEF g
<1>6. \A r \in Cursors : FollowLoop[r] = IF r \in fdone THEN r.out ELSE FollowLoop[fstep[r]]
  BY FollowLoopIs
<1>7. \A s \in Loop : s \in done <=> AsCursors(s) \in fdone
  BY TurnMirrors, LoopFields
<1>8. \A s \in Loop : s \notin done => /\ Mirrors(s, step[s], fstep[AsCursors(s)])
                                       /\ ToRead[step[s]] < ToRead[s]
  BY <1>1, LoopFields
<1> DEFINE f == FollowLoop
           g == following
<1> HIDE DEF done, step, fdone, fstep, f, g
<1>9. ToRead \in [Loop -> Nat]
  BY ToReadIs
<1>10. \A r \in Cursors : f[r] = IF r \in fdone THEN r.out ELSE f[fstep[r]]
  BY <1>6 DEF f
<1>11. \A s \in Loop : g[s] = IF s \in done THEN s ELSE g[step[s]]
  BY <1>5 DEF g
<1>12. \A s \in Loop : /\ g[s].ops = f[AsCursors(s)]
                       /\ s.new_len = Produced(s.ops) => g[s].new_len = Produced(g[s].ops)
  <2>1. SideBySideLoops(f, fdone, fstep, g, done, step, ToRead)
    BY <1>7, <1>8, <1>9, <1>10, <1>11, Zenon DEF SideBySideLoops
  <2>. QED
    BY <2>1, SameLoops
<1>. QED
  BY <1>12 DEF f, g

LEMMA ComposingIs == \A s \in Loop : composing[s].ops = ComposeLoop[AsCursors(s)]
<1> DEFINE done == {s \in Loop : WasComposed(s)}
           step == [s \in Loop |-> IF WasComposed(s) THEN s ELSE ComposeTurn(s)]
           fdone == {r \in Cursors : ComposeDone(r)}
           fstep == [r \in Cursors |-> ComposeStep(r)]
<1>1. ASSUME NEW s \in Loop, ~WasComposed(s)
      PROVE  /\ ComposeTurn(s) \in Loop
             /\ Mirrors(s, ComposeTurn(s), ComposeStep(AsCursors(s)))
             /\ ToRead[ComposeTurn(s)] < ToRead[s]
  <2>1. Mirrors(s, ComposeTurn(s), ComposeStep(AsCursors(s))) /\ ~ComposeDone(AsCursors(s))
    BY <1>1, ComposeMirrors
  <2>2. ComposeTurn(s) \in Loop /\ AsCursors(ComposeTurn(s)) = ComposeStep(AsCursors(s))
    BY <2>1 DEF Mirrors
  <2> DEFINE r == AsCursors(s)
             t == AsCursors(ComposeTurn(s))
  <2>3. Len(t.a) + Len(t.b) < Len(r.a) + Len(r.b)
    BY <2>1, <2>2, LoopFields, ComposeProgress
  <2>. QED
    BY <2>1, <2>2, <2>3, ToReadIs
<1>2. step \in [Loop -> Loop]
  BY <1>1
<1>3. \A s \in Loop : s \notin done => ToRead[step[s]] < ToRead[s]
  BY <1>1
<1>4. composing = CHOOSE h : h = [s \in Loop |-> IF s \in done THEN s ELSE h[step[s]]]
  <2>1. \A h : [s \in Loop |-> IF WasComposed(s) THEN s ELSE h[ComposeTurn(s)]]
                  = [s \in Loop |-> IF s \in done THEN s ELSE h[step[s]]]
    OBVIOUS
  <2>2. composing = CHOOSE h : h = [s \in Loop |-> IF WasComposed(s) THEN s ELSE h[ComposeTurn(s)]]
    BY DEF composing
  <2> HIDE DEF done, step
  <2>. QED
    BY <2>1, <2>2
<1>5. \A s \in Loop : composing[s] = IF s \in done THEN s ELSE composing[step[s]]
  <2> DEFINE g == composing
  <2>1. g = CHOOSE h : h = [s \in Loop |-> IF s \in done THEN s ELSE h[step[s]]]
    BY <1>4
  <2> HIDE DEF done, step, g
  <2>2. \A s \in Loop : g[s] = IF s \in done THEN s ELSE g[step[s]]
    BY <1>2, <1>3, <2>1, LoopEnds
  <2>. QED
    BY <2>2 DEF g
<1>6. \A r \in Cursors : ComposeLoop[r] = IF r \in fdone THEN r.out ELSE ComposeLoop[fstep[r]]
  BY ComposeLoopIs
<1>7. \A s \in Loop : s \in done <=> AsCursors(s) \in fdone
  BY ComposeMirrors, LoopFields
<1>8. \A s \in Loop : s \notin done => /\ Mirrors(s, step[s], fstep[AsCursors(s)])
                                       /\ ToRead[step[s]] < ToRead[s]
  BY <1>1, LoopFields
<1> DEFINE f == ComposeLoop
           g == composing
<1> HIDE DEF done, step, fdone, fstep, f, g
<1>9. ToRead \in [Loop -> Nat]
  BY ToReadIs
<1>10. \A r \in Cursors : f[r] = IF r \in fdone THEN r.out ELSE f[fstep[r]]
  BY <1>6 DEF f
<1>11. \A s \in Loop : g[s] = IF s \in done THEN s ELSE g[step[s]]
  BY <1>5 DEF g
<1>12. \A s \in Loop : g[s].ops = f[AsCursors(s)]
  <2>1. SideBySideLoops(f, fdone, fstep, g, done, step, ToRead)
    BY <1>7, <1>8, <1>9, <1>10, <1>11, Zenon DEF SideBySideLoops
  <2>. QED
    BY <2>1, SameLoops
<1>. QED
  BY <1>12 DEF f, g

\* follow (client.js) returns the changeset that Follow (follow.go) returns, and compose
\* that of Compose, whatever plain operations the changesets have.
THEOREM BrowserFollowsAlike ==
    ASSUME NEW A, NEW B, A.ops \in Seq(Plain), B.ops \in Seq(Plain)
    PROVE  follow(A, B) = Follow(A, B) /\ compose(A, B) = Compose(A, B)
<1> DEFINE s == AtStart(A, B)
           r == [a |-> A.ops, b |-> B.ops, out |-> <<>>]
<1>1. s \in Loop /\ AsCursors(s) = r /\ s.new_len = 0 /\ s.ops = <<>>
  <2> DEFINE x == makeSlice(A.ops)
             y == makeSlice(B.ops)
  <2>1. x \in Slices /\ Left(x) = A.ops /\ y \in Slices /\ Left(y) = B.ops
    BY MakeSliceIs
  <2>2. s = [a |-> x, b |-> y, ops |-> <<>>, new_len |-> 0] /\ <<>> \in Seq(Plain)
    BY EmptySeq DEF AtStart
  <2> HIDE DEF x, y, s
  <2>. QED
    BY <2>1, <2>2 DEF Loop, AsCursors
<1>2. Produced(<<>>) = 0
  BY ProducedIs
<1> HIDE DEF s
<1>3. /\ following[s].ops = FollowLoop[r] /\ following[s].new_len = Produced(following[s].ops)
      /\ composing[s].ops = ComposeLoop[r]
  BY <1>1, <1>2, FollowingIs, ComposingIs
<1>. QED
  BY <1>3 DEF follow, Follow, compose, Compose, s

-------------------------------------------------------------------------------
(* diffToChangeset of the browser.                                         *)

\* The larger of two numbers.
LEMMA MaxIs ==
    ASSUME NEW x \in Nat, NEW y \in Nat
    PROVE  Max({x, y}) = IF x > y THEN x ELSE y
<1>1. \E m \in {x, y} : \A n \in {x, y} : m >= n
  OBVIOUS
<1>2. Max({x, y}) \in {x, y} /\ Max({x, y}) >= x /\ Max({x, y}) >= y
  BY <1>1 DEF Max
<1>. QED
  BY <1>2

\* The table of the browser is that of diff.go.
LEMMA TableSame ==
    ASSUME NEW old \in Text, NEW new \in Text
    PROVE  Table(old, new) = LCS(old, new)
<1> DEFINE S == Cells(old, new)
           at(f, i, j) == CASE i = 0 \/ j = 0 -> 0
                            [] i > 0 /\ j > 0 /\ old[i] = new[j] -> f[<<i - 1, j - 1>>] + 1
                            [] OTHER -> Max({f[<<i - 1, j>>], f[<<i, j - 1>>]})
           next(f, c) == at(f, c[1], c[2])
           dp == CHOOSE f : f = [c \in S |-> next(f, c)]
           g == LCS(old, new)
<1>1. ASSUME NEW f, NEW i \in 0..Len(old), NEW j \in 0..Len(new),
             i > 0 => f[<<i - 1, j>>] \in Nat,
             j > 0 => f[<<i, j - 1>>] \in Nat
      PROVE  /\ i = 0 \/ j = 0 => at(f, i, j) = 0
             /\ i > 0 /\ j > 0 /\ old[i] = new[j] => at(f, i, j) = f[<<i - 1, j - 1>>] + 1
             /\ i > 0 /\ j > 0 /\ old[i] # new[j] =>
                   at(f, i, j) = IF f[<<i - 1, j>>] > f[<<i, j - 1>>]
                                 THEN f[<<i - 1, j>>] ELSE f[<<i, j - 1>>]
  <2>1. i \in Nat /\ j \in Nat
    BY CellsAre
  <2>2. i > 0 /\ j > 0 => Max({f[<<i - 1, j>>], f[<<i, j - 1>>]})
                              = IF f[<<i - 1, j>>] > f[<<i, j - 1>>]
                                THEN f[<<i - 1, j>>] ELSE f[<<i, j - 1>>]
    BY <1>1, MaxIs
  <2>3. i = 0 \/ j = 0 => at(f, i, j) = 0
    OBVIOUS
  <2>4. i > 0 /\ j > 0 /\ old[i] = new[j] => at(f, i, j) = f[<<i - 1, j - 1>>] + 1
    BY <2>1
  <2>5. i > 0 /\ j > 0 /\ old[i] # new[j] => at(f, i, j) = Max({f[<<i - 1, j>>], f[<<i, j - 1>>]})
    BY <2>1
  <2> HIDE DEF at
  <2>. QED
    BY <2>2, <2>3, <2>4, <2>5
<1> HIDE DEF at
<1>2. ASSUME NEW i \in 0..Len(old), NEW j \in 0..Len(new)
      PROVE  /\ Longest(g, old, new, i, j)
             /\ i \in Nat /\ j \in Nat
             /\ i > 0 => g[<<i - 1, j>>] \in Nat
             /\ j > 0 => g[<<i, j - 1>>] \in Nat
  <2>1. \A k \in 0..Len(old), l \in 0..Len(new) : Longest(g, old, new, k, l)
    BY TableIs
  <2>2. i > 0 => i - 1 \in 0..Len(old)
    BY CellsAre
  <2>3. j > 0 => j - 1 \in 0..Len(new)
    BY CellsAre
  <2> HIDE DEF g
  <2>4. i > 0 => Longest(g, old, new, i - 1, j)
    BY <2>1, <2>2
  <2>5. j > 0 => Longest(g, old, new, i, j - 1)
    BY <2>1, <2>3
  <2>. QED
    BY <2>1, <2>4, <2>5, CellsAre DEF Longest
<1>3. ASSUME NEW i \in 0..Len(old), NEW j \in 0..Len(new)
      PROVE  at(g, i, j) = g[<<i, j>>]
  <2> HIDE DEF g
  <2>1. /\ i \in Nat /\ j \in Nat
        /\ i > 0 => g[<<i - 1, j>>] \in Nat
        /\ j > 0 => g[<<i, j - 1>>] \in Nat
    BY <1>2
  <2>2. /\ i = 0 \/ j = 0 => at(g, i, j) = 0
        /\ i > 0 /\ j > 0 /\ old[i] = new[j] => at(g, i, j) = g[<<i - 1, j - 1>>] + 1
        /\ i > 0 /\ j > 0 /\ old[i] # new[j] =>
              at(g, i, j) = IF g[<<i - 1, j>>] > g[<<i, j - 1>>]
                            THEN g[<<i - 1, j>>] ELSE g[<<i, j - 1>>]
    BY <1>1, <2>1
  <2>3. Longest(g, old, new, i, j)
    BY <1>2
  <2>. QED
    BY <2>1, <2>2, <2>3 DEF Longest
<1>4. g = [c \in S |-> next(g, c)]
  <2>1. \A c \in S : next(g, c) = g[c]
    <3> HIDE DEF g
    <3>1. SUFFICES ASSUME NEW c \in S PROVE at(g, c[1], c[2]) = g[c]
      OBVIOUS
    <3>2. c[1] \in 0..Len(old) /\ c[2] \in 0..Len(new) /\ c = <<c[1], c[2]>>
      BY CellsAre
    <3>. QED
      BY <1>3, <3>2
  <2>2. \E h : g = [c \in S |-> h[c]]
    <3> DEFINE value(f, i, j) ==
                 CASE i = 0 \/ j = 0 -> 0
                   [] i > 0 /\ j > 0 /\ old[i] = new[j] -> f[<<i - 1, j - 1>>] + 1
                   [] OTHER -> IF f[<<i - 1, j>>] > f[<<i, j - 1>>]
                               THEN f[<<i - 1, j>>] ELSE f[<<i, j - 1>>]
               h == CHOOSE f : f = [c \in S |-> value(f, c[1], c[2])]
    <3>1. g = [c \in S |-> h[c]]
      BY DEF LCS
    <3> HIDE DEF h
    <3>. QED
      BY <3>1
  <2> HIDE DEF g, next, S
  <2>. QED
    BY <2>1, <2>2
<1>5. dp = [c \in S |-> next(dp, c)]
  <2> HIDE DEF next, g
  <2>. QED
    BY <1>4
<1>6. Table(old, new) = dp
  BY DEF Table, at
<1> HIDE DEF dp, g
<1> DEFINE T == {c \in S : dp[c] = g[c]}
<1>7. ASSUME NEW i \in 0..Len(old), NEW j \in 0..Len(new),
             i > 0 /\ j > 0 => <<i - 1, j - 1>> \in T,
             i > 0 => <<i - 1, j>> \in T,
             j > 0 => <<i, j - 1>> \in T
      PROVE  <<i, j>> \in T
  <2>1. /\ i > 0 /\ j > 0 => dp[<<i - 1, j - 1>>] = g[<<i - 1, j - 1>>]
        /\ i > 0 => dp[<<i - 1, j>>] = g[<<i - 1, j>>]
        /\ j > 0 => dp[<<i, j - 1>>] = g[<<i, j - 1>>]
    BY <1>7
  <2>2. <<i, j>> \in S
    BY CellsAre
  <2>3. dp[<<i, j>>] = at(dp, i, j)
    <3> HIDE DEF S
    <3>. QED
      BY <1>5, <2>2
  <2>4. at(dp, i, j) = g[<<i, j>>]
    <3>1. /\ i \in Nat /\ j \in Nat
          /\ i > 0 => dp[<<i - 1, j>>] \in Nat
          /\ j > 0 => dp[<<i, j - 1>>] \in Nat
      BY <1>2, <2>1
    <3>2. /\ i = 0 \/ j = 0 => at(dp, i, j) = 0
          /\ i > 0 /\ j > 0 /\ old[i] = new[j] => at(dp, i, j) = dp[<<i - 1, j - 1>>] + 1
          /\ i > 0 /\ j > 0 /\ old[i] # new[j] =>
                at(dp, i, j) = IF dp[<<i - 1, j>>] > dp[<<i, j - 1>>]
                               THEN dp[<<i - 1, j>>] ELSE dp[<<i, j - 1>>]
      BY <1>1, <3>1
    <3>3. Longest(g, old, new, i, j)
      BY <1>2
    <3>. QED
      BY <2>1, <3>1, <3>2, <3>3 DEF Longest
  <2> HIDE DEF S
  <2>. QED
    BY <2>2, <2>3, <2>4
<1> HIDE DEF T
<1>8. \A i \in 0..Len(old), j \in 0..Len(new) : <<i, j>> \in T
  BY <1>7, CellInduction
<1>9. \A c \in S : dp[c] = g[c]
  <2>1. SUFFICES ASSUME NEW c \in S PROVE dp[c] = g[c]
    OBVIOUS
  <2>2. c[1] \in 0..Len(old) /\ c[2] \in 0..Len(new) /\ c = <<c[1], c[2]>>
    BY CellsAre
  <2>3. c \in T
    BY <1>8, <2>2
  <2>. QED
    BY <2>3 DEF T
<1>10. dp = g
  <2> HIDE DEF next, S
  <2>. QED
    BY <1>4, <1>5, <1>9
<1>. QED
  BY <1>6, <1>10 DEF g

\* The operations the browser adds, from the end of a list on.
LEMMA MergingIs ==
    /\ merging[<<>>] = <<>>
    /\ \A q \in Seq(Plain), o \in Plain :
          /\ merging[q] \in Seq(Plain)
          /\ merging[<<o>> \o q] = AddOp(merging[q], o)
<1> DEFINE V == Seq(Plain)
           step == [p \in Plain \X V |-> addOp(p[2], p[1])]
           g == merging
<1>1. step \in [Plain \X V -> V]
  BY AddOpSame
<1>2. <<>> \in V
  BY EmptySeq
<1>3. PICK f : IsFold(f, Plain, V, <<>>, step)
  <2> HIDE DEF V, step
  <2>. QED
    BY <1>1, <1>2, ListRecursion
<1>4. f \in [V -> V] /\ \A q \in V : f[q] = IF q = <<>> THEN <<>> ELSE step[<<Head(q), f[Tail(q)]>>]
  BY <1>3 DEF IsFold
<1>5. ASSUME NEW q \in V, q # <<>> PROVE step[<<Head(q), f[Tail(q)]>>] = addOp(f[Tail(q)], Head(q))
  <2>1. Head(q) \in Plain /\ Tail(q) \in V
    BY <1>5, HeadTailProperties
  <2>2. f[Tail(q)] \in V
    BY <1>4, <2>1
  <2> HIDE DEF V
  <2>. QED
    BY <2>1, <2>2
<1>6. f = [q \in V |-> IF q = <<>> THEN <<>> ELSE addOp(f[Tail(q)], Head(q))]
  <2> HIDE DEF V, step
  <2>. QED
    BY <1>4, <1>5
<1>7. g = [q \in V |-> IF q = <<>> THEN <<>> ELSE addOp(g[Tail(q)], Head(q))]
  <2>1. g = CHOOSE h : h = [q \in V |-> IF q = <<>> THEN <<>> ELSE addOp(h[Tail(q)], Head(q))]
    BY DEF merging
  <2> HIDE DEF V, g
  <2>. QED
    BY <1>6, <2>1
<1> HIDE DEF g
<1>8. g[<<>>] = <<>>
  BY <1>2, <1>7
<1> DEFINE T == {q \in V : g[q] \in V}
<1>9. ASSUME NEW q \in V, q # <<>>, Tail(q) \in T PROVE q \in T
  <2>1. Head(q) \in Plain /\ g[Tail(q)] \in V
    BY <1>9, HeadTailProperties
  <2>2. g[q] = addOp(g[Tail(q)], Head(q))
    BY <1>7, <1>9
  <2>3. addOp(g[Tail(q)], Head(q)) \in V
    BY <2>1, AddOpSame
  <2>. QED
    BY <2>2, <2>3
<1>10. <<>> \in T
  BY <1>2, <1>8
<1> HIDE DEF T
<1>11. \A q \in V : q \in T
  BY <1>9, <1>10, ListInduction
<1>12. ASSUME NEW q \in V, NEW o \in Plain
       PROVE  g[q] \in V /\ g[<<o>> \o q] = AddOp(g[q], o)
  <2>1. g[q] \in V
    BY <1>11 DEF T
  <2>2. <<o>> \o q \in V /\ <<o>> \o q # <<>> /\ Head(<<o>> \o q) = o /\ Tail(<<o>> \o q) = q
    BY ConsSeq
  <2> DEFINE r == <<o>> \o q
  <2>3. r \in V /\ r # <<>> /\ Head(r) = o /\ Tail(r) = q
    BY <2>2
  <2> HIDE DEF r, V
  <2>4. g[r] = addOp(g[q], o)
    BY <1>7, <2>3
  <2>. QED
    BY <2>1, <2>4, AddOpSame DEF r, V
<1>. QED
  BY <1>8, <1>12 DEF g

\* Each cell of the browser's backtracking continues a smaller one.
Pushes(f, old, new, i, j) ==
    \/ i = 0 /\ j = 0 /\ f[<<i, j>>] = <<>>
    \/ /\ i > 0 /\ j > 0 /\ old[i] = new[j]
       /\ f[<<i, j>>] = <<Retain(1)>> \o f[<<i - 1, j - 1>>]
    \/ /\ j > 0 /\ ~(i > 0 /\ j > 0 /\ old[i] = new[j]) /\ BacktrackInserts(LCS(old, new), i, j)
       /\ f[<<i, j>>] = <<Insert(<<new[j]>>)>> \o f[<<i, j - 1>>]
    \/ /\ i > 0 /\ ~(i > 0 /\ j > 0 /\ old[i] = new[j]) /\ ~BacktrackInserts(LCS(old, new), i, j)
       /\ f[<<i, j>>] = <<Delete(1)>> \o f[<<i - 1, j>>]

LEMMA BacktracksAre ==
    ASSUME NEW old \in Text, NEW new \in Text
    PROVE  \A i \in 0..Len(old), j \in 0..Len(new) : Pushes(Backtracks(old, new), old, new, i, j)
<1> DEFINE S == Cells(old, new)
           V == Seq(Plain)
           dp == LCS(old, new)
           same(i, j) == i > 0 /\ j > 0 /\ old[i] = new[j]
           at(f, i, j) == CASE i = 0 /\ j = 0 -> <<>>
                            [] same(i, j) -> <<Retain(1)>> \o f[<<i - 1, j - 1>>]
                            [] ~same(i, j) /\ BacktrackInserts(dp, i, j) ->
                                  <<Insert(<<new[j]>>)>> \o f[<<i, j - 1>>]
                            [] OTHER -> <<Delete(1)>> \o f[<<i - 1, j>>]
           next(f, c) == at(f, c[1], c[2])
           segs == CHOOSE f : f = [c \in S |-> next(f, c)]
           mu == [c \in S |-> c[1] + c[2]]
           Phi == [f \in [S -> V] |-> [c \in S |-> next(f, c)]]
<1>1. ASSUME NEW f, NEW i \in 0..Len(old), NEW j \in 0..Len(new)
      PROVE  \/ i = 0 /\ j = 0 /\ at(f, i, j) = <<>>
             \/ same(i, j) /\ at(f, i, j) = <<Retain(1)>> \o f[<<i - 1, j - 1>>]
             \/ /\ ~same(i, j) /\ BacktrackInserts(dp, i, j) /\ j > 0
                /\ at(f, i, j) = <<Insert(<<new[j]>>)>> \o f[<<i, j - 1>>]
             \/ /\ ~same(i, j) /\ ~BacktrackInserts(dp, i, j) /\ i > 0
                /\ at(f, i, j) = <<Delete(1)>> \o f[<<i - 1, j>>]
  <2>1. i \in Nat /\ j \in Nat
    BY CellsAre
  <2>2. ~same(i, j) /\ ~(i = 0 /\ j = 0) /\ ~BacktrackInserts(dp, i, j) => i > 0
    BY <2>1 DEF BacktrackInserts
  <2>3. BacktrackInserts(dp, i, j) => j > 0
    BY DEF BacktrackInserts
  <2> DEFINE u == <<Retain(1)>> \o f[<<i - 1, j - 1>>]
             v == <<Insert(<<new[j]>>)>> \o f[<<i, j - 1>>]
             w == <<Delete(1)>> \o f[<<i - 1, j>>]
  <2>4. at(f, i, j) = CASE i = 0 /\ j = 0 -> <<>>
                        [] same(i, j) -> u
                        [] ~same(i, j) /\ BacktrackInserts(dp, i, j) -> v
                        [] OTHER -> w
    OBVIOUS
  <2>5. ~(i = 0 /\ j = 0 /\ same(i, j))
    BY <2>1
  <2>6. ~(i = 0 /\ j = 0 /\ BacktrackInserts(dp, i, j))
    BY <2>1, <2>3
  <2> HIDE DEF dp, u, v, w, at, same
  <2>7. CASE i = 0 /\ j = 0
    BY <2>4, <2>5, <2>6, <2>7
  <2>8. CASE ~(i = 0 /\ j = 0) /\ same(i, j)
    BY <2>4, <2>8 DEF u
  <2>9. CASE ~(i = 0 /\ j = 0) /\ ~same(i, j) /\ BacktrackInserts(dp, i, j)
    BY <2>3, <2>4, <2>9 DEF v
  <2>10. CASE ~(i = 0 /\ j = 0) /\ ~same(i, j) /\ ~BacktrackInserts(dp, i, j)
    BY <2>2, <2>4, <2>10 DEF w
  <2>. QED
    BY <2>7, <2>8, <2>9, <2>10
<1>2. ASSUME NEW c \in S
      PROVE  /\ c[1] \in 0..Len(old) /\ c[2] \in 0..Len(new) /\ c[1] \in Nat /\ c[2] \in Nat
             /\ c = <<c[1], c[2]>>
             /\ c[1] > 0 /\ c[2] > 0 => <<c[1] - 1, c[2] - 1>> \in S /\ mu[<<c[1] - 1, c[2] - 1>>] < mu[c]
             /\ c[2] > 0 => <<c[1], c[2] - 1>> \in S /\ mu[<<c[1], c[2] - 1>>] < mu[c]
             /\ c[1] > 0 => <<c[1] - 1, c[2]>> \in S /\ mu[<<c[1] - 1, c[2]>>] < mu[c]
             /\ c[2] > 0 => Insert(<<new[c[2]]>>) \in Plain
  <2> DEFINE i == c[1]
             j == c[2]
  <2>1. i \in 0..Len(old) /\ j \in 0..Len(new) /\ i \in Nat /\ j \in Nat /\ c = <<i, j>>
    BY CellsAre
  <2>2. /\ i > 0 /\ j > 0 => <<i - 1, j - 1>> \in S
        /\ j > 0 => <<i, j - 1>> \in S
        /\ i > 0 => <<i - 1, j>> \in S
    <3>1. i > 0 => i - 1 \in 0..Len(old)
      BY <2>1, CellsAre
    <3>2. j > 0 => j - 1 \in 0..Len(new)
      BY <2>1, CellsAre
    <3> HIDE DEF i, j
    <3>. QED
      BY <2>1, <3>1, <3>2, CellsAre
  <2>3. \A x, y : <<x, y>> \in S => mu[<<x, y>>] = x + y
    OBVIOUS
  <2>4. mu[c] = i + j
    OBVIOUS
  <2>5. j > 0 => Insert(<<new[j]>>) \in Plain
    <3>1. ASSUME j > 0 PROVE <<new[j]>> \in Text \ {<<>>}
      <4>1. new[j] \in Nat
        <5> HIDE DEF i, j, S, mu
        <5>. QED
          BY <2>1, <3>1, CellsAre
      <4> DEFINE x == new[j]
      <4> HIDE DEF x
      <4>2. x \in Nat => <<x>> \in Text \ {<<>>}
        BY DEF Text
      <4>. QED
        BY <4>1, <4>2 DEF x
    <3>. QED
      BY <3>1, PlainOps
  <2> HIDE DEF mu, S, i, j
  <2>6. i > 0 /\ j > 0 => mu[<<i - 1, j - 1>>] < mu[c]
    BY <2>1, <2>2, <2>3, <2>4
  <2>7. j > 0 => mu[<<i, j - 1>>] < mu[c]
    BY <2>1, <2>2, <2>3, <2>4
  <2>8. i > 0 => mu[<<i - 1, j>>] < mu[c]
    BY <2>1, <2>2, <2>3, <2>4
  <2>. QED
    BY <2>1, <2>2, <2>5, <2>6, <2>7, <2>8 DEF i, j
<1>3. Retain(1) \in Plain /\ Delete(1) \in Plain /\ <<>> \in V
  BY PlainOps, EmptySeq
<1>4. ASSUME NEW f \in [S -> V], NEW c \in S
      PROVE  next(f, c) \in V
  <2> DEFINE i == c[1]
             j == c[2]
  <2>1. /\ i > 0 /\ j > 0 => f[<<i - 1, j - 1>>] \in V
        /\ j > 0 => f[<<i, j - 1>>] \in V
        /\ i > 0 => f[<<i - 1, j>>] \in V
    <3> HIDE DEF S, V, mu
    <3>. QED
      BY <1>2
  <2>2. i \in 0..Len(old) /\ j \in 0..Len(new) /\ i \in Nat /\ j \in Nat /\ (j > 0 => Insert(<<new[j]>>) \in Plain)
    BY <1>2
  <2> HIDE DEF S, mu, i, j, at
  <2>3. /\ i > 0 /\ j > 0 => <<Retain(1)>> \o f[<<i - 1, j - 1>>] \in V
        /\ j > 0 => <<Insert(<<new[j]>>)>> \o f[<<i, j - 1>>] \in V
        /\ i > 0 => <<Delete(1)>> \o f[<<i - 1, j>>] \in V
    BY <1>3, <2>1, <2>2, ConsSeq
  <2> HIDE DEF V, dp
  <2>4. at(f, i, j) \in V
    BY <1>1, <1>3, <2>2, <2>3, ZenonT(40)
  <2>. QED
    BY <2>4 DEF i, j
<1>5. ASSUME NEW f \in [S -> V], NEW h \in [S -> V], NEW c \in S,
             \A x \in S : mu[x] < mu[c] => f[x] = h[x]
      PROVE  next(f, c) = next(h, c)
  <2> DEFINE i == c[1]
             j == c[2]
  <2>1. /\ i > 0 /\ j > 0 => f[<<i - 1, j - 1>>] = h[<<i - 1, j - 1>>]
        /\ j > 0 => f[<<i, j - 1>>] = h[<<i, j - 1>>]
        /\ i > 0 => f[<<i - 1, j>>] = h[<<i - 1, j>>]
    <3> HIDE DEF S, V, mu
    <3>. QED
      BY <1>2, <1>5
  <2>2. i \in Nat /\ j \in Nat
    BY <1>2
  <2>4. ~same(i, j) /\ ~(i = 0 /\ j = 0) /\ ~BacktrackInserts(dp, i, j) => i > 0
    BY <2>2 DEF BacktrackInserts
  <2>5. BacktrackInserts(dp, i, j) => j > 0
    BY DEF BacktrackInserts
  <2> HIDE DEF dp, i, j, S, V, mu
  <2>6. at(f, i, j) = at(h, i, j)
    BY <2>1, <2>4, <2>5
  <2>. QED
    BY <2>6 DEF i, j
<1> HIDE DEF at
<1>6. PICK f \in [S -> V] : Phi[f] = f
  <2>1. V # {}
    BY EmptySeq
  <2>2. mu \in [S -> Nat]
    <3>1. \A c \in S : c[1] + c[2] \in Nat
      BY CellsAre
    <3> HIDE DEF S
    <3>. QED
      BY <3>1
  <2>3. Phi \in [[S -> V] -> [S -> V]]
    <3> HIDE DEF S, V, next
    <3>. QED
      BY <1>4
  <2>4. ASSUME NEW f \in [S -> V], NEW h \in [S -> V], NEW c \in S,
               \A x \in S : mu[x] < mu[c] => f[x] = h[x]
        PROVE  Phi[f][c] = Phi[h][c]
    <3>1. next(f, c) = next(h, c)
      BY <1>5, <2>4
    <3> HIDE DEF S, V, next
    <3>. QED
      BY <3>1
  <2> HIDE DEF S, V, mu, Phi
  <2>5. Descends(S, V, mu, Phi)
    BY <2>1, <2>2, <2>3, <2>4 DEF Descends
  <2>. QED
    BY <2>5, Recursion
<1>7. f = [c \in S |-> next(f, c)]
  <2> HIDE DEF V, next, S
  <2>. QED
    BY <1>6
<1>8. segs = [c \in S |-> next(segs, c)]
  <2> HIDE DEF next
  <2>. QED
    BY <1>7
<1>9. Backtracks(old, new) = segs
  BY TableSame DEF Backtracks, BacktrackInserts, at
<1>10. \A c \in S : segs[c] = next(segs, c)
  <2> HIDE DEF next
  <2>. QED
    BY <1>8
<1> HIDE DEF segs
<1>11. ASSUME NEW i \in 0..Len(old), NEW j \in 0..Len(new)
       PROVE  Pushes(segs, old, new, i, j)
  <2>1. <<i, j>> \in S
    BY CellsAre
  <2> HIDE DEF S
  <2>2. segs[<<i, j>>] = at(segs, i, j)
    BY <1>10, <2>1
  <2>3. \/ i = 0 /\ j = 0 /\ segs[<<i, j>>] = <<>>
        \/ same(i, j) /\ segs[<<i, j>>] = <<Retain(1)>> \o segs[<<i - 1, j - 1>>]
        \/ /\ ~same(i, j) /\ BacktrackInserts(dp, i, j) /\ j > 0
           /\ segs[<<i, j>>] = <<Insert(<<new[j]>>)>> \o segs[<<i, j - 1>>]
        \/ /\ ~same(i, j) /\ ~BacktrackInserts(dp, i, j) /\ i > 0
           /\ segs[<<i, j>>] = <<Delete(1)>> \o segs[<<i - 1, j>>]
    <3> HIDE DEF dp, same
    <3>. QED
      BY <1>1, <2>2
  <2>. QED
    BY <2>3 DEF Pushes
<1>. QED
  BY <1>9, <1>11

\* What the browser pushes, added from the end on, is what diff.go adds.
LEMMA BacktracksMerge ==
    ASSUME NEW old \in Text, NEW new \in Text
    PROVE  \A i \in 0..Len(old), j \in 0..Len(new) :
              merging[Backtracks(old, new)[<<i, j>>]] = Segments(old, new)[<<i, j>>]
<1> DEFINE S == Cells(old, new)
           f == Backtracks(old, new)
           g == Segments(old, new)
           T == {c \in S : f[c] \in Seq(Plain) /\ merging[f[c]] = g[c]}
<1>1. ASSUME NEW i \in 0..Len(old), NEW j \in 0..Len(new),
             i > 0 /\ j > 0 => <<i - 1, j - 1>> \in T,
             i > 0 => <<i - 1, j>> \in T,
             j > 0 => <<i, j - 1>> \in T
      PROVE  <<i, j>> \in T
  <2>1. <<i, j>> \in S /\ i \in Nat /\ j \in Nat
    BY CellsAre
  <2>2. /\ i > 0 /\ j > 0 => f[<<i - 1, j - 1>>] \in Seq(Plain) /\ merging[f[<<i - 1, j - 1>>]] = g[<<i - 1, j - 1>>]
        /\ i > 0 => f[<<i - 1, j>>] \in Seq(Plain) /\ merging[f[<<i - 1, j>>]] = g[<<i - 1, j>>]
        /\ j > 0 => f[<<i, j - 1>>] \in Seq(Plain) /\ merging[f[<<i, j - 1>>]] = g[<<i, j - 1>>]
    BY <1>1
  <2>3. Pushes(f, old, new, i, j)
    BY BacktracksAre
  <2>4. Continues(g, old, new, i, j)
    BY SegmentsAre
  <2>5. Retain(1) \in Plain /\ Delete(1) \in Plain
    BY PlainOps
  <2>6. j > 0 => Insert(<<new[j]>>) \in Plain
    <3>1. ASSUME j > 0 PROVE <<new[j]>> \in Text \ {<<>>}
      <4> DEFINE x == new[j]
      <4>1. x \in Nat
        BY <2>1, <3>1, CellsAre
      <4> HIDE DEF x
      <4>2. x \in Nat => <<x>> \in Text \ {<<>>}
        BY DEF Text
      <4>. QED
        BY <4>1, <4>2 DEF x
    <3>. QED
      BY <3>1, PlainOps
  <2>7. \A q \in Seq(Plain), o \in Plain : /\ <<o>> \o q \in Seq(Plain)
                                          /\ merging[<<o>> \o q] = AddOp(merging[q], o)
    BY ConsSeq, MergingIs
  <2> DEFINE equal == i > 0 /\ j > 0 /\ old[i] = new[j]
             inserts == BacktrackInserts(LCS(old, new), i, j)
  <2> HIDE DEF f, g, S
  <2>8. CASE i = 0 /\ j = 0
    <3>1. f[<<i, j>>] = <<>>
      BY <2>1, <2>3, <2>8 DEF Pushes
    <3>2. g[<<i, j>>] = <<>>
      BY <2>1, <2>4, <2>8 DEF Continues
    <3>. QED
      BY <2>1, <3>1, <3>2, MergingIs, EmptySeq
  <2>9. CASE equal
    <3>0. i > 0 /\ j > 0 /\ old[i] = new[j] /\ i # 0
      BY <2>1, <2>9
    <3>1. f[<<i, j>>] = <<Retain(1)>> \o f[<<i - 1, j - 1>>]
      BY <2>3, <3>0, Zenon DEF Pushes
    <3>2. g[<<i, j>>] = AddOp(g[<<i - 1, j - 1>>], Retain(1))
      BY <2>1, <2>4, <2>9 DEF Continues
    <3>. QED
      BY <2>1, <2>2, <2>5, <2>7, <2>9, <3>1, <3>2
  <2>10. CASE ~(i = 0 /\ j = 0) /\ ~equal /\ inserts
    <3>1. j > 0 /\ f[<<i, j>>] = <<Insert(<<new[j]>>)>> \o f[<<i, j - 1>>]
      BY <2>1, <2>3, <2>10 DEF Pushes
    <3>2. g[<<i, j>>] = AddOp(g[<<i, j - 1>>], Insert(<<new[j]>>))
      BY <2>1, <2>4, <2>10 DEF Continues
    <3>. QED
      BY <2>1, <2>2, <2>6, <2>7, <3>1, <3>2
  <2>11. CASE ~(i = 0 /\ j = 0) /\ ~equal /\ ~inserts
    <3>1. i > 0 /\ f[<<i, j>>] = <<Delete(1)>> \o f[<<i - 1, j>>]
      BY <2>1, <2>3, <2>11 DEF Pushes
    <3>2. g[<<i, j>>] = AddOp(g[<<i - 1, j>>], Delete(1))
      BY <2>1, <2>4, <2>11 DEF Continues
    <3>. QED
      BY <2>1, <2>2, <2>5, <2>7, <3>1, <3>2
  <2>. QED
    BY <2>8, <2>9, <2>10, <2>11
<1> HIDE DEF T
<1>2. \A i \in 0..Len(old), j \in 0..Len(new) : <<i, j>> \in T
  BY <1>1, CellInduction
<1>. QED
  BY <1>2 DEF T

\* diffToChangeset (client.js) returns the changeset of DiffToChangeset (diff.go).
THEOREM BrowserDiffsAlike ==
    ASSUME NEW old \in Text, NEW new \in Text
    PROVE  diffToChangeset(old, new) = DiffToChangeset(old, new)
<1>1. Len(old) \in 0..Len(old) /\ Len(new) \in 0..Len(new)
  BY TextNil
<1>2. merging[Backtracks(old, new)[<<Len(old), Len(new)>>]] = Segments(old, new)[<<Len(old), Len(new)>>]
  BY <1>1, BacktracksMerge
<1>. QED
  BY <1>2 DEF diffToChangeset, DiffToChangeset

\* isIdentity of the browser, on a changeset that suits a text.
LEMMA IdentityAlike ==
    ASSUME NEW text, NEW c, Suits(text, c)
    PROVE  isIdentity(c) <=> IsIdentity(c)
<1>1. /\ c.ops \in Seq(Plain) /\ c.ops \in Seq(Op)
      /\ c.old_len = Len(text) /\ c.new_len = Produced(c.ops) /\ Consumed(c.ops) = Len(text)
  BY DEF Suits, Normal, Fits
<1>2. ASSUME c.old_len = 0, c.new_len = 0 PROVE c.ops = <<>>
  <2>1. SUFFICES ASSUME c.ops # <<>> PROVE FALSE
    OBVIOUS
  <2> DEFINE h == Head(c.ops)
             r == Tail(c.ops)
  <2>2. h \in Plain /\ r \in Seq(Op)
    BY <1>1, <2>1, HeadTailProperties
  <2>3. h \in Op /\ Size(h) \in Nat \ {0} /\ h.op \in {"retain", "insert", "delete"}
    BY <2>2, PlainOps, OpFields
  <2>4. Consumed(c.ops) = Consumes(h) + Consumed(r) /\ Produced(c.ops) = Produces(h) + Produced(r)
    BY <1>1, <2>1, ConsumedIs, ProducedIs
  <2>5. Consumed(r) \in Nat /\ Produced(r) \in Nat /\ Consumes(h) \in Nat /\ Produces(h) \in Nat
    BY <2>2, <2>3, ConsumedIs, ProducedIs, OpTypes
  <2>6. Consumed(c.ops) = 0 /\ Produced(c.ops) = 0
    BY <1>1, <1>2
  <2> HIDE DEF h, r
  <2>7. Consumes(h) = 0 /\ Produces(h) = 0
    BY <2>4, <2>5, <2>6
  <2>. QED
    BY <2>3, <2>7 DEF Size, Consumes, Produces
<1>. QED
  BY <1>2 DEF isIdentity, IsIdentity

\* MirrorsGo, always: the browser rebases, composes, applies and diffs as internal/ot does
\* ("Mirrors the Go Follow function exactly"), whatever the edits and their history.
THEOREM BrowserMirrorsServer == Spec => []MirrorsGo
<1>1. ASSUME EditsInv PROVE MirrorsGo
  <2> DEFINE A == pending[1]
             B == pending[2]
             C == Follow(A, B)
  <2>1. doc \in Text /\ Suits(doc, A) /\ Suits(doc, B) /\ Suits(<<>>, total)
    BY <1>1, EditsMean
  <2>2. Suits(ApplyChangeset(doc, A), C)
    BY <2>1, FollowSuits
  <2>3. A.ops \in Seq(Plain) /\ B.ops \in Seq(Plain) /\ C.ops \in Seq(Plain) /\ total.ops \in Seq(Plain)
    BY <2>1, <2>2 DEF Suits, Normal
  <2>4. /\ follow(A, B) = C /\ follow(B, A) = Follow(B, A)
        /\ compose(A, C) = Compose(A, C) /\ compose(total, A) = Compose(total, A)
    BY <2>3, BrowserFollowsAlike
  <2>5. isIdentity(A) = IsIdentity(A)
    <3>1. isIdentity(A) <=> IsIdentity(A)
      BY <2>1, IdentityAlike
    <3>. QED
      BY <3>1 DEF isIdentity, IsIdentity
  <2>6. ~Throws(doc, A) /\ applyChangeset(doc, A) = ApplyChangeset(doc, A)
    BY <2>1, ClientApplySame DEF Suits, Throws
  <2>7. \A t \in Documents : diffToChangeset(doc, t) = DiffToChangeset(doc, t)
    BY <2>1, DocumentsAre, CharText, BrowserDiffsAlike
  <2>. QED
    BY <2>4, <2>5, <2>6, <2>7 DEF MirrorsGo
<1>. QED
  BY <1>1, EditsInductive, PTL

===============================================================================
