---------------------- MODULE DocumentStateMachineProofs ----------------------
(***************************************************************************)
(* Proofs about the document state machine: what its loops over the        *)
(* revision log compute, when every revision in the log fits the text      *)
(* before it, that Apply keeps such a log, and that catching an entry up   *)
(* may be done in parts.                                                   *)
(***************************************************************************)
EXTENDS DocumentStateMachine, ChangesetProofs

-------------------------------------------------------------------------------
(* The loop of a replay.                                                   *)

ReplayStep(f, s, i) ==
    IF i = 0 THEN <<>> ELSE ApplyChangeset(f[i - 1], s.revisionLog[i].changeset)

IsReplay(f, s, n) == f = [i \in 0..n |-> ReplayStep(f, s, i)]

\* The texts of a replay exist, ...
LEMMA ReplayExists ==
    ASSUME NEW s
    PROVE  \A n \in Nat : \E f : IsReplay(f, s, n)
<1> DEFINE T == {n \in Nat : \E f : IsReplay(f, s, n)}
<1>1. 0 \in T
  <2> DEFINE f == [i \in 0..0 |-> <<>>]
  <2>1. IsReplay(f, s, 0)
    BY DEF IsReplay, ReplayStep
  <2>. QED
    BY <2>1
<1>2. ASSUME NEW n \in T PROVE n + 1 \in T
  <2>1. PICK f : IsReplay(f, s, n)
    OBVIOUS
  <2> DEFINE g == [i \in 0..n + 1 |-> IF i = n + 1 THEN ReplayStep(f, s, i) ELSE f[i]]
  <2>2. n \in Nat /\ \A i \in 0..n : f[i] = ReplayStep(f, s, i)
    BY <2>1 DEF IsReplay
  <2>3. \A i \in 0..n : g[i] = f[i]
    BY <2>2
  <2>4. \A i \in 0..n + 1 : i # 0 => i - 1 \in 0..n /\ g[i - 1] = f[i - 1]
    BY <2>2, <2>3
  <2>5. \A i \in 0..n + 1 : ReplayStep(g, s, i) = ReplayStep(f, s, i)
    BY <2>4 DEF ReplayStep
  <2>6. \A i \in 0..n + 1 : g[i] = ReplayStep(f, s, i)
    BY <2>2, <2>3
  <2>7. IsReplay(g, s, n + 1)
    BY <2>5, <2>6 DEF IsReplay
  <2>. QED
    BY <2>2, <2>7
<1> HIDE DEF T
<1>3. \A n \in Nat : n \in T
  <2>1. T \subseteq Nat
    BY DEF T
  <2>. QED
    BY <1>1, <1>2, <2>1, SetInduction
<1>. QED
  BY <1>3 DEF T

\* ... are unique, ...
LEMMA ReplayUnique ==
    ASSUME NEW s, NEW m \in Nat, NEW n \in Nat, NEW f, NEW g,
           IsReplay(f, s, m), IsReplay(g, s, n)
    PROVE  \A i \in Nat : i <= m /\ i <= n => f[i] = g[i]
<1> DEFINE T == {i \in Nat : i <= m /\ i <= n => f[i] = g[i]}
<1>0. /\ \A i \in 0..m : f[i] = ReplayStep(f, s, i)
      /\ \A i \in 0..n : g[i] = ReplayStep(g, s, i)
  BY DEF IsReplay
<1>1. 0 \in T
  BY <1>0 DEF ReplayStep
<1>2. ASSUME NEW i \in T PROVE i + 1 \in T
  <2>1. SUFFICES ASSUME i + 1 <= m, i + 1 <= n PROVE f[i + 1] = g[i + 1]
    OBVIOUS
  <2>2. f[i] = g[i] /\ i + 1 \in 0..m /\ i + 1 \in 0..n /\ i + 1 # 0 /\ (i + 1) - 1 = i
    BY <2>1
  <2>. QED
    BY <1>0, <2>2 DEF ReplayStep
<1> HIDE DEF T
<1>3. \A i \in Nat : i \in T
  <2>1. T \subseteq Nat
    BY DEF T
  <2>. QED
    BY <1>1, <1>2, <2>1, SetInduction
<1>. QED
  BY <1>3 DEF T

\* ... and are what ReplayTo returns.
LEMMA ReplayIs ==
    ASSUME NEW s
    PROVE  /\ ReplayTo(s, 0) = <<>>
           /\ \A r \in Nat : ReplayTo(s, r + 1) =
                 ApplyChangeset(ReplayTo(s, r), s.revisionLog[r + 1].changeset)
<1> DEFINE text(r) == CHOOSE f : IsReplay(f, s, r)
<1>1. \A r \in Nat : IsReplay(text(r), s, r)
  BY ReplayExists
<1>2. \A r \in Nat : ReplayTo(s, r) = text(r)[r]
  BY DEF ReplayTo, IsReplay, ReplayStep
<1> HIDE DEF text
<1>3. \A r \in Nat : \A i \in 0..r : text(r)[i] = ReplayStep(text(r), s, i)
  BY <1>1 DEF IsReplay
<1>4. ReplayTo(s, 0) = <<>>
  BY <1>2, <1>3 DEF ReplayStep
<1>5. ASSUME NEW r \in Nat
      PROVE  ReplayTo(s, r + 1) = ApplyChangeset(ReplayTo(s, r), s.revisionLog[r + 1].changeset)
  <2> DEFINE f == text(r)
             g == text(r + 1)
  <2>1. IsReplay(f, s, r) /\ IsReplay(g, s, r + 1) /\ r + 1 \in Nat
    BY <1>1
  <2>2. ReplayTo(s, r) = f[r] /\ ReplayTo(s, r + 1) = g[r + 1]
    BY <1>2
  <2> HIDE DEF f, g
  <2>3. f[r] = g[r]
    BY <2>1, ReplayUnique
  <2>4. g[r + 1] = ReplayStep(g, s, r + 1)
    BY <2>1 DEF IsReplay
  <2>5. g[r + 1] = ApplyChangeset(g[r], s.revisionLog[r + 1].changeset)
    <3>1. r + 1 # 0 /\ (r + 1) - 1 = r
      OBVIOUS
    <3>. QED
      BY <2>4, <3>1 DEF ReplayStep
  <2>. QED
    BY <2>2, <2>3, <2>5
<1>. QED
  BY <1>4, <1>5

\* A replay reads no further than its revision.
LEMMA ReplaySame ==
    ASSUME NEW s, NEW t, NEW n \in Nat,
           \A r \in 1..n : t.revisionLog[r] = s.revisionLog[r]
    PROVE  \A r \in 0..n : ReplayTo(t, r) = ReplayTo(s, r)
<1> DEFINE T == {r \in Nat : r <= n => ReplayTo(t, r) = ReplayTo(s, r)}
<1>1. 0 \in T
  BY ReplayIs
<1>2. ASSUME NEW r \in T PROVE r + 1 \in T
  <2>1. SUFFICES ASSUME r + 1 <= n PROVE ReplayTo(t, r + 1) = ReplayTo(s, r + 1)
    OBVIOUS
  <2>2. ReplayTo(t, r) = ReplayTo(s, r) /\ t.revisionLog[r + 1] = s.revisionLog[r + 1]
    BY <2>1
  <2>. QED
    BY <2>2, ReplayIs
<1> HIDE DEF T
<1>3. \A r \in Nat : r \in T
  <2>1. T \subseteq Nat
    BY DEF T
  <2>. QED
    BY <1>1, <1>2, <2>1, SetInduction
<1>. QED
  BY <1>3 DEF T

-------------------------------------------------------------------------------
(* The loop of a catch-up.                                                 *)

CatchUpStep(f, s, e, r) ==
    IF r <= e.base THEN e.changeset ELSE Follow(s.revisionLog[r].changeset, f[r - 1])

IsCatchUp(f, s, e, n) == f = [r \in 0..n |-> CatchUpStep(f, s, e, r)]

\* The changesets of a catch-up exist, ...
LEMMA CatchUpExists ==
    ASSUME NEW s, NEW e, e.base \in Nat
    PROVE  \A n \in Nat : \E f : IsCatchUp(f, s, e, n)
<1> DEFINE T == {n \in Nat : \E f : IsCatchUp(f, s, e, n)}
<1>1. 0 \in T
  <2> DEFINE f == [r \in 0..0 |-> e.changeset]
  <2>1. IsCatchUp(f, s, e, 0)
    BY DEF IsCatchUp, CatchUpStep
  <2>. QED
    BY <2>1
<1>2. ASSUME NEW n \in T PROVE n + 1 \in T
  <2>1. PICK f : IsCatchUp(f, s, e, n)
    OBVIOUS
  <2> DEFINE g == [r \in 0..n + 1 |-> IF r = n + 1 THEN CatchUpStep(f, s, e, r) ELSE f[r]]
  <2>2. n \in Nat /\ \A r \in 0..n : f[r] = CatchUpStep(f, s, e, r)
    BY <2>1 DEF IsCatchUp
  <2>3. \A r \in 0..n : g[r] = f[r]
    BY <2>2
  <2>4. \A r \in 0..n + 1 : r # 0 => r - 1 \in 0..n /\ g[r - 1] = f[r - 1]
    BY <2>2, <2>3
  <2>5. \A r \in 0..n + 1 : CatchUpStep(g, s, e, r) = CatchUpStep(f, s, e, r)
    BY <2>4 DEF CatchUpStep
  <2>6. \A r \in 0..n + 1 : g[r] = CatchUpStep(f, s, e, r)
    BY <2>2, <2>3
  <2>7. IsCatchUp(g, s, e, n + 1)
    BY <2>5, <2>6 DEF IsCatchUp
  <2>. QED
    BY <2>2, <2>7
<1> HIDE DEF T
<1>3. \A n \in Nat : n \in T
  <2>1. T \subseteq Nat
    BY DEF T
  <2>. QED
    BY <1>1, <1>2, <2>1, SetInduction
<1>. QED
  BY <1>3 DEF T

\* ... and the last of them is what Apply applies.
LEMMA TransformedIs ==
    ASSUME NEW s, s.headRev \in Nat, NEW e, e.base \in Nat
    PROVE  \E f : /\ Transformed(s, e) = f[s.headRev]
                  /\ \A r \in 0..s.headRev : f[r] = CatchUpStep(f, s, e, r)
<1> DEFINE caught == CHOOSE f : IsCatchUp(f, s, e, s.headRev)
<1>1. IsCatchUp(caught, s, e, s.headRev)
  BY CatchUpExists
<1>2. Transformed(s, e) = caught[s.headRev]
  BY DEF Transformed, IsCatchUp, CatchUpStep
<1> HIDE DEF caught
<1>. QED
  BY <1>1, <1>2 DEF IsCatchUp

-------------------------------------------------------------------------------
(* A sound revision log.                                                   *)

\* A changeset in the form of the operations, for some text or for none.
Formed(c) == c \in Changeset /\ Normal(c.ops) /\ c.new_len = Produced(c.ops)

\* Every revision of the log suits the text of the revisions before it, and the
\* head text is that of all of them.
Sound(s) ==
    /\ s.headRev \in Nat
    /\ s.headText = ReplayTo(s, s.headRev)
    /\ \A r \in 1..s.headRev : Suits(ReplayTo(s, r - 1), s.revisionLog[r].changeset)

\* A changeset in the form that ApplyChangeset accepts suits the text.
LEMMA FormedSuits ==
    ASSUME NEW text \in Text, NEW c, Formed(c)
    PROVE  Applicable(text, c) <=> Suits(text, c)
BY DEF Formed, Suits, Applicable, Fits, Changeset

\* The texts of a sound log.
LEMMA SoundTexts ==
    ASSUME NEW s, Sound(s)
    PROVE  \A r \in 0..s.headRev : ReplayTo(s, r) \in Text
<1> DEFINE T == {r \in Nat : r <= s.headRev => ReplayTo(s, r) \in Text}
<1>1. 0 \in T
  BY ReplayIs, TextNil
<1>2. ASSUME NEW r \in T PROVE r + 1 \in T
  <2>1. SUFFICES ASSUME r + 1 <= s.headRev PROVE ReplayTo(s, r + 1) \in Text
    OBVIOUS
  <2>2. r \in Nat /\ r + 1 \in 1..s.headRev /\ (r + 1) - 1 = r
    BY <2>1 DEF Sound
  <2> DEFINE c == s.revisionLog[r + 1].changeset
             p == ReplayTo(s, r)
  <2>3. Suits(p, c)
    BY <2>2 DEF Sound
  <2>4. ReplayTo(s, r + 1) = ApplyChangeset(p, c)
    BY <2>2, ReplayIs
  <2> HIDE DEF c, p
  <2>. QED
    BY <2>3, <2>4, SuitsText
<1> HIDE DEF T
<1>3. \A r \in Nat : r \in T
  <2>1. T \subseteq Nat
    BY DEF T
  <2>. QED
    BY <1>1, <1>2, <2>1, SetInduction
<1>. QED
  BY <1>3 DEF T, Sound

\* Catching up keeps the form, also of a changeset that fits no text.
LEMMA TransformedFormed ==
    ASSUME NEW s, Sound(s), NEW e, e.base \in Nat, Formed(e.changeset)
    PROVE  Formed(Transformed(s, e))
<1>1. PICK f : /\ Transformed(s, e) = f[s.headRev]
               /\ \A r \in 0..s.headRev : f[r] = CatchUpStep(f, s, e, r)
  BY TransformedIs DEF Sound
<1> DEFINE T == {r \in Nat : r <= s.headRev => Formed(f[r])}
<1>2. 0 \in T
  BY <1>1 DEF CatchUpStep, Sound
<1>3. ASSUME NEW r \in T PROVE r + 1 \in T
  <2>1. SUFFICES ASSUME r + 1 <= s.headRev PROVE Formed(f[r + 1])
    OBVIOUS
  <2>2. r \in Nat /\ r + 1 \in 1..s.headRev /\ (r + 1) - 1 = r /\ Formed(f[r])
    BY <2>1 DEF Sound
  <2> DEFINE A == s.revisionLog[r + 1].changeset
             B == f[r]
  <2>3. f[r + 1] = IF r + 1 <= e.base THEN e.changeset ELSE Follow(A, B)
    BY <1>1, <2>2 DEF CatchUpStep
  <2>4. Formed(A) /\ Formed(B)
    BY <2>2 DEF Sound, Suits, Formed
  <2> HIDE DEF A, B
  <2>5. Formed(Follow(A, B))
    BY <2>4, FollowNormal DEF Formed
  <2>. QED
    BY <2>3, <2>5
<1> HIDE DEF T
<1>4. \A r \in Nat : r \in T
  <2>1. T \subseteq Nat
    BY DEF T
  <2>. QED
    BY <1>2, <1>3, <2>1, SetInduction
<1>. QED
  BY <1>1, <1>4 DEF T, Sound

\* A changeset that suits the revision it was made on is caught up to one that
\* suits the head, and inserts the same text.
LEMMA TransformedSuits ==
    ASSUME NEW s, Sound(s), NEW e, e.base \in 0..s.headRev,
           Suits(ReplayTo(s, e.base), e.changeset)
    PROVE  /\ Suits(s.headText, Transformed(s, e))
           /\ Inserted(Transformed(s, e).ops) = Inserted(e.changeset.ops)
<1>0. e.base \in Nat /\ s.headRev \in Nat /\ e.base <= s.headRev
  BY DEF Sound
<1>1. PICK f : /\ Transformed(s, e) = f[s.headRev]
               /\ \A r \in 0..s.headRev : f[r] = CatchUpStep(f, s, e, r)
  BY <1>0, TransformedIs
<1> DEFINE Good(r) == /\ Suits(ReplayTo(s, r), f[r])
                      /\ Inserted(f[r].ops) = Inserted(e.changeset.ops)
           T == {r \in Nat : e.base <= r /\ r <= s.headRev => Good(r)}
<1>2. Good(e.base)
  <2>1. f[e.base] = e.changeset
    BY <1>0, <1>1 DEF CatchUpStep
  <2>. QED
    BY <2>1
<1>3. 0 \in T
  <2>1. CASE e.base = 0
    <3> HIDE DEF Good
    <3>. QED
      BY <1>2, <2>1
  <2>2. CASE e.base # 0
    <3> HIDE DEF Good
    <3>. QED
      BY <1>0, <2>2
  <2>. QED
    BY <2>1, <2>2
<1>4. ASSUME NEW r \in T PROVE r + 1 \in T
  <2>1. SUFFICES ASSUME e.base <= r + 1, r + 1 <= s.headRev PROVE Good(r + 1)
    OBVIOUS
  <2>2. CASE e.base = r + 1
    <3> HIDE DEF Good, T
    <3>. QED
      BY <1>2, <2>2
  <2>3. CASE e.base # r + 1
    <3>1. r \in Nat /\ r + 1 \in 1..s.headRev /\ (r + 1) - 1 = r /\ ~(r + 1 <= e.base)
      BY <1>0, <2>1, <2>3
    <3>2. Good(r)
      <4>1. e.base <= r /\ r <= s.headRev
        BY <1>0, <2>1, <2>3, <3>1
      <4> HIDE DEF Good
      <4>. QED
        BY <4>1
    <3> DEFINE A == s.revisionLog[r + 1].changeset
               B == f[r]
               p == ReplayTo(s, r)
    <3>3. f[r + 1] = Follow(A, B)
      BY <1>1, <3>1 DEF CatchUpStep
    <3>4. Suits(p, A)
      BY <3>1 DEF Sound
    <3>5. ReplayTo(s, r + 1) = ApplyChangeset(p, A)
      BY <3>1, ReplayIs
    <3>6. Suits(p, B) /\ Inserted(B.ops) = Inserted(e.changeset.ops)
      BY <3>2
    <3> HIDE DEF A, B, p
    <3>7. /\ Suits(ApplyChangeset(p, A), Follow(A, B))
          /\ Inserted(Follow(A, B).ops) = Inserted(B.ops)
      BY <3>4, <3>6, FollowSuits
    <3>. QED
      BY <3>3, <3>5, <3>6, <3>7
  <2>. QED
    BY <2>2, <2>3
<1> HIDE DEF T
<1>5. \A r \in Nat : r \in T
  <2>1. T \subseteq Nat
    BY DEF T
  <2>. QED
    BY <1>3, <1>4, <2>1, SetInduction
<1>6. Good(s.headRev)
  <2> HIDE DEF Good
  <2>. QED
    BY <1>0, <1>5 DEF T
<1>. QED
  BY <1>1, <1>6 DEF Sound

\* A sound log stays sound: what Apply accepts is a revision of the head text.
LEMMA ApplySound ==
    ASSUME NEW s, Sound(s), Len(s.revisionLog) = s.headRev, IsSeq(s.revisionLog),
           NEW e, e.base \in Nat, Formed(e.changeset)
    PROVE  /\ Sound(ApplyEntry(s, e))
           /\ \A r \in 0..s.headRev : ReplayTo(ApplyEntry(s, e), r) = ReplayTo(s, r)
<1>1. CASE Outcome(s, e) # "applied"
  BY <1>1 DEF ApplyEntry
<1>2. CASE Outcome(s, e) = "applied"
  <2> DEFINE C == Transformed(s, e)
             rec == RevisionRecord(s, e, C)
             t == ApplyEntry(s, e)
             n == s.headRev
             p == s.headText
  <2>1. /\ t.headText = ApplyChangeset(p, C)
        /\ t.headRev = n + 1
        /\ t.revisionLog = Append(s.revisionLog, rec)
        /\ rec.changeset = C
    BY <1>2 DEF ApplyEntry, Accept, RevisionRecord
  <2>2. Applicable(p, C)
    BY <1>2 DEF Outcome
  <2>3. Formed(C)
    BY TransformedFormed
  <2>4. n \in Nat /\ p = ReplayTo(s, n) /\ p \in Text
    BY SoundTexts DEF Sound
  <2> HIDE DEF C, rec, t, p
  <2>5. Suits(p, C)
    BY <2>2, <2>3, <2>4, FormedSuits
  <2>6. /\ \A r \in 1..n : t.revisionLog[r] = s.revisionLog[r]
        /\ t.revisionLog[n + 1] = rec
    BY <2>1, AppendSeq
  <2>7. \A r \in 0..n : ReplayTo(t, r) = ReplayTo(s, r)
    <3> HIDE DEF n
    <3>. QED
      BY <2>4, <2>6, ReplaySame
  <2>8. ReplayTo(t, n + 1) = ApplyChangeset(p, C)
    <3>1. n \in Nat /\ n \in 0..n /\ t.revisionLog[n + 1].changeset = C
      BY <2>1, <2>4, <2>6
    <3>2. ReplayTo(t, n) = p
      BY <2>4, <2>7, <3>1
    <3> HIDE DEF n
    <3>3. ReplayTo(t, n + 1) = ApplyChangeset(ReplayTo(t, n), t.revisionLog[n + 1].changeset)
      BY ONLY <3>1, ReplayIs
    <3>. QED
      BY <3>1, <3>2, <3>3
  <2>9. \A r \in 1..n + 1 : Suits(ReplayTo(t, r - 1), t.revisionLog[r].changeset)
    <3>1. ASSUME NEW r \in 1..n PROVE Suits(ReplayTo(t, r - 1), t.revisionLog[r].changeset)
      <4>1. r - 1 \in 0..n
        BY <2>4
      <4>2. ReplayTo(t, r - 1) = ReplayTo(s, r - 1) /\ t.revisionLog[r] = s.revisionLog[r]
        BY <2>6, <2>7, <4>1
      <4>. QED
        BY <4>2 DEF Sound
    <3>2. Suits(ReplayTo(t, n), t.revisionLog[n + 1].changeset)
      BY <2>1, <2>4, <2>5, <2>6, <2>7
    <3>3. \A r \in 1..n + 1 : r \in 1..n \/ (r = n + 1 /\ r - 1 = n)
      BY <2>4
    <3>. QED
      BY <3>1, <3>2, <3>3
  <2>10. Sound(t)
    BY <2>1, <2>4, <2>8, <2>9 DEF Sound
  <2>. QED
    BY <2>7, <2>10 DEF t
<1>. QED
  BY <1>1, <1>2

\* An entry whose changeset suits the revision it names is applied, unless it
\* repeats a submission.
LEMMA SuitingApplies ==
    ASSUME NEW s, Sound(s), NEW e, e.base \in 0..s.headRev,
           Suits(ReplayTo(s, e.base), e.changeset)
    PROVE  Outcome(s, e) # "failed"
<1>1. Applicable(s.headText, Transformed(s, e))
  BY TransformedSuits, SuitsIsValid
<1>. QED
  BY <1>1 DEF Outcome

\* Catching up brings in only retains that were not among the operations.
LEMMA TransformedWithin ==
    ASSUME NEW S, Closed(S), NEW s, Sound(s), NEW e, e.base \in Nat, e.changeset.ops \in Seq(S)
    PROVE  Transformed(s, e).ops \in Seq(S)
<1>1. PICK f : /\ Transformed(s, e) = f[s.headRev]
               /\ \A r \in 0..s.headRev : f[r] = CatchUpStep(f, s, e, r)
  BY TransformedIs DEF Sound
<1> DEFINE T == {r \in Nat : r <= s.headRev => f[r].ops \in Seq(S)}
<1>2. 0 \in T
  BY <1>1 DEF CatchUpStep, Sound
<1>3. ASSUME NEW r \in T PROVE r + 1 \in T
  <2>1. SUFFICES ASSUME r + 1 <= s.headRev PROVE f[r + 1].ops \in Seq(S)
    OBVIOUS
  <2>2. r \in Nat /\ r + 1 \in 1..s.headRev /\ (r + 1) - 1 = r /\ f[r].ops \in Seq(S)
    BY <2>1 DEF Sound
  <2> DEFINE A == s.revisionLog[r + 1].changeset
             B == f[r]
  <2>3. f[r + 1] = IF r + 1 <= e.base THEN e.changeset ELSE Follow(A, B)
    BY <1>1, <2>2 DEF CatchUpStep
  <2>4. A.ops \in Seq(Op) /\ B.ops \in Seq(S)
    BY <2>2 DEF Sound, Suits, Changeset
  <2> HIDE DEF A, B
  <2>5. Follow(A, B).ops \in Seq(S)
    <3>1. FollowLoop[Pair(A.ops, B.ops, <<>>)] \in Seq(S)
      BY <2>4, FollowWithin
    <3>. QED
      BY <3>1 DEF Follow, Pair
  <2>. QED
    BY <2>3, <2>5
<1> HIDE DEF T
<1>4. \A r \in Nat : r \in T
  <2>1. T \subseteq Nat
    BY DEF T
  <2>. QED
    BY <1>2, <1>3, <2>1, SetInduction
<1>. QED
  BY <1>1, <1>4 DEF T, Sound

-------------------------------------------------------------------------------
(* Catching up in parts.                                                   *)

\* The revision log as far as a catch-up to revision r reads it.
Until(s, r) == [headRev |-> r, revisionLog |-> s.revisionLog]

\* The changeset cs of revision b, caught up to revision r.
CaughtUpBy(s, cs, b, r) == Transformed(Until(s, r), [base |-> b, changeset |-> cs])

Catches(f, s, e, n) == \A r \in 0..n : f[r] = CatchUpStep(f, s, e, r)

SameChangesets(s, t, n) == \A r \in 1..n : s.revisionLog[r].changeset = t.revisionLog[r].changeset

\* Catch-ups over the same changesets agree.
LEMMA CatchUpAgree ==
    ASSUME NEW s, NEW t, NEW e, NEW d, NEW n \in Nat, NEW f, NEW g,
           e.base \in Nat, e.base = d.base, e.changeset = d.changeset,
           SameChangesets(s, t, n), Catches(f, s, e, n), Catches(g, t, d, n)
    PROVE  \A r \in 0..n : f[r] = g[r]
<1> DEFINE T == {r \in Nat : r <= n => f[r] = g[r]}
<1>1. 0 \in T
  BY DEF Catches, CatchUpStep
<1>2. ASSUME NEW r \in T PROVE r + 1 \in T
  <2>1. SUFFICES ASSUME r + 1 <= n PROVE f[r + 1] = g[r + 1]
    OBVIOUS
  <2>2. r \in Nat /\ r + 1 \in 0..n /\ r + 1 \in 1..n /\ (r + 1) - 1 = r /\ f[r] = g[r]
    BY <2>1
  <2>3. /\ f[r + 1] = IF r + 1 <= e.base THEN e.changeset
                      ELSE Follow(s.revisionLog[r + 1].changeset, f[r])
        /\ g[r + 1] = IF r + 1 <= d.base THEN d.changeset
                      ELSE Follow(t.revisionLog[r + 1].changeset, g[r])
    BY <2>2 DEF Catches, CatchUpStep
  <2>. QED
    BY <2>2, <2>3 DEF SameChangesets
<1> HIDE DEF T
<1>3. \A r \in Nat : r \in T
  <2>1. T \subseteq Nat
    BY DEF T
  <2>. QED
    BY <1>1, <1>2, <2>1, SetInduction
<1>. QED
  BY <1>3 DEF T

\* What is caught up depends on no more than the changesets it is caught up over.
LEMMA CatchUpReads ==
    ASSUME NEW s, NEW t, NEW e, NEW d,
           s.headRev \in Nat, t.headRev = s.headRev,
           e.base \in Nat, e.base = d.base, e.changeset = d.changeset,
           \A r \in 1..s.headRev : s.revisionLog[r].changeset = t.revisionLog[r].changeset
    PROVE  Transformed(s, e) = Transformed(t, d)
<1>1. PICK f : /\ Transformed(s, e) = f[s.headRev]
               /\ \A r \in 0..s.headRev : f[r] = CatchUpStep(f, s, e, r)
  BY TransformedIs
<1>2. PICK g : /\ Transformed(t, d) = g[t.headRev]
               /\ \A r \in 0..t.headRev : g[r] = CatchUpStep(g, t, d, r)
  BY TransformedIs
<1> DEFINE n == s.headRev
<1>3. /\ n \in Nat /\ n \in 0..n /\ SameChangesets(s, t, n)
      /\ Catches(f, s, e, n) /\ Catches(g, t, d, n)
  BY <1>1, <1>2 DEF SameChangesets, Catches
<1>4. Transformed(s, e) = f[n] /\ Transformed(t, d) = g[n]
  BY <1>1, <1>2
<1> HIDE DEF n
<1>5. \A r \in 0..n : f[r] = g[r]
  BY <1>3, CatchUpAgree
<1>. QED
  BY <1>3, <1>4, <1>5

\* The catch-up starts with the changeset, ...
LEMMA CaughtUpStart ==
    ASSUME NEW s, NEW cs, NEW b \in Nat
    PROVE  CaughtUpBy(s, cs, b, b) = cs
<1> DEFINE e == [base |-> b, changeset |-> cs]
<1>0. e.base = b /\ e.changeset = cs
  OBVIOUS
<1>1. Until(s, b).headRev = b
  BY DEF Until
<1> HIDE DEF e
<1>2. PICK f : /\ Transformed(Until(s, b), e) = f[b]
               /\ \A r \in 0..b : f[r] = CatchUpStep(f, Until(s, b), e, r)
  BY <1>0, <1>1, TransformedIs
<1>3. Transformed(Until(s, b), e) = cs
  BY <1>0, <1>2 DEF CatchUpStep
<1>. QED
  BY <1>3 DEF e, CaughtUpBy

\* ... and goes from revision to revision.
Steps(s, f, b) == \A r \in Nat : b <= r => f[r + 1] = Follow(s.revisionLog[r + 1].changeset, f[r])

\* ... and rebases it over one revision after another.
LEMMA CaughtUpNext ==
    ASSUME NEW s, NEW cs, NEW b \in Nat
    PROVE  \A r \in Nat : b <= r =>
              CaughtUpBy(s, cs, b, r + 1) = Follow(s.revisionLog[r + 1].changeset, CaughtUpBy(s, cs, b, r))
<1> DEFINE e == [base |-> b, changeset |-> cs]
<1>0. e.base = b /\ e.changeset = cs
  OBVIOUS
<1>1. \A r \in Nat : Until(s, r).headRev = r /\ Until(s, r).revisionLog = s.revisionLog
  BY DEF Until
<1> HIDE DEF e
<1>3. ASSUME NEW r \in Nat, b <= r
      PROVE  Transformed(Until(s, r + 1), e)
                = Follow(s.revisionLog[r + 1].changeset, Transformed(Until(s, r), e))
  <2>1. PICK f : /\ Transformed(Until(s, r + 1), e) = f[r + 1]
                 /\ \A i \in 0..r + 1 : f[i] = CatchUpStep(f, Until(s, r + 1), e, i)
    BY <1>0, <1>1, TransformedIs
  <2>2. PICK g : /\ Transformed(Until(s, r), e) = g[r]
                 /\ \A i \in 0..r : g[i] = CatchUpStep(g, Until(s, r), e, i)
    BY <1>0, <1>1, TransformedIs
  <2>3. /\ \A i \in 0..r : f[i] = CatchUpStep(f, Until(s, r + 1), e, i)
        /\ \A i \in 1..r : Until(s, r + 1).revisionLog[i].changeset = Until(s, r).revisionLog[i].changeset
    BY <1>1, <2>1
  <2>4. \A i \in 0..r : f[i] = g[i]
    <3>1. /\ Catches(f, Until(s, r + 1), e, r) /\ Catches(g, Until(s, r), e, r)
          /\ SameChangesets(Until(s, r + 1), Until(s, r), r)
      BY <2>2, <2>3 DEF SameChangesets, Catches
    <3>2. e.base \in Nat
      BY <1>0
    <3>. QED
      BY <3>1, <3>2, CatchUpAgree
  <2>5. f[r + 1] = Follow(s.revisionLog[r + 1].changeset, f[r])
    <3>1. f[r + 1] = CatchUpStep(f, Until(s, r + 1), e, r + 1) /\ (r + 1) - 1 = r /\ ~(r + 1 <= b)
      BY <1>3, <2>1
    <3>. QED
      BY <1>0, <1>1, <3>1 DEF CatchUpStep
  <2>. QED
    BY <2>1, <2>2, <2>4, <2>5
<1>. QED
  BY <1>3 DEF e, CaughtUpBy

\* Two that go on from the same changeset agree from there on.
LEMMA StepsAgree ==
    ASSUME NEW s, NEW f, NEW g, NEW b \in Nat, NEW m \in Nat, b <= m,
           Steps(s, f, b), Steps(s, g, m), g[m] = f[m]
    PROVE  \A r \in Nat : m <= r => g[r] = f[r]
<1> DEFINE T == {i \in Nat : g[m + i] = f[m + i]}
<1>3. 0 \in T
  OBVIOUS
<1>4. ASSUME NEW i \in T PROVE i + 1 \in T
  <2>1. m + i \in Nat /\ m <= m + i /\ b <= m + i /\ m + (i + 1) = (m + i) + 1
    OBVIOUS
  <2>2. /\ g[(m + i) + 1] = Follow(s.revisionLog[(m + i) + 1].changeset, g[m + i])
        /\ f[(m + i) + 1] = Follow(s.revisionLog[(m + i) + 1].changeset, f[m + i])
    BY <2>1 DEF Steps
  <2>. QED
    BY <2>1, <2>2
<1> HIDE DEF T
<1>5. \A i \in Nat : i \in T
  <2>1. T \subseteq Nat
    BY DEF T
  <2>. QED
    BY <1>3, <1>4, <2>1, SetInduction
<1>6. ASSUME NEW r \in Nat, m <= r PROVE g[r] = f[r]
  <2>1. r - m \in Nat /\ m + (r - m) = r
    BY <1>6
  <2>. QED
    BY <1>5, <2>1 DEF T
<1>. QED
  BY <1>6

\* Catching up to a revision in between comes to the same in the end.
LEMMA CaughtUpInParts ==
    ASSUME NEW s, NEW cs, NEW b \in Nat, NEW m \in Nat, b <= m
    PROVE  \A r \in Nat : m <= r =>
              CaughtUpBy(s, CaughtUpBy(s, cs, b, m), m, r) = CaughtUpBy(s, cs, b, r)
<1> DEFINE middle == CaughtUpBy(s, cs, b, m)
           f == [r \in Nat |-> CaughtUpBy(s, cs, b, r)]
           g == [r \in Nat |-> CaughtUpBy(s, middle, m, r)]
<1>1. Steps(s, f, b)
  <2>1. \A r \in Nat : b <= r =>
           CaughtUpBy(s, cs, b, r + 1) = Follow(s.revisionLog[r + 1].changeset, CaughtUpBy(s, cs, b, r))
    BY CaughtUpNext
  <2>. QED
    BY <2>1 DEF Steps
<1> HIDE DEF middle
<1>2. Steps(s, g, m) /\ g[m] = middle
  <2>1. CaughtUpBy(s, middle, m, m) = middle
    BY CaughtUpStart
  <2>2. \A r \in Nat : m <= r =>
           CaughtUpBy(s, middle, m, r + 1) = Follow(s.revisionLog[r + 1].changeset, CaughtUpBy(s, middle, m, r))
    BY CaughtUpNext
  <2>. QED
    BY <2>1, <2>2 DEF Steps
<1>3. g[m] = f[m]
  BY <1>2 DEF middle
<1> HIDE DEF f, g
<1>4. \A r \in Nat : m <= r => g[r] = f[r]
  BY ONLY b \in Nat, m \in Nat, b <= m, <1>1, <1>2, <1>3, StepsAgree
<1>. QED
  BY <1>4 DEF f, g, middle

-------------------------------------------------------------------------------
(* Catching up and the revision log.                                       *)

\* Later revisions change nothing of what is caught up to an earlier one.
LEMMA CaughtUpKept ==
    ASSUME NEW s, NEW t, NEW n \in Nat, \A r \in 1..n : t.revisionLog[r] = s.revisionLog[r],
           NEW cs, NEW b \in Nat, NEW r \in 0..n
    PROVE  CaughtUpBy(t, cs, b, r) = CaughtUpBy(s, cs, b, r)
<1> DEFINE e == [base |-> b, changeset |-> cs]
<1>1. /\ e.base = b /\ e.changeset = cs
      /\ Until(s, r).headRev = r /\ Until(t, r).headRev = r
      /\ Until(s, r).revisionLog = s.revisionLog /\ Until(t, r).revisionLog = t.revisionLog
  BY DEF Until
<1> HIDE DEF e
<1>2. /\ Until(s, r).headRev \in Nat
      /\ \A i \in 1..Until(s, r).headRev : Until(s, r).revisionLog[i].changeset = Until(t, r).revisionLog[i].changeset
  BY <1>1
<1>3. Transformed(Until(s, r), e) = Transformed(Until(t, r), e)
  BY <1>1, <1>2, CatchUpReads
<1>. QED
  BY <1>3 DEF CaughtUpBy, e

\* Apply catches an entry up to the head.
LEMMA TransformedIsCaughtUp ==
    ASSUME NEW s, s.headRev \in Nat, NEW e, e.base \in Nat
    PROVE  Transformed(s, e) = CaughtUpBy(s, e.changeset, e.base, s.headRev)
<1> DEFINE d == [base |-> e.base, changeset |-> e.changeset]
           t == Until(s, s.headRev)
<1>1. /\ d.base = e.base /\ d.changeset = e.changeset
      /\ t.headRev = s.headRev /\ t.revisionLog = s.revisionLog
  BY DEF Until
<1> HIDE DEF d, t
<1>2. \A i \in 1..s.headRev : s.revisionLog[i].changeset = t.revisionLog[i].changeset
  BY <1>1
<1>3. Transformed(s, e) = Transformed(t, d)
  BY <1>1, <1>2, CatchUpReads
<1>. QED
  BY <1>3 DEF CaughtUpBy, d, t

-------------------------------------------------------------------------------
(* Rebasing the identity, and what changes nothing.                        *)

\* A changeset in the form of the operations that the browser takes for the
\* identity is the identity.
LEMMA IsTheIdentity ==
    ASSUME NEW text, NEW c, Suits(text, c), isIdentity(c)
    PROVE  c = Identity(Len(text))
<1>1. /\ c \in Changeset /\ c.ops \in Seq(Plain) /\ c.ops \in Seq(Op)
      /\ c.old_len = Len(text) /\ Len(text) \in Nat /\ c.new_len = Len(text)
      /\ Consumed(c.ops) = Len(text) /\ Produced(c.ops) = Len(text)
  BY LenProperties DEF Suits, Fits, Normal, Text, Changeset, isIdentity
<1>2. CASE Len(text) = 0
  <2>1. c.ops = <<>>
    <3>1. SUFFICES ASSUME c.ops # <<>> PROVE FALSE
      OBVIOUS
    <3>2. Head(c.ops) \in Plain /\ Tail(c.ops) \in Seq(Plain) /\ Head(c.ops) \in Op /\ Tail(c.ops) \in Seq(Op)
      BY <1>1, <3>1, HeadTailProperties
    <3>3. Consumes(Head(c.ops)) \in Nat /\ Produces(Head(c.ops)) \in Nat
          /\ Consumed(Tail(c.ops)) \in Nat /\ Produced(Tail(c.ops)) \in Nat
      BY <3>2, OpTypes, ConsumedIs, ProducedIs
    <3>4. Consumes(Head(c.ops)) = 0 /\ Produces(Head(c.ops)) = 0
      BY <1>1, <1>2, <3>1, <3>3, ConsumedIs, ProducedIs
    <3>. QED
      BY <3>2, <3>4 DEF Plain, Op, Size, Consumes, Produces
  <2>. QED
    BY <1>1, <1>2, <2>1 DEF Identity, Changeset
<1>3. CASE Len(text) # 0
  <2>1. Len(c.ops) = 1 /\ c.ops[1].op = "retain" /\ c.ops[1].n = Len(text)
    BY <1>1, <1>3 DEF isIdentity
  <2>2. c.ops[1] \in Plain
    BY <1>1, <2>1, ElementOfSeq
  <2>3. c.ops[1] = Retain(Len(text))
    BY <2>1, <2>2, PlainOps
  <2>4. c.ops = <<Retain(Len(text))>>
    BY <1>1, <2>1, <2>3
  <2>. QED
    BY <1>1, <1>3, <2>4 DEF Identity, Changeset
<1>. QED
  BY <1>2, <1>3

\* Rebased, the identity is taken for the identity.
LEMMA FollowKeepsIdentity ==
    ASSUME NEW text, NEW A, NEW B, Suits(text, A), Suits(text, B), isIdentity(B)
    PROVE  isIdentity(Follow(A, B))
<1>1. B = Identity(Len(text))
  BY IsTheIdentity
<1>2. IsIdentity(Follow(A, B))
  BY <1>1, FollowIdentity
<1>. QED
  BY <1>2 DEF IsIdentity, isIdentity

\* An operation that is added adds to what a list consumes.
LEMMA AddOpConsumed ==
    ASSUME NEW out \in Seq(Op), NEW o \in Op
    PROVE  AddOp(out, o) \in Seq(Op) /\ Consumed(AddOp(out, o)) = Consumed(out) + Consumes(o)
<1> DEFINE p == [i \in 1..Consumed(out) |-> 0]
           x == [i \in 1..Consumes(o) |-> 0]
<1>1. Consumed(out) \in Nat /\ Consumes(o) \in Nat
  BY ConsumedIs, OpTypes
<1>2. p \in Text /\ Len(p) = Consumed(out) /\ x \in Text /\ Len(x) = Consumes(o)
  BY <1>1 DEF Text
<1>3. Fits(p, out)
  BY <1>2 DEF Fits
<1> HIDE DEF p, x
<1>4. Fits(p \o x, AddOp(out, o)) /\ Len(p \o x) = Len(p) + Len(x)
  BY <1>2, <1>3, AddOpRun, TextConcat
<1>. QED
  BY <1>2, <1>4 DEF Fits

\* What is left of "no change".
LEMMA ConsumeWhole ==
    ASSUME NEW n \in Nat, NEW k \in Nat \ {0}, k <= n
    PROVE  /\ Whole(n) \in Seq(Op) /\ Whole(n) # <<>>
           /\ Head(Whole(n)) = Retain(n) /\ Retain(n) \in Op /\ Size(Retain(n)) = n
           /\ Consume(Whole(n), k) = Whole(n - k)
<1> DEFINE w == <<Retain(n)>>
           r == Retain(n)
<1>1. Whole(n) = w /\ n \in Nat \ {0}
  BY DEF Whole
<1>2. r \in Op /\ Size(r) = n /\ r.op = "retain" /\ r.n = n /\ r.chars = <<>>
  BY OpsOf DEF Size, Retain
<1>3. w \in Seq(Op) /\ w # <<>> /\ Head(w) = r /\ Tail(w) = <<>>
  BY <1>2
<1> HIDE DEF w
<1>4. k \in 0..Size(Head(w))
  BY <1>2, <1>3
<1>5. CASE k = n
  <2>1. Consume(w, k) = <<>>
    BY <1>2, <1>3, <1>4, <1>5, ConsumeIs
  <2>2. Whole(n - k) = <<>>
    BY <1>5 DEF Whole
  <2>. QED
    BY <1>1, <1>2, <1>3, <2>1, <2>2
<1>6. CASE k # n
  <2>1. Consume(w, k) = <<Rest(r, k)>> \o <<>>
    BY <1>2, <1>3, <1>4, <1>6, ConsumeIs
  <2>2. Rest(r, k) = Retain(n - k)
    <3>1. SubSeq(<<>>, k + 1, Len(<<>>)) = <<>>
      OBVIOUS
    <3> HIDE DEF r
    <3>2. Rest(r, k) = [op |-> "retain", n |-> n - k, chars |-> SubSeq(<<>>, k + 1, Len(<<>>))]
      BY <1>2 DEF Rest
    <3>. QED
      BY <3>1, <3>2 DEF Retain
  <2>3. Retain(n - k) \in Op
    BY OpsOf
  <2>4. <<Retain(n - k)>> \o <<>> = <<Retain(n - k)>>
    BY <2>3, ConcatEmptySeq
  <2>5. Whole(n - k) = <<Retain(n - k)>>
    BY <1>6 DEF Whole
  <2>. QED
    BY <1>1, <1>2, <1>3, <2>1, <2>2, <2>4, <2>5
<1>. QED
  BY <1>1, <1>2, <1>3, <1>5, <1>6

\* Where the loop of Follow goes from a state of it: to the end, ...
LEMMA FollowStops ==
    ASSUME NEW a \in Seq(Op), NEW b \in Seq(Op), NEW out \in Seq(Op),
           ~At(a, "insert"), ~At(b, "insert"), a = <<>> \/ b = <<>>
    PROVE  FollowLoop[Pair(a, b, out)] = out
<1>1. Pair(a, b, out) \in Cursors /\ FollowDone(Pair(a, b, out)) /\ Pair(a, b, out).out = out
  BY DEF Pair, Cursors, FollowDone
<1>. QED
  BY <1>1, FollowLoopIs

\* ... over an insertion of A, ...
LEMMA FollowOverA ==
    ASSUME NEW a \in Seq(Op), NEW b \in Seq(Op), NEW out \in Seq(Op),
           At(a, "insert"), ~At(b, "insert")
    PROVE  FollowLoop[Pair(a, b, out)] = FollowLoop[Pair(Tail(a), b, AddOp(out, Retain(Len(Head(a).chars))))]
<1> DEFINE s == Pair(a, b, out)
<1>1. s \in Cursors /\ ~FollowDone(s) /\ s.a = a /\ s.b = b /\ s.out = out
  BY DEF Pair, Cursors, FollowDone
<1> HIDE DEF s
<1>2. FollowStep(s) = Pair(Tail(a), b, AddOp(out, Retain(Len(Head(a).chars))))
  BY <1>1, FollowStepIs DEF Pair
<1>. QED
  BY <1>1, <1>2, FollowLoopIs DEF s

\* ... over one of B, ...
LEMMA FollowOverB ==
    ASSUME NEW a \in Seq(Op), NEW b \in Seq(Op), NEW out \in Seq(Op),
           ~At(a, "insert"), At(b, "insert")
    PROVE  FollowLoop[Pair(a, b, out)] = FollowLoop[Pair(a, Tail(b), AddOp(out, Insert(Head(b).chars)))]
<1> DEFINE s == Pair(a, b, out)
<1>1. s \in Cursors /\ ~FollowDone(s) /\ s.a = a /\ s.b = b /\ s.out = out
  BY DEF Pair, Cursors, FollowDone
<1> HIDE DEF s
<1>2. FollowStep(s) = Pair(a, Tail(b), AddOp(out, Insert(Head(b).chars)))
  BY <1>1, FollowStepIs DEF Pair
<1>. QED
  BY <1>1, <1>2, FollowLoopIs DEF s

\* ... or over what both address.
LEMMA FollowOverBoth ==
    ASSUME NEW a \in Seq(Op), NEW b \in Seq(Op), NEW out \in Seq(Op),
           ~At(a, "insert"), ~At(b, "insert"), a # <<>>, b # <<>>,
           NEW k, k = Shorter(Head(a), Head(b))
    PROVE  FollowLoop[Pair(a, b, out)]
              = FollowLoop[Pair(Consume(a, k), Consume(b, k), FollowSource(Head(a), Head(b), k, out))]
<1> DEFINE s == Pair(a, b, out)
<1>1. s \in Cursors /\ ~FollowDone(s) /\ s.a = a /\ s.b = b /\ s.out = out
  BY DEF Pair, Cursors, FollowDone
<1> HIDE DEF s
<1>2. FollowStep(s) = Pair(Consume(a, k), Consume(b, k), FollowSource(Head(a), Head(b), k, out))
  BY <1>1, FollowStepIs DEF Pair
<1>. QED
  BY <1>1, <1>2, FollowLoopIs DEF s

\* What is rebased over "no change" of whatever length consumes no more than before.
LEMMA RebasedConsumes ==
    ASSUME NEW b \in Seq(Op), Normal(b), NEW m \in Nat
    PROVE  Consumed(FollowLoop[Pair(Whole(m), b, <<>>)]) <= Consumed(b)
<1> DEFINE U(q) == \A n \in Nat, out \in Seq(Op) :
                     Consumed(FollowLoop[Pair(Whole(n), q, out)]) <= Consumed(out) + Consumed(q)
           T == {q \in Seq(Op) : Normal(q) => U(q)}
<1>0. \A n \in Nat : Whole(n) \in Seq(Op) /\ ~At(Whole(n), "insert") /\ (n = 0 => Whole(n) = <<>>)
  <2>1. SUFFICES ASSUME NEW n \in Nat PROVE Whole(n) \in Seq(Op) /\ ~At(Whole(n), "insert") /\ (n = 0 => Whole(n) = <<>>)
    OBVIOUS
  <2>2. CASE n = 0
    BY <2>2, EmptySeq DEF Whole, At
  <2>3. CASE n # 0
    <3>1. Whole(n) \in Seq(Op) /\ Head(Whole(n)) = Retain(n)
      BY <2>3, ConsumeWhole
    <3>. QED
      BY <2>3, <3>1 DEF At, Retain
  <2>. QED
    BY <2>2, <2>3
<1>1. <<>> \in T
  <2>1. SUFFICES ASSUME NEW n \in Nat, NEW out \in Seq(Op)
                 PROVE  Consumed(FollowLoop[Pair(Whole(n), <<>>, out)]) <= Consumed(out) + Consumed(<<>>)
    BY EmptySeq
  <2>2. FollowLoop[Pair(Whole(n), <<>>, out)] = out
    BY <1>0, EmptySeq, FollowStops DEF At
  <2>. QED
    BY <2>2, ConsumedIs
<1>2. ASSUME NEW q \in Seq(Op), q # <<>>, Tail(q) \in T PROVE q \in T
  <2>1. SUFFICES ASSUME Normal(q), NEW n \in Nat, NEW out \in Seq(Op)
                 PROVE  Consumed(FollowLoop[Pair(Whole(n), q, out)]) <= Consumed(out) + Consumed(q)
    OBVIOUS
  <2> DEFINE h == Head(q)
             r == Tail(q)
             k == Size(h)
  <2>2. /\ h \in Plain /\ h \in Op /\ r \in Seq(Op) /\ k \in Nat \ {0} /\ U(r)
        /\ Consumed(q) = Consumes(h) + Consumed(r)
        /\ Consumed(r) \in Nat /\ Consumed(out) \in Nat /\ Consumes(h) \in Nat
    BY <1>2, <2>1, NormalTail, HeadAndTail, PlainOps, ConsumedIs, OpTypes
  <2>3. CASE h.op = "insert"
    <3> DEFINE o == AddOp(out, Insert(h.chars))
    <3>1. o \in Seq(Op) /\ Consumed(o) = Consumed(out) /\ Consumes(h) = 0
      <4>1. Insert(h.chars) \in Op /\ Consumes(Insert(h.chars)) = 0 /\ Consumes(h) = 0
        BY <2>2, <2>3, OpsOf DEF Op, Consumes, Insert
      <4>. QED
        BY <2>2, <4>1, AddOpConsumed
    <3>2. FollowLoop[Pair(Whole(n), q, out)] = FollowLoop[Pair(Whole(n), r, o)]
      BY <1>0, <1>2, <2>3, FollowOverB, SMTT(40) DEF At
    <3> HIDE DEF o, h, r
    <3>. QED
      BY <2>2, <3>1, <3>2
  <2>4. CASE h.op # "insert" /\ n = 0
    <3>1. FollowLoop[Pair(Whole(n), q, out)] = out
      BY <1>0, <2>4, FollowStops DEF At
    <3> HIDE DEF h, r
    <3>. QED
      BY <2>2, <3>1
  <2>5. CASE h.op # "insert" /\ n # 0
    <3> DEFINE j == Shorter(Retain(n), h)
               o == FollowSource(Retain(n), h, j, out)
    <3>1. /\ j \in Nat \ {0} /\ j <= n /\ j <= k /\ (j = n \/ j = k)
          /\ Whole(n) # <<>> /\ Head(Whole(n)) = Retain(n)
          /\ Consume(Whole(n), j) = Whole(n - j) /\ n - j \in Nat
      <4>1. Size(Retain(n)) = n /\ Retain(n) \in Op
        BY <2>5, ConsumeWhole
      <4>2. j \in Nat \ {0} /\ j <= n /\ j <= k /\ (j = n \/ j = k)
        BY <2>2, <2>5, <4>1 DEF Shorter
      <4> HIDE DEF j
      <4>3. Whole(n) # <<>> /\ Head(Whole(n)) = Retain(n) /\ Consume(Whole(n), j) = Whole(n - j)
        BY ONLY n \in Nat, <4>2, ConsumeWhole
      <4>. QED
        BY <4>2, <4>3
    <3> HIDE DEF j
    <3>2. o \in Seq(Op) /\ Consumed(o) = Consumed(out) + j
      <4>1. h.op \in {"retain", "delete"}
        BY <2>2, <2>5 DEF Op
      <4>2. /\ Retain(j) \in Op /\ Consumes(Retain(j)) = j
            /\ Delete(j) \in Op /\ Consumes(Delete(j)) = j
        <5>1. j \in Nat
          BY <3>1
        <5>2. Retain(j) \in Op /\ Delete(j) \in Op
          BY <5>1, OpsOf
        <5>. QED
          BY <5>2 DEF Consumes, Retain, Delete
      <4>3. o = AddOp(out, Retain(j)) \/ o = AddOp(out, Delete(j))
        BY <4>1 DEF FollowSource, Retain
      <4> HIDE DEF o
      <4>. QED
        BY <4>2, <4>3, AddOpConsumed
    <3>3. FollowLoop[Pair(Whole(n), q, out)] = FollowLoop[Pair(Whole(n - j), Consume(q, j), o)]
      <4>1. ~At(q, "insert")
        BY <2>5 DEF At
      <4>2. j = Shorter(Head(Whole(n)), Head(q))
        BY <3>1 DEF j
      <4> DEFINE v == Whole(n)
      <4>3. v \in Seq(Op) /\ ~At(v, "insert") /\ v # <<>> /\ Head(v) = Retain(n)
        BY <1>0, <3>1
      <4> HIDE DEF v
      <4>4. FollowLoop[Pair(v, q, out)]
               = FollowLoop[Pair(Consume(v, j), Consume(q, j), FollowSource(Head(v), Head(q), j, out))]
        BY <1>2, <4>1, <4>2, <4>3, FollowOverBoth DEF v
      <4>. QED
        BY <3>1, <4>3, <4>4 DEF v
    <3> HIDE DEF o
    <3>4. Consumes(h) = k
      BY <2>5 DEF Consumes, Size
    <3>5. CASE j = k
      <4>1. Consume(q, j) = r
        <5>1. j \in 0..Size(Head(q)) /\ j = Size(Head(q))
          BY <2>2, <3>1, <3>5
        <5>. QED
          BY <1>2, <5>1, ConsumeIs
      <4>2. Consumed(FollowLoop[Pair(Whole(n - j), r, o)]) <= Consumed(o) + Consumed(r)
        <5> DEFINE i == n - j
        <5>1. i \in Nat
          BY <3>1
        <5> HIDE DEF i, r
        <5>. QED
          BY <2>2, <3>2, <5>1 DEF i
      <4> HIDE DEF r, h, k
      <4>. QED
        BY <2>2, <3>2, <3>3, <3>4, <3>5, <4>1, <4>2
    <3>6. CASE j # k
      <4>1. Consume(q, j) = <<Rest(h, j)>> \o r /\ Rest(h, j) \in Op /\ Rest(h, j).op = h.op
        <5>1. j \in 0..Size(h) /\ j # Size(h)
          BY <2>2, <3>1, <3>6
        <5>. QED
          BY <1>2, <2>2, <5>1, ConsumeIs, RestIs
      <4> DEFINE e == Rest(h, j)
                 w == <<e>> \o r
      <4>2. w \in Seq(Op) /\ Head(w) = e
        BY <2>2, <4>1, ConsSeq
      <4>3. ~At(w, "insert")
        BY <2>5, <4>1, <4>2 DEF At
      <4>4. n - j = 0
        BY <3>1, <3>6
      <4> HIDE DEF w
      <4>5. FollowLoop[Pair(Whole(n - j), w, o)] = o
        <5>1. Whole(n - j) = <<>>
          BY <1>0, <4>4
        <5>2. FollowLoop[Pair(<<>>, w, o)] = o
          BY <3>2, <4>2, <4>3, EmptySeq, FollowStops DEF At
        <5>. QED
          BY <5>1, <5>2
      <4> HIDE DEF h, r, k, e
      <4>6. FollowLoop[Pair(Whole(n), q, out)] = o
        BY <3>3, <4>1, <4>5 DEF w, e
      <4>. QED
        BY <2>2, <3>1, <3>2, <3>4, <4>6
    <3>. QED
      BY <3>5, <3>6
  <2>. QED
    BY <2>3, <2>4, <2>5
<1> HIDE DEF T
<1>3. b \in T
  BY <1>1, <1>2, ListInduction
<1>4. Consumed(FollowLoop[Pair(Whole(m), b, <<>>)]) <= Consumed(<<>>) + Consumed(b)
  BY <1>3, EmptySeq DEF T
<1>. QED
  BY <1>4, ConsumedIs

\* "No change", of enough characters, rebased over operations retains what they produce.
LEMMA NoChangeRetains ==
    ASSUME NEW a \in Seq(Op), Normal(a), NEW m \in Nat, Consumed(a) <= m
    PROVE  Consumed(FollowLoop[Pair(a, Whole(m), <<>>)]) = Produced(a)
<1> DEFINE U(q) == \A n \in Nat, out \in Seq(Op) : Consumed(q) <= n =>
                     Consumed(FollowLoop[Pair(q, Whole(n), out)]) = Consumed(out) + Produced(q)
           T == {q \in Seq(Op) : Normal(q) => U(q)}
<1>0. \A n \in Nat : Whole(n) \in Seq(Op) /\ ~At(Whole(n), "insert") /\ (n = 0 => Whole(n) = <<>>)
  <2>1. SUFFICES ASSUME NEW n \in Nat PROVE Whole(n) \in Seq(Op) /\ ~At(Whole(n), "insert") /\ (n = 0 => Whole(n) = <<>>)
    OBVIOUS
  <2>2. CASE n = 0
    BY <2>2, EmptySeq DEF Whole, At
  <2>3. CASE n # 0
    <3>1. Whole(n) \in Seq(Op) /\ Head(Whole(n)) = Retain(n)
      BY <2>3, ConsumeWhole
    <3>. QED
      BY <2>3, <3>1 DEF At, Retain
  <2>. QED
    BY <2>2, <2>3
<1>1. <<>> \in T
  <2>1. SUFFICES ASSUME NEW n \in Nat, NEW out \in Seq(Op)
                 PROVE  Consumed(FollowLoop[Pair(<<>>, Whole(n), out)]) = Consumed(out) + Produced(<<>>)
    BY EmptySeq
  <2>2. FollowLoop[Pair(<<>>, Whole(n), out)] = out
    BY <1>0, EmptySeq, FollowStops DEF At
  <2>. QED
    BY <2>2, ConsumedIs, ProducedIs
<1>2. ASSUME NEW q \in Seq(Op), q # <<>>, Tail(q) \in T PROVE q \in T
  <2>1. SUFFICES ASSUME Normal(q), NEW n \in Nat, NEW out \in Seq(Op), Consumed(q) <= n
                 PROVE  Consumed(FollowLoop[Pair(q, Whole(n), out)]) = Consumed(out) + Produced(q)
    OBVIOUS
  <2> DEFINE h == Head(q)
             r == Tail(q)
             k == Size(h)
  <2>2. /\ h \in Plain /\ h \in Op /\ r \in Seq(Op) /\ k \in Nat \ {0} /\ U(r)
        /\ Consumed(q) = Consumes(h) + Consumed(r) /\ Produced(q) = Produces(h) + Produced(r)
        /\ Consumed(r) \in Nat /\ Consumed(out) \in Nat /\ Consumes(h) \in Nat
        /\ Produced(r) \in Nat /\ Produces(h) \in Nat
    BY <1>2, <2>1, NormalTail, HeadAndTail, PlainOps, ConsumedIs, ProducedIs, OpTypes
  <2>3. CASE h.op = "insert"
    <3> DEFINE l == Len(h.chars)
               o == AddOp(out, Retain(l))
    <3>1. o \in Seq(Op) /\ Consumed(o) = Consumed(out) + l /\ Consumes(h) = 0 /\ Produces(h) = l
      <4>1. l \in Nat /\ Consumes(h) = 0 /\ Produces(h) = l
        BY <2>2, <2>3, OpTypes DEF Consumes, Produces
      <4> HIDE DEF l
      <4>2. Retain(l) \in Op /\ Consumes(Retain(l)) = l
        BY <4>1, OpsOf DEF Consumes, Retain
      <4>. QED
        BY <4>1, <4>2, AddOpConsumed
    <3>2. FollowLoop[Pair(q, Whole(n), out)] = FollowLoop[Pair(r, Whole(n), o)]
      BY <1>0, <1>2, <2>3, FollowOverA DEF At
    <3> HIDE DEF o, h, r, l
    <3>3. Consumed(r) <= n
      BY <2>1, <2>2, <3>1
    <3>4. Consumed(FollowLoop[Pair(r, Whole(n), o)]) = Consumed(o) + Produced(r)
      BY <2>2, <3>1, <3>3
    <3>5. l \in Nat
      BY <2>2, <3>1
    <3>. QED
      BY <2>2, <3>1, <3>2, <3>4, <3>5
  <2>4. CASE h.op # "insert"
    <3> DEFINE o == FollowSource(h, Retain(n), k, out)
               i == n - k
    <3>1. Consumes(h) = k /\ k <= n /\ n \in Nat \ {0} /\ i \in Nat
      <4>1. Consumes(h) = k
        BY <2>4 DEF Consumes, Size
      <4> HIDE DEF k
      <4>. QED
        BY <2>1, <2>2, <4>1
    <3>2. /\ Whole(n) # <<>> /\ Head(Whole(n)) = Retain(n) /\ Size(Retain(n)) = n
          /\ Consume(Whole(n), k) = Whole(i)
      <4> HIDE DEF k
      <4>. QED
        BY <2>2, <3>1, ConsumeWhole
    <3>3. Shorter(h, Retain(n)) = k /\ Consume(q, k) = r
      <4>1. Shorter(h, Retain(n)) = k
        BY <2>2, <3>1, <3>2 DEF Shorter
      <4>2. k \in 0..Size(h)
        BY <2>2
      <4>. QED
        BY <1>2, <4>1, <4>2, ConsumeIs
    <3>4. o \in Seq(Op) /\ Consumed(o) = Consumed(out) + Produces(h)
      <4>1. h.op \in {"retain", "delete"}
        BY <2>2, <2>4 DEF Op
      <4>2. CASE h.op = "retain"
        <5> HIDE DEF k
        <5>1. Retain(k) \in Op /\ Consumes(Retain(k)) = k
          BY <2>2, OpsOf DEF Consumes, Retain
        <5>2. Produces(h) = k
          BY <3>1, <4>2 DEF Consumes, Produces
        <5>3. o = AddOp(out, Retain(k))
          BY <4>2 DEF FollowSource, Retain
        <5>. QED
          BY <5>1, <5>2, <5>3, AddOpConsumed
      <4>3. CASE h.op = "delete"
        <5>1. o = out
          BY <4>3 DEF FollowSource
        <5>2. Produces(h) = 0
          BY <4>3 DEF Produces
        <5>. QED
          BY <2>2, <5>1, <5>2
      <4>. QED
        BY <4>1, <4>2, <4>3
    <3>5. FollowLoop[Pair(q, Whole(n), out)] = FollowLoop[Pair(r, Whole(i), o)]
      <4>1. ~At(q, "insert")
        BY <2>4 DEF At
      <4> DEFINE v == Whole(n)
      <4>2. v \in Seq(Op) /\ ~At(v, "insert") /\ v # <<>> /\ Head(v) = Retain(n)
            /\ Consume(v, k) = Whole(i)
        BY <1>0, <3>1, <3>2
      <4> HIDE DEF v, i
      <4>3. k = Shorter(Head(q), Head(v))
        BY <3>3, <4>2
      <4> HIDE DEF k
      <4>4. FollowLoop[Pair(q, v, out)]
               = FollowLoop[Pair(Consume(q, k), Consume(v, k), FollowSource(Head(q), Head(v), k, out))]
        BY <1>2, <4>1, <4>2, <4>3, FollowOverBoth
      <4>. QED
        BY <3>3, <4>2, <4>4 DEF v
    <3> HIDE DEF o
    <3>6. Consumed(r) <= i
      <4> HIDE DEF k, r, h
      <4>. QED
        BY <2>1, <2>2, <3>1
    <3> HIDE DEF i, r, h, k
    <3>7. Consumed(FollowLoop[Pair(r, Whole(i), o)]) = Consumed(o) + Produced(r)
      BY <2>2, <3>1, <3>4, <3>6
    <3>. QED
      BY <2>2, <3>4, <3>5, <3>7
  <2>. QED
    BY <2>3, <2>4
<1> HIDE DEF T
<1>3. a \in T
  BY <1>1, <1>2, ListInduction
<1>4. Consumed(FollowLoop[Pair(a, Whole(m), <<>>)]) = Consumed(<<>>) + Produced(a)
  BY <1>3, EmptySeq DEF T
<1>. QED
  BY <1>4, ConsumedIs, ProducedIs

\* What a page without edits of its own makes of Y when it catches up with one
\* revision: Y may have the wrong length, but if not it suits the text.
LEMMA CaughtUpNoChange ==
    ASSUME NEW text, NEW C, Suits(text, C), NEW m \in Nat, NEW new \in Text,
           NEW Y, Y = Follow(Follow(Identity(m), C), Identity(Len(text))), Y.old_len = Len(new)
    PROVE  Suits(new, Y)
<1> DEFINE n == Len(text)
           I == Identity(m)
           J == Identity(n)
           D == Follow(I, C)
<1>1. /\ C \in Changeset /\ Normal(C.ops) /\ text \in Text /\ n \in Nat /\ Consumed(C.ops) = n
      /\ C.ops \in Seq(Op)
  BY TextNil DEF Suits, Fits
<1>2. \A k \in Nat : /\ Identity(k) \in Changeset /\ Normal(Identity(k).ops)
                      /\ Identity(k).ops = Whole(k)
  <2>1. SUFFICES ASSUME NEW k \in Nat
                 PROVE  /\ Identity(k) \in Changeset /\ Normal(Identity(k).ops)
                        /\ Identity(k).ops = Whole(k)
    OBVIOUS
  <2> DEFINE x == [i \in 1..k |-> 0]
  <2>2. x \in Text /\ Len(x) = k
    BY DEF Text
  <2> HIDE DEF x
  <2>3. Suits(x, Identity(k))
    BY <2>2, IdentitySuits
  <2>. QED
    BY <2>2, <2>3 DEF Suits, Identity, Whole
<1>3. D \in Changeset /\ Normal(D.ops) /\ D.new_len = Produced(D.ops)
      /\ D.ops = FollowLoop[Pair(Whole(m), C.ops, <<>>)]
  <2>1. I \in Changeset /\ Normal(I.ops) /\ I.ops = Whole(m)
    BY <1>2
  <2> HIDE DEF I
  <2>2. D.ops = FollowLoop[Pair(I.ops, C.ops, <<>>)]
    BY DEF Follow, Pair
  <2>. QED
    BY <1>1, <2>1, <2>2, FollowNormal
<1>4. Consumed(D.ops) <= n
  BY <1>1, <1>3, RebasedConsumes
<1> HIDE DEF D
<1>5. Y \in Changeset /\ Normal(Y.ops) /\ Y.new_len = Produced(Y.ops) /\ Y.old_len = D.new_len
      /\ Y.ops = FollowLoop[Pair(D.ops, Whole(n), <<>>)]
  <2>1. J \in Changeset /\ Normal(J.ops) /\ J.ops = Whole(n)
    BY <1>1, <1>2
  <2>2. Y = Follow(D, J)
    BY DEF D
  <2> HIDE DEF J
  <2>3. Follow(D, J).ops = FollowLoop[Pair(D.ops, J.ops, <<>>)] /\ Follow(D, J).old_len = D.new_len
    BY DEF Follow, Pair
  <2>. QED
    BY <1>3, <2>1, <2>2, <2>3, FollowNormal
<1>6. D.ops \in Seq(Op) /\ Y.ops \in Seq(Op)
  BY <1>3, <1>5 DEF Changeset
<1>7. Consumed(Y.ops) = Produced(D.ops)
  <2> HIDE DEF n
  <2>. QED
    BY <1>1, <1>3, <1>4, <1>5, <1>6, NoChangeRetains
<1>. QED
  BY <1>3, <1>5, <1>6, <1>7 DEF Suits, Fits

===============================================================================
