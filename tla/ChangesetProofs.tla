---------------------------- MODULE ChangesetProofs ----------------------------
(***************************************************************************)
(* The algebra of changesets, for every text and every changeset in the    *)
(* form the code makes.  A list of operations is read from its front: Run  *)
(* of a list is what its first operation makes of the part of the text it  *)
(* consumes, and Run of the others on the rest (RunCons).  With this law   *)
(* the loops of Follow and Compose are followed turn by turn, by induction *)
(* on what is left of the operands.                                        *)
(*                                                                         *)
(* The library's induction theorems take the induction hypothesis as an    *)
(* operator P(_), which the provers cannot instantiate.  The lemmas of the *)
(* first part take it as a set instead: the set of the elements that       *)
(* satisfy it.                                                             *)
(*                                                                         *)
(* The recursive functions of Changesets are CHOOSE expressions, so each   *)
(* is shown to exist first (ConsumedIs, ApplyIs, FollowLoopIs, SegmentsAre,*)
(* ComposeLoopIs).                                                         *)
(***************************************************************************)
EXTENDS ClientChangesets, Integers, Sequences, FiniteSets, TLAPS, SequenceTheorems,
        FiniteSetTheorems, WellFoundedInduction

-------------------------------------------------------------------------------
(* Sequences whose elements are of no particular set, which the proofs     *)
(* about logs and messages share too.                                      *)

\* A sequence, of whatever its elements are.
IsSeq(q) == q \in Seq({q[i] : i \in DOMAIN q})

\* A sequence extended by an element.
LEMMA AppendSeq ==
    ASSUME NEW q, IsSeq(q), NEW e
    PROVE  /\ IsSeq(Append(q, e))
           /\ Len(q) \in Nat
           /\ DOMAIN q = 1..Len(q)
           /\ Len(Append(q, e)) = Len(q) + 1
           /\ DOMAIN Append(q, e) = 1..Len(q) + 1
           /\ \A i \in 1..Len(q) : Append(q, e)[i] = q[i]
           /\ Append(q, e)[Len(q) + 1] = e
<1> DEFINE S == {q[i] : i \in DOMAIN q} \cup {e}
           r == Append(q, e)
<1>1. q \in Seq(S)
  BY DEF IsSeq
<1>2. r \in Seq(S) /\ Len(r) = Len(q) + 1 /\ Len(q) \in Nat
      /\ (\A i \in 1..Len(q) : r[i] = q[i]) /\ r[Len(q) + 1] = e
  BY <1>1, AppendProperties
<1>3. DOMAIN q = 1..Len(q) /\ DOMAIN r = 1..Len(q) + 1
  BY <1>1, <1>2, LenProperties
<1>4. r \in Seq({r[i] : i \in DOMAIN r})
  <2>1. r \in [1..Len(r) -> S]
    BY <1>2, LenProperties
  <2> DEFINE R == {r[i] : i \in DOMAIN r}
  <2>2. r \in [1..Len(r) -> R]
    BY <2>1
  <2>3. Len(r) \in Nat
    BY <1>2
  <2> HIDE DEF R, r
  <2>4. r \in Seq(R)
    BY <2>2, <2>3, SeqDef
  <2>. QED
    BY <2>4 DEF R
<1>. QED
  BY <1>2, <1>3, <1>4 DEF IsSeq

\* What is in a set's sequences is a sequence.
LEMMA OfSet ==
    ASSUME NEW S, NEW q \in Seq(S)
    PROVE  IsSeq(q)
<1> DEFINE R == {q[i] : i \in DOMAIN q}
<1>1. q \in [1..Len(q) -> S] /\ Len(q) \in Nat
  BY LenProperties
<1>2. q \in [1..Len(q) -> R]
  BY <1>1
<1> HIDE DEF R
<1>3. q \in Seq(R)
  BY <1>1, <1>2, SeqDef
<1>. QED
  BY <1>3 DEF IsSeq, R

\* A sequence without its first element.
LEMMA TailSeq ==
    ASSUME NEW q, IsSeq(q), q # << >>
    PROVE  /\ IsSeq(Tail(q)) /\ 1 \in DOMAIN q /\ Head(q) = q[1]
           /\ \A i \in DOMAIN Tail(q) : i + 1 \in DOMAIN q /\ Tail(q)[i] = q[i + 1]
<1> DEFINE S == {q[i] : i \in DOMAIN q}
<1>1. q \in Seq(S)
  BY DEF IsSeq
<1> HIDE DEF S
<1>2. /\ Tail(q) \in Seq(S) /\ Len(Tail(q)) = Len(q) - 1 /\ Len(q) \in Nat /\ Head(q) = q[1]
      /\ \A i \in 1..Len(Tail(q)) : Tail(q)[i] = q[i + 1]
  BY <1>1, HeadTailProperties, LenProperties
<1>3. DOMAIN q = 1..Len(q) /\ DOMAIN Tail(q) = 1..Len(Tail(q)) /\ Len(q) # 0
  BY <1>1, <1>2, LenProperties, EmptySeq
<1>4. IsSeq(Tail(q))
  BY <1>2, OfSet
<1>5. \A i \in DOMAIN Tail(q) : i + 1 \in DOMAIN q /\ Tail(q)[i] = q[i + 1]
  BY <1>2, <1>3
<1>. QED
  BY <1>2, <1>3, <1>4, <1>5

\* The first few elements of a sequence.
LEMMA PrefixSeq ==
    ASSUME NEW q, IsSeq(q), NEW k \in 0..Len(q)
    PROVE  /\ IsSeq(SubSeq(q, 1, k))
           /\ \A i \in DOMAIN SubSeq(q, 1, k) : i \in DOMAIN q /\ SubSeq(q, 1, k)[i] = q[i]
<1> DEFINE S == {q[i] : i \in DOMAIN q}
<1>1. q \in Seq(S)
  BY DEF IsSeq
<1> HIDE DEF S
<1>2. Len(q) \in Nat /\ DOMAIN q = 1..Len(q)
  BY <1>1, LenProperties
<1>3. SubSeq(q, 1, k) = [i \in 1..k |-> q[i]]
  BY <1>1, <1>2
<1>4. SubSeq(q, 1, k) \in Seq(S)
  BY <1>1, <1>2, <1>3
<1>5. IsSeq(SubSeq(q, 1, k))
  BY <1>4, OfSet
<1>6. \A i \in 1..k : i \in DOMAIN q
  BY <1>2
<1>. QED
  BY <1>3, <1>5, <1>6

\* The first part of a concatenation.
LEMMA SubSeqPrefix ==
    ASSUME NEW S, NEW x \in Seq(S), NEW y \in Seq(S)
    PROVE  SubSeq(x \o y, 1, Len(x)) = x
<1>1. Len(x) \in Nat
  BY LenProperties
<1>2. CASE Len(x) = 0
  <2>1. x = <<>>
    BY <1>2, EmptySeq
  <2>. QED
    BY <1>2, <2>1, SubSeqEmpty
<1>3. CASE Len(x) # 0
  <2>1. SubSeq(x \o y, 1, Len(x)) = SubSeq(x, 1, Len(x))
    BY <1>1, <1>3, SubSeqOfConcat1
  <2>. QED
    BY <2>1, SubSeqFull
<1>. QED
  BY <1>2, <1>3

\* The pieces of a text.
LEMMA Cut ==
    ASSUME NEW S, NEW p \in Seq(S), NEW k \in 0..Len(p)
    PROVE  /\ SubSeq(p, 1, k) \in Seq(S) /\ Len(SubSeq(p, 1, k)) = k
           /\ SubSeq(p, k + 1, Len(p)) \in Seq(S) /\ Len(SubSeq(p, k + 1, Len(p))) = Len(p) - k
           /\ p = SubSeq(p, 1, k) \o SubSeq(p, k + 1, Len(p))
<1>1. Len(p) \in Nat /\ \A i \in 1..Len(p) : p[i] \in S
  BY LenProperties, ElementOfSeq
<1>2. k \in Nat /\ k <= Len(p)
  BY <1>1
<1>3. SubSeq(p, 1, k) \in Seq(S) /\ Len(SubSeq(p, 1, k)) = k
  <2>1. \A i \in 1..k : p[i] \in S
    BY <1>1, <1>2
  <2>. QED
    BY <1>2, <2>1, SubSeqProperties
<1>4. SubSeq(p, k + 1, Len(p)) \in Seq(S) /\ Len(SubSeq(p, k + 1, Len(p))) = Len(p) - k
  <2>1. \A i \in k + 1..Len(p) : p[i] \in S
    BY <1>1, <1>2
  <2>2. k + 1 \in Int /\ Len(p) \in Int
    BY <1>1, <1>2
  <2>3. Len(SubSeq(p, k + 1, Len(p))) = IF k + 1 <= Len(p) THEN Len(p) - (k + 1) + 1 ELSE 0
    BY <2>1, <2>2, SubSeqProperties
  <2>. QED
    BY <1>1, <1>2, <2>1, <2>2, <2>3, SubSeqProperties
<1>5. p = SubSeq(p, 1, k) \o SubSeq(p, k + 1, Len(p))
  <2>1. SubSeq(p, 1, k) \o SubSeq(p, k + 1, Len(p)) = SubSeq(p, 1, Len(p))
    <3> DEFINE m == 1
               n == Len(p)
    <3>1. m \in 1..Len(p) + 1 /\ k \in m - 1..Len(p) /\ n \in k..Len(p)
      BY <1>1, <1>2
    <3> HIDE DEF m, n
    <3>2. SubSeq(p, m, k) \o SubSeq(p, k + 1, n) = SubSeq(p, m, n)
      BY <3>1, ConcatAdjacentSubSeq
    <3>. QED
      BY <3>2 DEF m, n
  <2>. QED
    BY <2>1, SubSeqFull
<1>. QED
  BY <1>3, <1>4, <1>5

\* A list is its head and its tail.
LEMMA HeadAndTail ==
    ASSUME NEW S, NEW q \in Seq(S), q # <<>>
    PROVE  /\ Head(q) \in S /\ Tail(q) \in Seq(S) /\ q = <<Head(q)>> \o Tail(q)
           /\ Len(q) = Len(Tail(q)) + 1 /\ Len(Tail(q)) \in Nat
<1>1. Head(q) \in S /\ Tail(q) \in Seq(S) /\ Len(q) = Len(Tail(q)) + 1 /\ Len(Tail(q)) \in Nat
  BY HeadTailProperties, LenProperties
<1>2. q = <<Head(q)>> \o Tail(q)
  <2>1. <<Head(q)>> \in Seq(S) /\ Len(<<Head(q)>>) = 1
    BY <1>1
  <2> DEFINE r == <<Head(q)>> \o Tail(q)
  <2>2. r \in Seq(S) /\ Len(r) = Len(q)
    BY <1>1, <2>1, ConcatProperties
  <2>3. ASSUME NEW i \in 1..Len(q) PROVE r[i] = q[i]
    <3>1. r[i] = IF i <= 1 THEN <<Head(q)>>[i] ELSE Tail(q)[i - 1]
      BY <1>1, <2>1, ConcatProperties
    <3>2. CASE i = 1
      BY <3>1, <3>2
    <3>3. CASE i # 1
      <4>1. i - 1 \in 1..Len(Tail(q)) /\ i - 1 + 1 = i
        BY <1>1, <3>3
      <4>2. Tail(q)[i - 1] = q[i - 1 + 1]
        BY <4>1, HeadTailProperties
      <4>. QED
        BY <3>1, <3>3, <4>1, <4>2
    <3>. QED
      BY <3>2, <3>3
  <2> HIDE DEF r
  <2>4. r = q
    BY <2>2, <2>3, SeqEqual
  <2>. QED
    BY <2>4 DEF r
<1>. QED
  BY <1>1, <1>2

\* A sequence with one more element in front.
LEMMA ConsSeq ==
    ASSUME NEW S, NEW o \in S, NEW r \in Seq(S)
    PROVE  /\ <<o>> \in Seq(S) /\ <<o>> \o r \in Seq(S) /\ <<o>> \o r # <<>>
           /\ Head(<<o>> \o r) = o /\ Tail(<<o>> \o r) = r /\ Len(<<o>> \o r) = 1 + Len(r)
<1> DEFINE q == <<o>> \o r
<1>1. <<o>> \in Seq(S) /\ Len(<<o>>) = 1 /\ <<o>>[1] = o
  OBVIOUS
<1>2. q \in Seq(S) /\ Len(q) = 1 + Len(r) /\ Len(r) \in Nat
      /\ \A i \in 1..Len(q) : q[i] = IF i <= 1 THEN <<o>>[i] ELSE r[i - 1]
  BY <1>1, ConcatProperties, LenProperties
<1> HIDE DEF q
<1>3. q # <<>> /\ Head(q) = q[1]
  BY <1>2, EmptySeq
<1>4. q[1] = o
  BY <1>1, <1>2
<1>5. Tail(q) \in Seq(S) /\ Len(Tail(q)) = Len(r)
  BY <1>2, <1>3, HeadTailProperties
<1>6. ASSUME NEW i \in 1..Len(r) PROVE Tail(q)[i] = r[i]
  <2>1. Tail(q)[i] = q[i + 1]
    BY <1>2, <1>3, <1>5, HeadTailProperties
  <2>. QED
    BY <1>2, <2>1
<1>7. Tail(q) = r
  BY <1>5, <1>6, SeqEqual
<1>. QED
  BY <1>1, <1>2, <1>3, <1>4, <1>7 DEF q

-------------------------------------------------------------------------------
(* Induction and recursion.                                                *)

\* A set of numbers that contains 0 and the successor of each of its elements.
LEMMA SetInduction ==
    ASSUME NEW T, T \subseteq Nat, 0 \in T, \A n \in T : n + 1 \in T
    PROVE  \A n \in Nat : n \in T
<1> DEFINE U == Nat \ T
           R == OpToRel(<, Nat)
<1>1. SUFFICES ASSUME U # {} PROVE FALSE
  OBVIOUS
<1>2. IsWellFoundedOn(R, Nat)
  BY NatLessThanWellFounded
<1>3. U \subseteq Nat
  OBVIOUS
<1>4. \E x \in U : \A y \in U : ~(<<y, x>> \in R)
  <2> HIDE DEF U, R
  <2>. QED
    BY <1>1, <1>2, <1>3, WFMin
<1>5. PICK x \in U : \A y \in U : ~(<<y, x>> \in R)
  BY <1>4
<1>6. x \in Nat /\ x \notin T /\ x # 0
  BY <1>5
<1>7. x - 1 \in Nat /\ x - 1 < x
  BY <1>6
<1>8. <<x - 1, x>> \in R
  BY <1>6, <1>7 DEF OpToRel
<1>9. x - 1 \in T
  BY <1>5, <1>7, <1>8
<1>10. x - 1 + 1 = x
  BY <1>6
<1>. QED
  BY <1>6, <1>9, <1>10

\* A set that contains an element whenever it contains all smaller ones.
LEMMA MeasureInduction ==
    ASSUME NEW S, NEW mu \in [S -> Nat], NEW T,
           \A s \in S : (\A x \in S : mu[x] < mu[s] => x \in T) => s \in T
    PROVE  \A s \in S : s \in T
<1> DEFINE Below == {n \in Nat : \A s \in S : mu[s] < n => s \in T}
<1>1. 0 \in Below
  OBVIOUS
<1>2. ASSUME NEW n \in Below PROVE n + 1 \in Below
  <2>1. n \in Nat /\ \A s \in S : mu[s] < n => s \in T
    OBVIOUS
  <2>2. SUFFICES ASSUME NEW s \in S, mu[s] < n + 1 PROVE s \in T
    BY <2>1
  <2>3. mu[s] \in Nat /\ mu[s] <= n
    BY <2>1, <2>2
  <2>4. \A x \in S : mu[x] < mu[s] => x \in T
    <3>1. SUFFICES ASSUME NEW x \in S, mu[x] < mu[s] PROVE x \in T
      OBVIOUS
    <3>2. mu[x] \in Nat /\ mu[x] < n
      BY <2>1, <2>3, <3>1
    <3>. QED
      BY <2>1, <3>2
  <2>. QED
    BY <2>4
<1>3. Below \subseteq Nat
  OBVIOUS
<1>4. \A n \in Nat : n \in Below
  <2> HIDE DEF Below
  <2>. QED
    BY <1>1, <1>2, <1>3, SetInduction
<1>5. ASSUME NEW s \in S PROVE s \in T
  <2>1. mu[s] + 1 \in Nat /\ mu[s] < mu[s] + 1
    OBVIOUS
  <2>. QED
    BY <1>4, <2>1
<1>. QED
  BY <1>5

\* Phi, which computes a function from S to V out of another, needs of it
\* only the values at arguments of smaller measure.
Descends(S, V, mu, Phi) ==
    /\ V # {}
    /\ mu \in [S -> Nat]
    /\ Phi \in [[S -> V] -> [S -> V]]
    /\ \A f, h \in [S -> V] : \A s \in S :
          (\A x \in S : mu[x] < mu[s] => f[x] = h[x]) => Phi[f][s] = Phi[h][s]

\* A recursion on arguments of smaller measure defines a function.
LEMMA Recursion ==
    ASSUME NEW S, NEW V, NEW mu, NEW Phi, Descends(S, V, mu, Phi)
    PROVE  \E f \in [S -> V] : Phi[f] = f
<1>0. /\ V # {}
      /\ mu \in [S -> Nat]
      /\ Phi \in [[S -> V] -> [S -> V]]
      /\ \A f, h \in [S -> V] : \A s \in S :
             (\A x \in S : mu[x] < mu[s] => f[x] = h[x]) => Phi[f][s] = Phi[h][s]
  BY DEF Descends
<1>. USE <1>0
<1> DEFINE Good(f, n) == \A s \in S : mu[s] < n => f[s] = Phi[f][s]
<1>1. ASSUME NEW f \in [S -> V], NEW h \in [S -> V], NEW n \in Nat, Good(f, n), Good(h, n),
             NEW s \in S, mu[s] < n
      PROVE  f[s] = h[s]
  <2> DEFINE T == {x \in S : mu[x] < n => f[x] = h[x]}
  <2>1. ASSUME NEW x \in S, \A y \in S : mu[y] < mu[x] => y \in T PROVE x \in T
    <3>1. SUFFICES ASSUME mu[x] < n PROVE f[x] = h[x]
      OBVIOUS
    <3>2. ASSUME NEW y \in S, mu[y] < mu[x] PROVE f[y] = h[y]
      <4>1. y \in T
        BY <2>1, <3>2
      <4>2. mu[y] \in Nat /\ mu[x] \in Nat
        OBVIOUS
      <4>3. mu[y] < n
        BY <3>1, <3>2, <4>2
      <4>. QED
        BY <4>1, <4>3
    <3>3. Phi[f][x] = Phi[h][x]
      BY <3>2
    <3>. QED
      BY <1>1, <3>1, <3>3
  <2>2. \A x \in S : x \in T
    <3> HIDE DEF T
    <3>. QED
      BY <2>1, MeasureInduction
  <2>. QED
    BY <1>1, <2>2
<1> DEFINE Has == {n \in Nat : \E f \in [S -> V] : Good(f, n)}
<1>2. 0 \in Has
  <2>1. PICK v \in V : TRUE
    OBVIOUS
  <2>2. [s \in S |-> v] \in [S -> V]
    OBVIOUS
  <2>3. \A s \in S : ~(mu[s] < 0)
    OBVIOUS
  <2>. QED
    BY <2>2, <2>3
<1>3. ASSUME NEW n \in Has PROVE n + 1 \in Has
  <2>1. n \in Nat
    OBVIOUS
  <2>2. PICK f \in [S -> V] : Good(f, n)
    OBVIOUS
  <2>3. Phi[f] \in [S -> V]
    OBVIOUS
  <2>4. ASSUME NEW s \in S, mu[s] < n + 1 PROVE Phi[f][s] = Phi[Phi[f]][s]
    <3>1. ASSUME NEW x \in S, mu[x] < mu[s] PROVE f[x] = Phi[f][x]
      <4>1. mu[x] \in Nat /\ mu[s] \in Nat
        OBVIOUS
      <4>2. mu[x] < n
        BY <2>1, <2>4, <3>1, <4>1
      <4>. QED
        BY <2>2, <4>2
    <3>. QED
      BY <2>3, <3>1
  <2>. QED
    BY <2>1, <2>3, <2>4
<1>4. \A n \in Nat : n \in Has
  <2>1. Has \subseteq Nat
    OBVIOUS
  <2> HIDE DEF Has
  <2>. QED
    BY <1>2, <1>3, <2>1, SetInduction
<1> DEFINE at == [n \in Nat |-> CHOOSE f \in [S -> V] : Good(f, n)]
           F == [s \in S |-> at[mu[s] + 1][s]]
<1>5. ASSUME NEW n \in Nat PROVE at[n] \in [S -> V] /\ Good(at[n], n)
  <2>1. \E f \in [S -> V] : Good(f, n)
    BY <1>4
  <2>2. at[n] = CHOOSE f \in [S -> V] : Good(f, n)
    OBVIOUS
  <2> HIDE DEF Good, at
  <2>. QED
    BY <2>1, <2>2
<1> HIDE DEF at, Has
<1>6. ASSUME NEW n \in Nat, NEW s \in S, mu[s] < n PROVE F[s] = at[n][s]
  <2>1. mu[s] \in Nat /\ mu[s] + 1 \in Nat /\ mu[s] < mu[s] + 1 /\ mu[s] + 1 <= n
    BY <1>6
  <2>2. Good(at[mu[s] + 1], mu[s] + 1)
    BY <1>5, <2>1
  <2>3. Good(at[n], mu[s] + 1)
    <3>1. ASSUME NEW x \in S, mu[x] < mu[s] + 1 PROVE mu[x] < n
      <4>1. mu[x] \in Nat
        OBVIOUS
      <4>. QED
        BY <2>1, <3>1, <4>1
    <3>. QED
      BY <1>5, <3>1
  <2>4. at[mu[s] + 1] \in [S -> V] /\ at[n] \in [S -> V]
    BY <1>5, <2>1
  <2> HIDE DEF Good
  <2>5. at[mu[s] + 1][s] = at[n][s]
    BY <1>1, <2>1, <2>2, <2>3, <2>4
  <2>. QED
    BY <2>5
<1>7. F \in [S -> V]
  <2>1. ASSUME NEW s \in S PROVE at[mu[s] + 1][s] \in V
    <3>1. mu[s] + 1 \in Nat
      OBVIOUS
    <3>. QED
      BY <1>5, <3>1
  <2>. QED
    BY <2>1
<1>8. ASSUME NEW s \in S PROVE Phi[F][s] = F[s]
  <2> DEFINE n == mu[s] + 1
  <2>1. n \in Nat /\ mu[s] < n /\ mu[s] \in Nat
    OBVIOUS
  <2>2. at[n] \in [S -> V] /\ Good(at[n], n)
    BY <1>5, <2>1
  <2>3. ASSUME NEW x \in S, mu[x] < mu[s] PROVE F[x] = at[n][x]
    <3>1. mu[x] \in Nat
      OBVIOUS
    <3>2. mu[x] < n
      BY <2>1, <2>3, <3>1
    <3> HIDE DEF F, n
    <3>. QED
      BY <1>6, <2>1, <3>2
  <2> HIDE DEF F, n
  <2>4. Phi[F][s] = Phi[at[n]][s]
    BY <1>7, <2>2, <2>3
  <2>5. at[n][s] = Phi[at[n]][s]
    BY <2>1, <2>2
  <2>6. F[s] = at[n][s]
    BY <1>6, <2>1
  <2>. QED
    BY <2>4, <2>5, <2>6
<1>9. Phi[F] = F
  <2>1. Phi[F] \in [S -> V]
    BY <1>7
  <2> HIDE DEF F
  <2>. QED
    BY <1>7, <1>8, <2>1
<1>. QED
  BY <1>7, <1>9
\* A set of lists that contains the empty list, and each list whose tail it
\* contains.
LEMMA ListInduction ==
    ASSUME NEW S, NEW T, <<>> \in T,
           \A q \in Seq(S) : q # <<>> /\ Tail(q) \in T => q \in T
    PROVE  \A q \in Seq(S) : q \in T
<1> DEFINE Lists == Seq(S)
           mu == [q \in Lists |-> Len(q)]
<1>1. mu \in [Lists -> Nat]
  OBVIOUS
<1>2. ASSUME NEW q \in Lists, \A r \in Lists : mu[r] < mu[q] => r \in T
      PROVE  q \in T
  <2>1. CASE q = <<>>
    BY <2>1
  <2>2. CASE q # <<>>
    <3>1. Tail(q) \in Seq(S) /\ Len(Tail(q)) = Len(q) - 1 /\ Len(q) \in Nat
      BY <2>2, HeadTailProperties, LenProperties
    <3>2. mu[Tail(q)] < mu[q]
      BY <3>1
    <3>. QED
      BY <1>2, <2>2, <3>1, <3>2
  <2>. QED
    BY <2>1, <2>2
<1>3. \A q \in Lists : q \in T
  <2> HIDE DEF mu, Lists
  <2>. QED
    BY <1>1, <1>2, MeasureInduction
<1>. QED
  BY <1>3

\* f is the fold of zero and step down the lists of elements of S.
IsFold(f, S, V, zero, step) ==
    /\ f \in [Seq(S) -> V]
    /\ \A q \in Seq(S) : f[q] = IF q = <<>> THEN zero ELSE step[<<Head(q), f[Tail(q)]>>]

\* A recursion down a list defines a function.
LEMMA ListRecursion ==
    ASSUME NEW S, NEW V, NEW zero \in V, NEW step \in [S \X V -> V]
    PROVE  \E f : IsFold(f, S, V, zero, step)
<1> DEFINE Lists == Seq(S)
           mu == [q \in Lists |-> Len(q)]
           Funs == [Lists -> V]
           next(f, q) == IF q = <<>> THEN zero ELSE step[<<Head(q), f[Tail(q)]>>]
           Phi == [f \in Funs |-> [q \in Lists |-> next(f, q)]]
<1>1. mu \in [Lists -> Nat]
  OBVIOUS
<1>2. \A q \in Lists : q # <<>> => Head(q) \in S /\ Tail(q) \in Lists /\ mu[Tail(q)] < mu[q]
  <2>1. ASSUME NEW q \in Lists, q # <<>>
        PROVE  Head(q) \in S /\ Tail(q) \in Lists /\ Len(Tail(q)) < Len(q)
    BY <2>1, HeadTailProperties, LenProperties
  <2>. QED
    BY <2>1
<1>3. ASSUME NEW f \in Funs, NEW q \in Lists PROVE next(f, q) \in V
  <2> HIDE DEF Lists, mu
  <2>1. CASE q = <<>>
    BY <2>1
  <2>2. CASE q # <<>>
    BY <1>2, <2>2
  <2>. QED
    BY <2>1, <2>2
<1>4. Phi \in [Funs -> Funs]
  <2> HIDE DEF Lists, next
  <2>. QED
    BY <1>3
<1>5. ASSUME NEW f \in Funs, NEW h \in Funs, NEW q \in Lists,
             \A x \in Lists : mu[x] < mu[q] => f[x] = h[x]
      PROVE  Phi[f][q] = Phi[h][q]
  <2>1. next(f, q) = next(h, q)
    <3> HIDE DEF Lists, mu
    <3>. QED
      BY <1>2, <1>5
  <2> HIDE DEF Lists, next
  <2>. QED
    BY <2>1
<1>6. \E f \in Funs : Phi[f] = f
  <2>1. V # {}
    OBVIOUS
  <2>2. \A f, h \in [Lists -> V] : \A q \in Lists :
           (\A x \in Lists : mu[x] < mu[q] => f[x] = h[x]) => Phi[f][q] = Phi[h][q]
    BY <1>5
  <2>3. Phi \in [[Lists -> V] -> [Lists -> V]]
    BY <1>4
  <2> HIDE DEF mu, Lists, Phi
  <2>4. Descends(Lists, V, mu, Phi)
    BY <1>1, <2>1, <2>2, <2>3 DEF Descends
  <2>. QED
    BY <2>4, Recursion
<1>7. PICK f \in Funs : Phi[f] = f
  BY <1>6
<1>8. \A q \in Lists : f[q] = next(f, q)
  <2> HIDE DEF next, Lists
  <2>. QED
    BY <1>7
<1>. QED
  BY <1>8 DEF IsFold

\* f runs step until done, and is then out.
IsLoop(f, S, V, done, out, step) ==
    /\ f \in [S -> V]
    /\ \A s \in S : f[s] = IF s \in done THEN out[s] ELSE f[step[s]]

\* A loop each of whose steps brings it nearer to its end defines a function.
LEMMA LoopRecursion ==
    ASSUME NEW S, NEW V, V # {}, NEW done, NEW out \in [S -> V], NEW step \in [S -> S],
           NEW mu \in [S -> Nat], \A s \in S : s \notin done => mu[step[s]] < mu[s]
    PROVE  \E f : IsLoop(f, S, V, done, out, step)
<1> DEFINE Funs == [S -> V]
           next(f, s) == IF s \in done THEN out[s] ELSE f[step[s]]
           Phi == [f \in Funs |-> [s \in S |-> next(f, s)]]
<1>1. Phi \in [Funs -> Funs]
  <2>1. \A f \in Funs, s \in S : next(f, s) \in V
    OBVIOUS
  <2> HIDE DEF next
  <2>. QED
    BY <2>1
<1>2. ASSUME NEW f \in Funs, NEW h \in Funs, NEW s \in S,
             \A x \in S : mu[x] < mu[s] => f[x] = h[x]
      PROVE  Phi[f][s] = Phi[h][s]
  <2>1. next(f, s) = next(h, s)
    BY <1>2
  <2> HIDE DEF next
  <2>. QED
    BY <2>1
<1>3. Descends(S, V, mu, Phi)
  <2> HIDE DEF Phi
  <2>. QED
    BY <1>1, <1>2 DEF Descends
<1>4. PICK f \in [S -> V] : Phi[f] = f
  <2> HIDE DEF Phi
  <2>. QED
    BY <1>3, Recursion
<1>5. \A s \in S : f[s] = next(f, s)
  <2> HIDE DEF next
  <2>. QED
    BY <1>4
<1>. QED
  BY <1>5 DEF IsLoop

\* A non-empty set of numbers has a least element.
LEMMA LeastNumber ==
    ASSUME NEW U, U \subseteq Nat, U # {}
    PROVE  \E m \in U : \A n \in U : m <= n
<1> DEFINE T == Nat \ U
           mu == [n \in Nat |-> n]
<1>1. SUFFICES ASSUME \A m \in U : \E n \in U : n < m
               PROVE  FALSE
  <2>1. PICK m \in U : TRUE
    OBVIOUS
  <2>. QED
    BY <2>1
<1>2. mu \in [Nat -> Nat]
  OBVIOUS
<1>3. ASSUME NEW s \in Nat, \A x \in Nat : mu[x] < mu[s] => x \in T PROVE s \in T
  BY <1>1, <1>3
<1>4. \A s \in Nat : s \in T
  <2> HIDE DEF T, mu
  <2>. QED
    BY <1>2, <1>3, MeasureInduction
<1>. QED
  BY <1>4

\* A set of pairs of lists that contains a pair whenever it contains all the
\* shorter ones.
LEMMA PairInduction ==
    ASSUME NEW S, NEW T,
           \A a, b \in Seq(S) :
              (\A c, d \in Seq(S) : Len(c) + Len(d) < Len(a) + Len(b) => <<c, d>> \in T)
                 => <<a, b>> \in T
    PROVE  \A a, b \in Seq(S) : <<a, b>> \in T
<1> DEFINE Lists == Seq(S)
           Pairs == Lists \X Lists
           mu == [s \in Pairs |-> Len(s[1]) + Len(s[2])]
<1>1. mu \in [Pairs -> Nat]
  <2>1. ASSUME NEW s \in Pairs PROVE Len(s[1]) + Len(s[2]) \in Nat
    <3>1. s[1] \in Lists /\ s[2] \in Lists
      OBVIOUS
    <3>2. Len(s[1]) \in Nat /\ Len(s[2]) \in Nat
      BY <3>1, LenProperties
    <3>. QED
      BY <3>2
  <2> HIDE DEF Pairs
  <2>. QED
    BY <2>1
<1>2. ASSUME NEW s \in Pairs, \A x \in Pairs : mu[x] < mu[s] => x \in T
      PROVE  s \in T
  <2>1. PICK a, b \in Lists : s = <<a, b>>
    OBVIOUS
  <2>2. ASSUME NEW c \in Lists, NEW d \in Lists, Len(c) + Len(d) < Len(a) + Len(b)
        PROVE  <<c, d>> \in T
    <3>1. <<c, d>> \in Pairs /\ mu[<<c, d>>] = Len(c) + Len(d) /\ mu[s] = Len(a) + Len(b)
      BY <2>1
    <3>. QED
      BY <1>2, <2>2, <3>1
  <2>. QED
    BY <2>1, <2>2
<1>3. \A s \in Pairs : s \in T
  <2> HIDE DEF mu, Pairs
  <2>. QED
    BY <1>1, <1>2, MeasureInduction
<1>4. ASSUME NEW a \in Lists, NEW b \in Lists PROVE <<a, b>> \in T
  BY <1>3
<1>. QED
  BY <1>4

-------------------------------------------------------------------------------
(* Operations and what they do to a text.                                  *)

\* What an operation consumes, produces and measures is a number.
LEMMA OpTypes ==
    ASSUME NEW o \in Op
    PROVE  /\ Consumes(o) \in Nat /\ Produces(o) \in Nat /\ Size(o) \in Nat
           /\ Len(o.chars) \in Nat /\ o.n \in Nat /\ o.chars \in Seq(Nat)
<1>1. o.n \in Nat /\ o.chars \in Seq(Nat) /\ o.op \in {"retain", "insert", "delete"}
  BY DEF Op, Text
<1>2. Len(o.chars) \in Nat
  BY <1>1, LenProperties
<1>. QED
  BY <1>1, <1>2 DEF Consumes, Produces, Size

\* Consumed, the first sum of Validate (changeset.go), is the sum over a list of operations.
LEMMA ConsumedIs ==
    /\ Consumed(<<>>) = 0
    /\ \A q \in Seq(Op) : Consumed(q) \in Nat
    /\ \A q \in Seq(Op) : q # <<>> => Consumed(q) = Consumes(Head(q)) + Consumed(Tail(q))
<1> DEFINE next(f, q) == IF q = <<>> THEN 0 ELSE Consumes(Head(q)) + f[Tail(q)]
           sum == CHOOSE f : f = [q \in Seq(Op) |-> next(f, q)]
           step == [x \in Op \X Nat |-> Consumes(x[1]) + x[2]]
<1>1. step \in [Op \X Nat -> Nat]
  BY OpTypes
<1>2. PICK f : IsFold(f, Op, Nat, 0, step)
  <2> HIDE DEF step
  <2>1. 0 \in Nat
    OBVIOUS
  <2>. QED
    BY <1>1, <2>1, ListRecursion
<1>3. f \in [Seq(Op) -> Nat] /\ \A q \in Seq(Op) : f[q] = next(f, q)
  <2>1. \A q \in Seq(Op) : q # <<>> => Head(q) \in Op /\ Tail(q) \in Seq(Op)
    BY HeadTailProperties
  <2>. QED
    BY <1>2, <2>1 DEF IsFold
<1>4. f = [q \in Seq(Op) |-> next(f, q)]
  <2> HIDE DEF next
  <2>. QED
    BY <1>3
<1>5. sum = [q \in Seq(Op) |-> next(sum, q)]
  <2> HIDE DEF next
  <2>. QED
    BY <1>4
<1>6. \A q : Consumed(q) = sum[q]
  BY DEF Consumed
<1>7. \A q \in Seq(Op) : sum[q] = next(sum, q)
  <2> HIDE DEF next
  <2>. QED
    BY <1>5
<1> HIDE DEF sum
<1>8. \A q \in Seq(Op) : sum[q] = IF q = <<>> THEN 0 ELSE Consumes(Head(q)) + sum[Tail(q)]
  BY <1>7
<1> DEFINE T == {q \in Seq(Op) : sum[q] \in Nat}
<1>9. \A q \in Seq(Op) : q \in T
  <2>0. <<>> \in Seq(Op)
    BY EmptySeq
  <2>3. sum[<<>>] = 0
    BY <1>8, <2>0, Zenon
  <2>1. <<>> \in T
    BY <2>0, <2>3
  <2>2. \A q \in Seq(Op) : q # <<>> /\ Tail(q) \in T => q \in T
    BY <1>8, OpTypes, HeadTailProperties
  <2> HIDE DEF T
  <2>. QED
    BY <2>1, <2>2, ListInduction
<1>. QED
  BY <1>6, <1>8, <1>9, EmptySeq

\* Produced, the second sum of Validate, is the sum over a list of operations.
LEMMA ProducedIs ==
    /\ Produced(<<>>) = 0
    /\ \A q \in Seq(Op) : Produced(q) \in Nat
    /\ \A q \in Seq(Op) : q # <<>> => Produced(q) = Produces(Head(q)) + Produced(Tail(q))
<1> DEFINE next(f, q) == IF q = <<>> THEN 0 ELSE Produces(Head(q)) + f[Tail(q)]
           sum == CHOOSE f : f = [q \in Seq(Op) |-> next(f, q)]
           step == [x \in Op \X Nat |-> Produces(x[1]) + x[2]]
<1>1. step \in [Op \X Nat -> Nat]
  BY OpTypes
<1>2. PICK f : IsFold(f, Op, Nat, 0, step)
  <2> HIDE DEF step
  <2>1. 0 \in Nat
    OBVIOUS
  <2>. QED
    BY <1>1, <2>1, ListRecursion
<1>3. f \in [Seq(Op) -> Nat] /\ \A q \in Seq(Op) : f[q] = next(f, q)
  <2>1. \A q \in Seq(Op) : q # <<>> => Head(q) \in Op /\ Tail(q) \in Seq(Op)
    BY HeadTailProperties
  <2>. QED
    BY <1>2, <2>1 DEF IsFold
<1>4. f = [q \in Seq(Op) |-> next(f, q)]
  <2> HIDE DEF next
  <2>. QED
    BY <1>3
<1>5. sum = [q \in Seq(Op) |-> next(sum, q)]
  <2> HIDE DEF next
  <2>. QED
    BY <1>4
<1>6. \A q : Produced(q) = sum[q]
  BY DEF Produced
<1>7. \A q \in Seq(Op) : sum[q] = next(sum, q)
  <2> HIDE DEF next
  <2>. QED
    BY <1>5
<1> HIDE DEF sum
<1>8. \A q \in Seq(Op) : sum[q] = IF q = <<>> THEN 0 ELSE Produces(Head(q)) + sum[Tail(q)]
  BY <1>7
<1> DEFINE T == {q \in Seq(Op) : sum[q] \in Nat}
<1>9. \A q \in Seq(Op) : q \in T
  <2>0. <<>> \in Seq(Op)
    BY EmptySeq
  <2>3. sum[<<>>] = 0
    BY <1>8, <2>0, Zenon
  <2>1. <<>> \in T
    BY <2>0, <2>3
  <2>2. \A q \in Seq(Op) : q # <<>> /\ Tail(q) \in T => q \in T
    BY <1>8, OpTypes, HeadTailProperties
  <2> HIDE DEF T
  <2>. QED
    BY <2>1, <2>2, ListInduction
<1>. QED
  BY <1>6, <1>8, <1>9, EmptySeq

\* What one operation contributes to the text ApplyChangeset builds.
Piece(text, srcPos, o) ==
    CASE o.op = "retain" -> SubSeq(text, srcPos + 1, srcPos + o.n)
      [] o.op = "insert" -> o.chars
      [] o.op = "delete" -> <<>>

\* The states of the loop of ApplyChangeset: a position in the text, operations left.
Readers == [srcPos : Nat, ops : Seq(Op)]

\* f is the loop of ApplyChangeset on this text.
IsResult(f, text) ==
    \A s \in Readers :
        f[s] = IF s.ops = <<>> THEN <<>>
               ELSE Piece(text, s.srcPos, Head(s.ops))
                       \o f[[srcPos |-> s.srcPos + Consumes(Head(s.ops)), ops |-> Tail(s.ops)]]

\* ApplyChangeset (apply.go) is the loop over its operations from position 0: the recursive
\* function it is defined by exists.
LEMMA ApplyIs ==
    ASSUME NEW text
    PROVE  \E f : /\ IsResult(f, text)
                  /\ \A c : ApplyChangeset(text, c) = f[[srcPos |-> 0, ops |-> c.ops]]
<1> DEFINE W == Nat \cup {text[i] : i \in Nat}
           V == Seq(W)
           D == Readers
           rest(s) == [srcPos |-> s.srcPos + Consumes(Head(s.ops)), ops |-> Tail(s.ops)]
           next(f, s) == IF s.ops = <<>> THEN <<>>
                         ELSE Piece(text, s.srcPos, Head(s.ops)) \o f[rest(s)]
           result == CHOOSE f : f = [s \in D |-> next(f, s)]
           mu == [s \in D |-> Len(s.ops)]
           Phi == [f \in [D -> V] |-> [s \in D |-> next(f, s)]]
<1>1. ASSUME NEW srcPos \in Nat, NEW o \in Op
      PROVE  Piece(text, srcPos, o) \in V
  <2>1. o.n \in Nat /\ o.chars \in Seq(Nat) /\ o.op \in {"retain", "insert", "delete"}
    BY DEF Op, Text
  <2>2. o.chars \in V
    <3>1. Nat \subseteq W
      OBVIOUS
    <3> HIDE DEF W
    <3>. QED
      BY <2>1, <3>1, SeqMonotonic
  <2>3. SubSeq(text, srcPos + 1, srcPos + o.n) \in V
    <3>1. \A i \in srcPos + 1 .. srcPos + o.n : text[i] \in W
      BY <2>1
    <3>2. srcPos + 1 \in Int /\ srcPos + o.n \in Int
      BY <2>1
    <3> HIDE DEF W
    <3>. QED
      BY <3>1, <3>2, SubSeqProperties
  <2>4. <<>> \in V
    BY EmptySeq
  <2>. QED
    BY <2>1, <2>2, <2>3, <2>4 DEF Piece
<1>2. ASSUME NEW s \in D, s.ops # <<>>
      PROVE  Head(s.ops) \in Op /\ rest(s) \in D /\ mu[rest(s)] < mu[s]
  <2>1. s.ops \in Seq(Op) /\ s.srcPos \in Nat
    BY DEF Readers
  <2>2. Head(s.ops) \in Op /\ Tail(s.ops) \in Seq(Op) /\ Len(Tail(s.ops)) < Len(s.ops)
    BY <1>2, <2>1, HeadTailProperties, LenProperties
  <2>3. s.srcPos + Consumes(Head(s.ops)) \in Nat
    BY <2>1, <2>2, OpTypes
  <2>4. rest(s) \in D
    BY <2>2, <2>3 DEF Readers
  <2>. QED
    BY <2>2, <2>4
<1>3. ASSUME NEW f \in [D -> V], NEW s \in D
      PROVE  next(f, s) \in V
  <2>1. CASE s.ops = <<>>
    BY <2>1, EmptySeq
  <2>2. CASE s.ops # <<>>
    <3>1. rest(s) \in D /\ Head(s.ops) \in Op /\ s.srcPos \in Nat
      BY <1>2, <2>2 DEF Readers
    <3> HIDE DEF V, rest, D
    <3>2. Piece(text, s.srcPos, Head(s.ops)) \in V /\ f[rest(s)] \in V
      BY <1>1, <3>1
    <3>. QED
      BY <2>2, <3>2, ConcatProperties DEF V
  <2>. QED
    BY <2>1, <2>2
<1>4. PICK f \in [D -> V] : Phi[f] = f
  <2>1. V # {}
    BY EmptySeq
  <2>2. mu \in [D -> Nat]
    BY LenProperties DEF Readers
  <2>3. Phi \in [[D -> V] -> [D -> V]]
    <3> HIDE DEF D, V, next
    <3>. QED
      BY <1>3
  <2>4. ASSUME NEW f \in [D -> V], NEW h \in [D -> V], NEW s \in D,
               \A x \in D : mu[x] < mu[s] => f[x] = h[x]
        PROVE  Phi[f][s] = Phi[h][s]
    <3>1. next(f, s) = next(h, s)
      <4> HIDE DEF D, V, mu, rest
      <4>. QED
        BY <1>2, <2>4
    <3> HIDE DEF D, V, next
    <3>. QED
      BY <3>1
  <2>5. Descends(D, V, mu, Phi)
    <3> HIDE DEF D, V, mu, Phi
    <3>. QED
      BY <2>1, <2>2, <2>3, <2>4 DEF Descends
  <2> HIDE DEF D, V, mu, Phi
  <2>. QED
    BY <2>5, Recursion
<1>5. f = [s \in D |-> next(f, s)]
  <2> HIDE DEF V, next
  <2>. QED
    BY <1>4
<1>6. result = [s \in D |-> next(result, s)]
  <2> HIDE DEF next
  <2>. QED
    BY <1>5
<1>7. \A c : ApplyChangeset(text, c) = result[[srcPos |-> 0, ops |-> c.ops]]
  BY DEF ApplyChangeset, Piece, Readers
<1>8. \A s \in D : result[s] = next(result, s)
  <2> HIDE DEF next
  <2>. QED
    BY <1>6
<1> HIDE DEF result
<1>. QED
  BY <1>7, <1>8 DEF IsResult

\* The result of a list of operations on the characters p.
Run(p, ops) == ApplyChangeset(p, [ops |-> ops])

\* What an operation makes of the characters it consumes.
ResultOf(x, o) == CASE o.op = "retain" -> x
                [] o.op = "insert" -> o.chars
                [] o.op = "delete" -> <<>>

\* A part of a concatenation that lies behind its first text is a part of the second.
LEMMA SubSeqShift ==
    ASSUME NEW x \in Text, NEW y \in Text, NEW j \in Nat, NEW n \in Nat, j + n <= Len(y)
    PROVE  SubSeq(x \o y, Len(x) + j + 1, Len(x) + j + n) = SubSeq(y, j + 1, j + n)
<1>1. Len(x) \in Nat /\ Len(y) \in Nat
  BY LenProperties DEF Text
<1>2. CASE n = 0
  <2>1. Len(x) + j + n < Len(x) + j + 1 /\ j + n < j + 1
    BY <1>1, <1>2
  <2>2. Len(x) + j + n \in Int /\ Len(x) + j + 1 \in Int /\ j + n \in Int /\ j + 1 \in Int
    BY <1>1
  <2>. QED
    BY <2>1, <2>2, SubSeqEmpty
<1>3. CASE n # 0
  <2> DEFINE m == Len(x) + j + 1
             k == Len(x) + j + n
  <2>1. m \in Len(x) + 1 .. Len(x) + Len(y) /\ k \in Len(x) + 1 .. Len(x) + Len(y)
    BY <1>1, <1>3
  <2>2. m - Len(x) = j + 1 /\ k - Len(x) = j + n
    BY <1>1
  <2> HIDE DEF m, k
  <2>3. SubSeq(x \o y, m, k) = SubSeq(y, m - Len(x), k - Len(x))
    BY <2>1, SubSeqOfConcat2 DEF Text
  <2>. QED
    BY <2>2, <2>3 DEF m, k
<1>. QED
  BY <1>2, <1>3

\* The two sums over a list with one more operation in front.
LEMMA ConsumedCons ==
    ASSUME NEW o \in Op, NEW r \in Seq(Op)
    PROVE  /\ Consumed(<<o>> \o r) = Consumes(o) + Consumed(r)
           /\ Produced(<<o>> \o r) = Produces(o) + Produced(r)
           /\ Consumed(r) \in Nat /\ Produced(r) \in Nat
<1> DEFINE q == <<o>> \o r
<1>1. q \in Seq(Op) /\ q # <<>> /\ Head(q) = o /\ Tail(q) = r
  BY ConsSeq
<1> HIDE DEF q
<1>2. Consumed(q) = Consumes(o) + Consumed(r) /\ Produced(q) = Produces(o) + Produced(r)
  BY <1>1, ConsumedIs, ProducedIs
<1>. QED
  BY <1>2, ConsumedIs, ProducedIs DEF q

\* No operations, no text.
LEMMA RunNil ==
    ASSUME NEW p
    PROVE  Run(p, <<>>) = <<>>
<1>1. PICK f : IsResult(f, p) /\ \A c : ApplyChangeset(p, c) = f[[srcPos |-> 0, ops |-> c.ops]]
  BY ApplyIs
<1>2. [srcPos |-> 0, ops |-> <<>>] \in Readers
  BY EmptySeq DEF Readers
<1>3. f[[srcPos |-> 0, ops |-> <<>>]] = <<>>
  BY <1>1, <1>2, Zenon DEF IsResult
<1>. QED
  BY <1>1, <1>3 DEF Run

\* ApplyChangeset reads only the operations of a changeset.
LEMMA ApplyIsRun ==
    ASSUME NEW p, NEW c
    PROVE  ApplyChangeset(p, c) = Run(p, c.ops)
<1>1. PICK f : \A d : ApplyChangeset(p, d) = f[[srcPos |-> 0, ops |-> d.ops]]
  BY ApplyIs
<1>. QED
  BY <1>1 DEF Run

\* Applying operations to a text is applying the first to the part it consumes, and the others
\* to the rest: the law every proof below computes with.
LEMMA RunCons ==
    ASSUME NEW x \in Text, NEW y \in Text, NEW o \in Op, NEW r \in Seq(Op),
           Len(x) = Consumes(o), Consumed(r) = Len(y)
    PROVE  Run(x \o y, <<o>> \o r) = ResultOf(x, o) \o Run(y, r)
<1>1. PICK f : IsResult(f, x \o y) /\ \A c : ApplyChangeset(x \o y, c) = f[[srcPos |-> 0, ops |-> c.ops]]
  BY ApplyIs
<1>2. PICK g : IsResult(g, y) /\ \A c : ApplyChangeset(y, c) = g[[srcPos |-> 0, ops |-> c.ops]]
  BY ApplyIs
<1>3. Len(x) \in Nat /\ Len(y) \in Nat
  BY LenProperties DEF Text
<1> DEFINE at(j, q) == [srcPos |-> j, ops |-> q]
           T == {q \in Seq(Op) : \A j \in Nat : j + Consumed(q) = Len(y) =>
                    f[at(Len(x) + j, q)] = g[at(j, q)]}
<1>4. \A q \in Seq(Op) : q \in T
  <2>1. <<>> \in T
    <3>1. <<>> \in Seq(Op)
      BY EmptySeq
    <3>2. ASSUME NEW j \in Nat PROVE f[at(Len(x) + j, <<>>)] = g[at(j, <<>>)]
      <4>1. at(Len(x) + j, <<>>) \in Readers /\ at(j, <<>>) \in Readers
        BY <1>3, <3>1 DEF Readers
      <4>2. f[at(Len(x) + j, <<>>)] = <<>>
        BY <1>1, <4>1, Zenon DEF IsResult
      <4>3. g[at(j, <<>>)] = <<>>
        BY <1>2, <4>1, Zenon DEF IsResult
      <4>. QED
        BY <4>2, <4>3
    <3>. QED
      BY <3>1, <3>2
  <2>2. ASSUME NEW q \in Seq(Op), q # <<>>, Tail(q) \in T PROVE q \in T
    <3>1. SUFFICES ASSUME NEW j \in Nat, j + Consumed(q) = Len(y)
                   PROVE  f[at(Len(x) + j, q)] = g[at(j, q)]
      OBVIOUS
    <3> DEFINE h == Head(q)
               k == Consumes(h)
    <3>2. h \in Op /\ Tail(q) \in Seq(Op)
      BY <2>2, HeadTailProperties
    <3>3. k \in Nat /\ h.n \in Nat /\ Consumed(q) = k + Consumed(Tail(q)) /\ Consumed(Tail(q)) \in Nat
      BY <2>2, <3>2, OpTypes, ConsumedIs
    <3>4. at(Len(x) + j, q) \in Readers /\ at(j, q) \in Readers
      BY <1>3 DEF Readers
    <3>5. f[at(Len(x) + j, q)] = Piece(x \o y, Len(x) + j, h) \o f[at(Len(x) + j + k, Tail(q))]
      BY <1>1, <2>2, <3>4 DEF IsResult
    <3>6. g[at(j, q)] = Piece(y, j, h) \o g[at(j + k, Tail(q))]
      BY <1>2, <2>2, <3>4 DEF IsResult
    <3>7. f[at(Len(x) + j + k, Tail(q))] = g[at(j + k, Tail(q))]
      <4>1. j + k \in Nat /\ j + k + Consumed(Tail(q)) = Len(y) /\ Len(x) + (j + k) = Len(x) + j + k
        BY <1>3, <3>1, <3>3
      <4> HIDE DEF k
      <4>. QED
        BY <2>2, <4>1
    <3>8. Piece(x \o y, Len(x) + j, h) = Piece(y, j, h)
      <4>1. CASE h.op = "retain"
        <5>1. k = h.n
          BY <4>1 DEF Consumes
        <5>2. j + h.n <= Len(y)
          BY <1>3, <3>1, <3>3, <5>1
        <5>3. SubSeq(x \o y, Len(x) + j + 1, Len(x) + j + h.n) = SubSeq(y, j + 1, j + h.n)
          BY <3>3, <5>2, SubSeqShift
        <5>. QED
          BY <4>1, <5>3 DEF Piece
      <4>2. CASE h.op # "retain"
        BY <3>2, <4>2 DEF Piece, Op
      <4>. QED
        BY <4>1, <4>2
    <3>. QED
      BY <3>5, <3>6, <3>7, <3>8
  <2> HIDE DEF T
  <2>. QED
    BY <2>1, <2>2, ListInduction
<1>5. f[at(Len(x), r)] = g[at(0, r)]
  <2>1. 0 \in Nat /\ 0 + Consumed(r) = Len(y) /\ Len(x) + 0 = Len(x)
    BY <1>3
  <2>. QED
    BY <1>4, <2>1
<1> DEFINE q == <<o>> \o r
<1>6. q \in Seq(Op) /\ q # <<>> /\ Head(q) = o /\ Tail(q) = r
  BY ConsSeq
<1> HIDE DEF q
<1>7. at(0, q) \in Readers
  BY <1>6 DEF Readers
<1>8. f[at(0, q)] = Piece(x \o y, 0, o) \o f[at(0 + Consumes(o), r)]
  BY <1>1, <1>6, <1>7 DEF IsResult
<1>9. 0 + Consumes(o) = Len(x)
  BY <1>3
<1>10. Piece(x \o y, 0, o) = ResultOf(x, o)
  <2>1. CASE o.op = "retain"
    <3>1. o.n = Len(x)
      BY <2>1 DEF Consumes
    <3>2. SubSeq(x \o y, 0 + 1, 0 + o.n) = x
      BY <1>3, <3>1, SubSeqPrefix DEF Text
    <3>. QED
      BY <2>1, <3>2 DEF Piece, ResultOf
  <2>2. CASE o.op # "retain"
    BY <2>2 DEF Piece, ResultOf, Op
  <2>. QED
    BY <2>1, <2>2
<1>11. Run(x \o y, q) = f[at(0, q)] /\ Run(y, r) = g[at(0, r)]
  BY <1>1, <1>2 DEF Run
<1> HIDE DEF at
<1>12. Run(x \o y, q) = ResultOf(x, o) \o Run(y, r)
  BY <1>5, <1>8, <1>9, <1>10, <1>11
<1>. QED
  BY <1>12 DEF q

\* The operations consume the text p, exactly: ApplyChangeset accepts them.
LEMMA TextNil == <<>> \in Text /\ Len(<<>>) = 0 /\ \A p \in Text : Len(p) \in Nat /\ (Len(p) = 0 => p = <<>>)
  BY EmptySeq, LenProperties DEF Text

\* Texts joined are a text.
LEMMA TextConcat ==
    ASSUME NEW x \in Text, NEW y \in Text
    PROVE  x \o y \in Text /\ Len(x \o y) = Len(x) + Len(y)
  BY ConcatProperties DEF Text

\* What one operation makes of the part it consumes is a text of the length it produces.
LEMMA ResultText ==
    ASSUME NEW x \in Text, NEW o \in Op, Len(x) = Consumes(o)
    PROVE  ResultOf(x, o) \in Text /\ Len(ResultOf(x, o)) = Produces(o)
<1>1. o.chars \in Text /\ o.op \in {"retain", "insert", "delete"}
  BY DEF Op
<1>2. CASE o.op = "retain"
  BY <1>2 DEF ResultOf, Consumes, Produces
<1>3. CASE o.op = "insert"
  BY <1>1, <1>3 DEF ResultOf, Consumes, Produces
<1>4. CASE o.op = "delete"
  BY <1>4, TextNil DEF ResultOf, Consumes, Produces
<1>. QED
  BY <1>1, <1>2, <1>3, <1>4

\* Joining texts is associative.
LEMMA TextAssociative ==
    ASSUME NEW x \in Text, NEW y \in Text, NEW z \in Text
    PROVE  (x \o y) \o z = x \o (y \o z)
  BY ConcatAssociative, SMTT(40) DEF Text

\* The empty text joins as nothing.
LEMMA TextConcatNil ==
    ASSUME NEW x \in Text
    PROVE  x \o <<>> = x /\ <<>> \o x = x
  BY ConcatEmptySeq DEF Text

\* The first of the operations that fit p takes x of it, and leaves y.
Takes(p, ops, x, y) ==
    /\ p = x \o y /\ Len(x) = Consumes(Head(ops)) /\ Head(ops) \in Op
    /\ Fits(y, Tail(ops))
    /\ Run(p, ops) = ResultOf(x, Head(ops)) \o Run(y, Tail(ops))

\* Operations that fit a text can be taken off one at a time.
LEMMA FitsHead ==
    ASSUME NEW p, NEW ops, Fits(p, ops), ops # <<>>
    PROVE  \E x, y \in Text : Takes(p, ops, x, y)
<1> DEFINE h == Head(ops)
           r == Tail(ops)
           k == Consumes(h)
<1>1. p \in Text /\ ops \in Seq(Op) /\ Len(p) \in Nat
  BY TextNil DEF Fits
<1>2. h \in Op /\ r \in Seq(Op) /\ ops = <<h>> \o r
  BY <1>1, HeadAndTail
<1>3. k \in Nat /\ Consumed(r) \in Nat /\ Len(p) = k + Consumed(r)
  BY <1>1, <1>2, OpTypes, ConsumedIs DEF Fits
<1>4. k \in 0..Len(p)
  BY <1>1, <1>3
<1> DEFINE x == SubSeq(p, 1, k)
           y == SubSeq(p, k + 1, Len(p))
<1>5. x \in Text /\ y \in Text /\ p = x \o y /\ Len(x) = k /\ Len(y) = Len(p) - k
  <2> HIDE DEF k
  <2>. QED
    BY <1>1, <1>4, Cut, ZenonT(40) DEF Text
<1>6. Len(y) = Consumed(r)
  BY <1>3, <1>5
<1> HIDE DEF x, y, h, r
<1>7. Run(x \o y, <<h>> \o r) = ResultOf(x, h) \o Run(y, r)
  BY <1>2, <1>5, <1>6, RunCons
<1>8. Fits(y, r)
  BY <1>2, <1>5, <1>6 DEF Fits
<1>. QED
  BY <1>2, <1>5, <1>7, <1>8 DEF Takes, h, r

\* Operations that fit a text make a text of the length they produce of it.
LEMMA RunText ==
    ASSUME NEW p, NEW ops, Fits(p, ops)
    PROVE  Run(p, ops) \in Text /\ Len(Run(p, ops)) = Produced(ops)
<1> DEFINE T == {q \in Seq(Op) : \A t \in Text : Fits(t, q) =>
                    Run(t, q) \in Text /\ Len(Run(t, q)) = Produced(q)}
<1>1. <<>> \in T
  BY RunNil, TextNil, ProducedIs, EmptySeq
<1>2. ASSUME NEW q \in Seq(Op), q # <<>>, Tail(q) \in T PROVE q \in T
  <2>1. SUFFICES ASSUME NEW t \in Text, Fits(t, q)
                 PROVE  Run(t, q) \in Text /\ Len(Run(t, q)) = Produced(q)
    OBVIOUS
  <2>2. PICK x, y \in Text : Takes(t, q, x, y)
    <3>. HIDE DEF T
    <3>. QED
      BY <1>2, <2>1, FitsHead
  <2>3. Run(y, Tail(q)) \in Text /\ Len(Run(y, Tail(q))) = Produced(Tail(q))
    BY <1>2, <2>2 DEF Takes
  <2>4. ResultOf(x, Head(q)) \in Text /\ Len(ResultOf(x, Head(q))) = Produces(Head(q))
    BY <2>2, ResultText DEF Takes
  <2>5. Run(t, q) \in Text /\ Len(Run(t, q)) = Produces(Head(q)) + Produced(Tail(q))
    BY <2>2, <2>3, <2>4, TextConcat DEF Takes
  <2>. QED
    BY <1>2, <2>5, ProducedIs
<1>3. ops \in T
  <2>1. \A q \in Seq(Op) : q \in T
    <3> HIDE DEF T
    <3>. QED
      BY <1>1, <1>2, ListInduction
  <2>. QED
    BY <2>1 DEF Fits
<1>. QED
  BY <1>3 DEF Fits

\* The two sums over joined lists.
LEMMA ConsumedConcat ==
    ASSUME NEW u \in Seq(Op), NEW v \in Seq(Op)
    PROVE  /\ u \o v \in Seq(Op)
           /\ Consumed(u \o v) = Consumed(u) + Consumed(v)
           /\ Produced(u \o v) = Produced(u) + Produced(v)
<1> DEFINE T == {q \in Seq(Op) : /\ Consumed(q \o v) = Consumed(q) + Consumed(v)
                                 /\ Produced(q \o v) = Produced(q) + Produced(v)}
<1>1. <<>> \in T
  BY ConcatEmptySeq, ConsumedIs, ProducedIs, EmptySeq
<1>2. ASSUME NEW q \in Seq(Op), q # <<>>, Tail(q) \in T PROVE q \in T
  <2> DEFINE h == Head(q)
             r == Tail(q)
  <2>1. h \in Op /\ r \in Seq(Op) /\ q = <<h>> \o r /\ <<h>> \in Seq(Op)
    BY <1>2, HeadAndTail, ConsSeq
  <2>2. r \o v \in Seq(Op) /\ q \o v = <<h>> \o (r \o v)
    BY <2>1, ConcatProperties, ConcatAssociative
  <2>3. Consumed(r \o v) = Consumed(r) + Consumed(v) /\ Produced(r \o v) = Produced(r) + Produced(v)
    BY <1>2
  <2>4. Consumes(h) \in Nat /\ Produces(h) \in Nat
    BY <2>1, OpTypes
  <2> HIDE DEF h, r
  <2>5. Consumed(q \o v) = Consumes(h) + Consumed(r \o v) /\ Produced(q \o v) = Produces(h) + Produced(r \o v)
    BY <2>1, <2>2, ConsumedCons
  <2>6. Consumed(q) = Consumes(h) + Consumed(r) /\ Produced(q) = Produces(h) + Produced(r)
    BY <2>1, ConsumedCons
  <2>7. Consumed(r) \in Nat /\ Produced(r) \in Nat /\ Consumed(v) \in Nat /\ Produced(v) \in Nat
    BY <2>1, ConsumedIs, ProducedIs
  <2>. QED
    BY <2>3, <2>4, <2>5, <2>6, <2>7
<1>3. \A q \in Seq(Op) : q \in T
  <2> HIDE DEF T
  <2>. QED
    BY <1>1, <1>2, ListInduction
<1>. QED
  BY <1>3, ConcatProperties

\* Operations side by side work on the parts of a text independently.
LEMMA RunConcat ==
    ASSUME NEW x, NEW y, NEW u, NEW v, Fits(x, u), Fits(y, v)
    PROVE  Fits(x \o y, u \o v) /\ Run(x \o y, u \o v) = Run(x, u) \o Run(y, v)
<1> DEFINE T == {q \in Seq(Op) : \A t \in Text : Fits(t, q) =>
                    Run(t \o y, q \o v) = Run(t, q) \o Run(y, v)}
<1>0. y \in Text /\ v \in Seq(Op) /\ Run(y, v) \in Text
  BY RunText DEF Fits
<1>1. <<>> \in T
  <2>1. <<>> \in Seq(Op) /\ <<>> \o v = v
    BY <1>0, EmptySeq, ConcatEmptySeq
  <2>2. ASSUME NEW t \in Text, Fits(t, <<>>) PROVE Run(t \o y, <<>> \o v) = Run(t, <<>>) \o Run(y, v)
    <3>1. t = <<>>
      BY <2>2, ConsumedIs, TextNil DEF Fits
    <3>2. <<>> \o y = y /\ <<>> \o Run(y, v) = Run(y, v)
      BY <1>0, TextConcatNil
    <3>. QED
      BY <2>1, <3>1, <3>2, RunNil
  <2>. QED
    BY <2>1, <2>2
<1>2. ASSUME NEW q \in Seq(Op), q # <<>>, Tail(q) \in T PROVE q \in T
  <2>1. SUFFICES ASSUME NEW t \in Text, Fits(t, q)
                 PROVE  Run(t \o y, q \o v) = Run(t, q) \o Run(y, v)
    OBVIOUS
  <2> DEFINE h == Head(q)
             r == Tail(q)
  <2>2. PICK a, b \in Text :
              /\ t = a \o b /\ Len(a) = Consumes(h) /\ h \in Op /\ Fits(b, r)
              /\ Run(t, q) = ResultOf(a, h) \o Run(b, r)
    <3>1. PICK a, b \in Text : Takes(t, q, a, b)
      <4>. HIDE DEF T
      <4>. QED
        BY <1>2, <2>1, FitsHead
    <3>. QED
      BY <3>1 DEF Takes
  <2>3. Run(b \o y, r \o v) = Run(b, r) \o Run(y, v)
    BY <1>2, <2>2
  <2>4. r \in Seq(Op) /\ q = <<h>> \o r /\ <<h>> \in Seq(Op)
    BY <1>2, <2>2, HeadAndTail, ConsSeq
  <2> HIDE DEF h, r
  <2>5. b \o y \in Text /\ Len(b \o y) = Len(b) + Len(y) /\ r \o v \in Seq(Op)
        /\ Consumed(r \o v) = Len(b \o y)
    <3>1. b \o y \in Text /\ Len(b \o y) = Len(b) + Len(y)
      BY <1>0, <2>2, TextConcat
    <3>2. r \o v \in Seq(Op) /\ Consumed(r \o v) = Consumed(r) + Consumed(v)
      BY <1>0, <2>4, ConsumedConcat
    <3>. QED
      BY <2>2, <3>1, <3>2 DEF Fits
  <2>6. q \o v = <<h>> \o (r \o v) /\ t \o y = a \o (b \o y)
    <3>1. q \o v = <<h>> \o (r \o v)
      BY <1>0, <2>4, ConcatAssociative
    <3>2. t \o y = a \o (b \o y)
      BY <1>0, <2>2, TextAssociative
    <3>. QED
      BY <3>1, <3>2
  <2>7. Run(a \o (b \o y), <<h>> \o (r \o v)) = ResultOf(a, h) \o Run(b \o y, r \o v)
    BY <2>2, <2>5, RunCons
  <2>8. Run(b, r) \in Text /\ ResultOf(a, h) \in Text
    BY <2>2, RunText, ResultText
  <2>9. (ResultOf(a, h) \o Run(b, r)) \o Run(y, v) = ResultOf(a, h) \o (Run(b, r) \o Run(y, v))
    <3> DEFINE m == ResultOf(a, h)
               w == Run(b, r)
               z == Run(y, v)
    <3>1. m \in Text /\ w \in Text /\ z \in Text
      BY <1>0, <2>8
    <3> HIDE DEF m, w, z
    <3>2. (m \o w) \o z = m \o (w \o z)
      BY <3>1, TextAssociative, SMTT(40)
    <3>. QED
      BY <3>2 DEF m, w, z
  <2>. QED
    BY <2>2, <2>3, <2>6, <2>7, <2>9
<1>3. \A q \in Seq(Op) : q \in T
  <2> HIDE DEF T
  <2>. QED
    BY <1>1, <1>2, ListInduction
<1>4. Fits(x \o y, u \o v)
  <2>1. x \in Text /\ y \in Text /\ u \in Seq(Op) /\ v \in Seq(Op)
    BY DEF Fits
  <2>2. x \o y \in Text /\ Len(x \o y) = Len(x) + Len(y)
    BY <2>1, TextConcat
  <2>3. u \o v \in Seq(Op) /\ Consumed(u \o v) = Consumed(u) + Consumed(v)
    BY <2>1, ConsumedConcat
  <2>. QED
    BY <2>2, <2>3 DEF Fits
<1>. QED
  BY <1>3, <1>4 DEF Fits

\* A single operation on the text it consumes.
LEMMA RunOne ==
    ASSUME NEW x \in Text, NEW o \in Op, Len(x) = Consumes(o)
    PROVE  Fits(x, <<o>>) /\ Run(x, <<o>>) = ResultOf(x, o)
<1>1. <<>> \in Seq(Op) /\ <<>> \in Text /\ Consumed(<<>>) = Len(<<>>)
  BY EmptySeq, ConsumedIs DEF Text
<1>2. <<o>> \in Seq(Op) /\ <<o>> \o <<>> = <<o>> /\ x \o <<>> = x
  BY ConsSeq, <1>1, ConcatEmptySeq DEF Text
<1>3. Run(x \o <<>>, <<o>> \o <<>>) = ResultOf(x, o) \o Run(<<>>, <<>>)
  BY <1>1, RunCons
<1>4. ResultOf(x, o) \o <<>> = ResultOf(x, o)
  BY ResultText, ConcatEmptySeq DEF Text
<1>5. Consumed(<<o>> \o <<>>) = Consumes(o) + Consumed(<<>>)
  BY <1>1, ConsumedCons
<1>6. Run(x, <<o>>) = ResultOf(x, o)
  BY <1>2, <1>3, <1>4, RunNil
<1>7. Consumed(<<o>>) = Len(x)
  BY <1>1, <1>2, <1>5, OpTypes, ConsumedIs
<1>. QED
  BY <1>2, <1>6, <1>7 DEF Fits

\* The last operation l extended by o.
Merge(l, o) == [op |-> l.op, n |-> l.n + o.n, chars |-> l.chars \o o.chars]

\* Operations in the form the code makes are operations of a size above zero.
LEMMA PlainOps ==
    /\ Plain \subseteq Op
    /\ \A o \in Plain : /\ Size(o) \in Nat \ {0}
                        /\ (o.op = "insert" => o = Insert(o.chars))
                        /\ (o.op = "retain" => o = Retain(o.n))
                        /\ (o.op = "delete" => o = Delete(o.n))
    /\ \A k \in Nat \ {0} : Retain(k) \in Plain /\ Delete(k) \in Plain
    /\ \A s \in Text \ {<<>>} : Insert(s) \in Plain
<1>1. \A o \in Op : o.n \in Nat /\ o.chars \in Text /\ o.op \in {"retain", "insert", "delete"}
                      /\ o = [op |-> o.op, n |-> o.n, chars |-> o.chars] /\ Len(o.chars) \in Nat
  BY TextNil DEF Op
<1>2. ASSUME NEW o \in Plain
      PROVE  /\ o \in Op /\ Size(o) \in Nat \ {0}
             /\ (o.op = "insert" => o = Insert(o.chars))
             /\ (o.op = "retain" => o = Retain(o.n))
             /\ (o.op = "delete" => o = Delete(o.n))
  <2>1. o \in Op /\ Size(o) > 0 /\ (o.op = "insert" => o.n = 0) /\ (o.op # "insert" => o.chars = <<>>)
    BY DEF Plain
  <2>2. Size(o) \in Nat
    BY <1>1, <2>1 DEF Size
  <2>3. o = [op |-> o.op, n |-> o.n, chars |-> o.chars]
    BY <1>1, <2>1
  <2>. QED
    BY <2>1, <2>2, <2>3 DEF Insert, Retain, Delete
<1>3. ASSUME NEW k \in Nat \ {0} PROVE Retain(k) \in Plain /\ Delete(k) \in Plain
  <2>1. Retain(k) \in Op /\ Delete(k) \in Op
    BY TextNil DEF Retain, Delete, Op
  <2>2. /\ Retain(k).op = "retain" /\ Retain(k).n = k /\ Retain(k).chars = <<>>
        /\ Delete(k).op = "delete" /\ Delete(k).n = k /\ Delete(k).chars = <<>>
    BY DEF Retain, Delete
  <2>3. Size(Retain(k)) > 0 /\ Size(Delete(k)) > 0
    BY <2>2 DEF Size
  <2>. QED
    BY <2>1, <2>2, <2>3 DEF Plain
<1>4. ASSUME NEW s \in Text \ {<<>>} PROVE Insert(s) \in Plain
  <2>1. Insert(s) \in Op
    BY DEF Insert, Op
  <2>2. Insert(s).op = "insert" /\ Insert(s).n = 0 /\ Insert(s).chars = s
    BY DEF Insert
  <2>3. Size(Insert(s)) > 0
    BY <2>2, TextNil DEF Size
  <2>. QED
    BY <2>1, <2>2, <2>3 DEF Plain
<1>. QED
  BY <1>2, <1>3, <1>4

\* The merge of two operations of one kind is of that kind, and in plain form if they are.
LEMMA MergeIs ==
    ASSUME NEW l \in Op, NEW o \in Op, l.op = o.op
    PROVE  /\ Merge(l, o) \in Op
           /\ Merge(l, o).op = o.op
           /\ l \in Plain /\ o \in Plain => Merge(l, o) \in Plain
<1>1. /\ l.n \in Nat /\ o.n \in Nat /\ l.n + o.n \in Nat
      /\ l.chars \in Text /\ o.chars \in Text /\ l.chars \o o.chars \in Text
      /\ Len(l.chars \o o.chars) = Len(l.chars) + Len(o.chars)
      /\ l.op \in {"retain", "insert", "delete"}
  BY TextConcat DEF Op
<1>2. Merge(l, o) \in Op /\ Merge(l, o).op = o.op
  BY <1>1 DEF Merge, Op
<1>3. ASSUME l \in Plain, o \in Plain PROVE Merge(l, o) \in Plain
  <2>0. Len(l.chars) \in Nat /\ Len(o.chars) \in Nat /\ <<>> \o <<>> = <<>>
    BY <1>1, TextNil, TextConcatNil
  <2>1. CASE l.op = "retain"
    <3>1. l = Retain(l.n) /\ o = Retain(o.n) /\ Size(l) = l.n /\ Size(l) # 0
      BY <1>3, <2>1, PlainOps DEF Size
    <3>2. l.chars = <<>> /\ o.chars = <<>>
      BY <3>1 DEF Retain
    <3>3. Merge(l, o) = Retain(l.n + o.n)
      BY <2>0, <2>1, <3>2 DEF Merge, Retain
    <3>. QED
      BY <1>1, <3>1, <3>3, PlainOps
  <2>2. CASE l.op = "delete"
    <3>1. l = Delete(l.n) /\ o = Delete(o.n) /\ Size(l) = l.n /\ Size(l) # 0
      BY <1>3, <2>2, PlainOps DEF Size
    <3>2. l.chars = <<>> /\ o.chars = <<>>
      BY <3>1 DEF Delete
    <3>3. Merge(l, o) = Delete(l.n + o.n)
      BY <2>0, <2>2, <3>2 DEF Merge, Delete
    <3>. QED
      BY <1>1, <3>1, <3>3, PlainOps
  <2>3. CASE l.op = "insert"
    <3>1. l = Insert(l.chars) /\ o = Insert(o.chars) /\ Size(l) = Len(l.chars) /\ Size(l) # 0
      BY <1>3, <2>3, PlainOps DEF Size
    <3>2. l.n = 0 /\ o.n = 0
      BY <3>1 DEF Insert
    <3>3. Merge(l, o) = Insert(l.chars \o o.chars)
      BY <2>3, <3>2 DEF Merge, Insert
    <3>4. l.chars \o o.chars # <<>>
      BY <1>1, <2>0, <3>1, TextNil
    <3>. QED
      BY <1>1, <3>3, <3>4, PlainOps
  <2>. QED
    BY <1>1, <2>1, <2>2, <2>3
<1>. QED
  BY <1>2, <1>3

\* addOp appends the operation, or extends the last one by it.
Adds(S, ops, o) ==
    \/ /\ ops # <<>> => ops[Len(ops)].op # o.op
       /\ AddOp(ops, o) = ops \o <<o>>
    \/ \E f \in Seq(S), l \in S :
          /\ ops = f \o <<l>> /\ ops[Len(ops)] = l /\ l.op = o.op
          /\ Len(ops) = Len(f) + 1
          /\ AddOp(ops, o) = f \o <<Merge(l, o)>>

\* addOp leaves the list alone (an operation of size zero), appends, or merges.
LEMMA AddOpIs ==
    ASSUME NEW S, S \subseteq Op, NEW ops \in Seq(S), NEW o \in S
    PROVE  Adds(S, ops, o)
<1>0. ops \in Seq(Op)
  BY SeqMonotonic
<1>1. CASE ~(ops # <<>> /\ ops[Len(ops)].op = o.op)
  BY <1>1, AppendIsConcat DEF AddOp, Adds
<1>2. CASE ops # <<>> /\ ops[Len(ops)].op = o.op
  <2> DEFINE k == Len(ops)
  <2>1. PICK f \in Seq(S), l \in S : ops = Append(f, l)
    BY <1>2, SequenceEmptyOrAppend
  <2>2. k = Len(f) + 1 /\ ops[k] = l /\ (\A i \in 1..Len(f) : ops[i] = f[i]) /\ Len(f) \in Nat
    BY <2>1, AppendProperties, LenProperties
  <2>3. ops = f \o <<l>>
    BY <2>1, AppendIsConcat
  <2>4. f \in Seq(Op) /\ l \in Op /\ o \in Op
    BY SeqMonotonic
  <2>5. AddOp(ops, o) = [ops EXCEPT ![k] = Merge(l, o)]
    <3>1. AddOp(ops, o) = [ops EXCEPT ![k].n = @ + o.n, ![k].chars = @ \o o.chars]
      BY <1>2 DEF AddOp
    <3>2. ops \in [1..k -> Op] /\ k \in 1..k
      BY <1>0, <2>2, LenProperties
    <3>3. Merge(l, o) = [[l EXCEPT !.n = l.n + o.n] EXCEPT !.chars = l.chars \o o.chars]
      <4> DEFINE r == [l EXCEPT !.n = l.n + o.n]
                 c == l.chars \o o.chars
      <4>1. r = [op |-> l.op, n |-> l.n + o.n, chars |-> l.chars]
        BY <2>4 DEF Op
      <4> HIDE DEF r, c
      <4>2. [r EXCEPT !.chars = c] = [op |-> l.op, n |-> l.n + o.n, chars |-> c]
        BY <4>1
      <4>. QED
        BY <4>2 DEF Merge, r, c
    <3> HIDE DEF k
    <3>. QED
      BY <2>2, <3>1, <3>2, <3>3
  <2>6. Merge(l, o) \in Op
    BY <1>2, <2>2, <2>4, MergeIs
  <2> DEFINE q == [ops EXCEPT ![k] = Merge(l, o)]
             w == f \o <<Merge(l, o)>>
  <2>7. q \in Seq(Op) /\ Len(q) = k /\ \A i \in 1..k : q[i] = IF i = k THEN Merge(l, o) ELSE ops[i]
    <3>1. k \in 1..Len(ops)
      BY <2>2
    <3>. QED
      BY <1>0, <2>6, <3>1, ExceptSeq
  <2>8. w \in Seq(Op) /\ Len(w) = k /\ \A i \in 1..k : w[i] = IF i = k THEN Merge(l, o) ELSE f[i]
    <3>1. w = Append(f, Merge(l, o))
      BY <2>4, <2>6, AppendIsConcat
    <3> HIDE DEF w
    <3>. QED
      BY <2>2, <2>4, <2>6, <3>1, AppendProperties
  <2>9. q = w
    <3>1. \A i \in 1..k : q[i] = w[i]
      <4> HIDE DEF q, w
      <4>. QED
        BY <2>2, <2>7, <2>8
    <3> HIDE DEF q, w
    <3>. QED
      BY <2>7, <2>8, <3>1, SeqEqual
  <2>. QED
    BY <1>2, <2>2, <2>3, <2>5, <2>9 DEF Adds
<1>. QED
  BY <1>1, <1>2

\* A merged operation does to two adjacent parts what the two operations do to each.
LEMMA MergeResult ==
    ASSUME NEW x \in Text, NEW y \in Text, NEW l \in Op, NEW o \in Op, l.op = o.op,
           Len(x) = Consumes(l), Len(y) = Consumes(o)
    PROVE  /\ Len(x \o y) = Consumes(Merge(l, o))
           /\ ResultOf(x \o y, Merge(l, o)) = ResultOf(x, l) \o ResultOf(y, o)
<1>1. Len(x \o y) = Len(x) + Len(y)
  BY TextConcat
<1>2. Merge(l, o).op = o.op /\ Merge(l, o).n = l.n + o.n /\ Merge(l, o).chars = l.chars \o o.chars
  BY DEF Merge
<1>3. o.op \in {"retain", "insert", "delete"}
  BY DEF Op
<1>4. <<>> \o <<>> = <<>>
  BY TextNil, TextConcatNil
<1>5. CASE o.op = "retain"
  BY <1>1, <1>2, <1>5 DEF Consumes, ResultOf
<1>6. CASE o.op = "delete"
  BY <1>1, <1>2, <1>4, <1>6 DEF Consumes, ResultOf
<1>7. CASE o.op = "insert"
  <2>1. Len(x) = 0 /\ Len(y) = 0 /\ Consumes(Merge(l, o)) = 0
    BY <1>2, <1>7 DEF Consumes
  <2>2. /\ ResultOf(x, l) = l.chars /\ ResultOf(y, o) = o.chars
        /\ ResultOf(x \o y, Merge(l, o)) = Merge(l, o).chars
    BY <1>2, <1>7 DEF ResultOf
  <2>. QED
    BY <1>1, <1>2, <2>1, <2>2
<1>. QED
  BY <1>3, <1>5, <1>6, <1>7

\* What addOp adds works on what is next of the text.
LEMMA AddOpRun ==
    ASSUME NEW p, NEW out, Fits(p, out), NEW x \in Text, NEW o \in Op, Len(x) = Consumes(o)
    PROVE  /\ Fits(p \o x, AddOp(out, o))
           /\ Run(p \o x, AddOp(out, o)) = Run(p, out) \o ResultOf(x, o)
<1>1. p \in Text /\ out \in Seq(Op) /\ Consumed(out) = Len(p)
  BY DEF Fits
<1>2. Fits(x, <<o>>) /\ Run(x, <<o>>) = ResultOf(x, o)
  BY RunOne
<1>3. CASE AddOp(out, o) = out \o <<o>>
  <2>1. Fits(p \o x, out \o <<o>>) /\ Run(p \o x, out \o <<o>>) = Run(p, out) \o Run(x, <<o>>)
    BY <1>2, RunConcat
  <2>. QED
    BY <1>2, <1>3, <2>1
<1>4. CASE \E f \in Seq(Op), l \in Op :
              /\ out = f \o <<l>> /\ l.op = o.op
              /\ AddOp(out, o) = f \o <<Merge(l, o)>>
  <2>1. PICK f \in Seq(Op), l \in Op :
              /\ out = f \o <<l>> /\ l.op = o.op
              /\ AddOp(out, o) = f \o <<Merge(l, o)>>
    BY <1>4
  <2>2. <<l>> \in Seq(Op) /\ Consumed(<<l>>) = Consumes(l) /\ Consumes(l) \in Nat
    <3>1. <<l>> \in Seq(Op) /\ <<l>> \o <<>> = <<l>> /\ <<>> \in Seq(Op)
      BY ConsSeq, EmptySeq, ConcatEmptySeq
    <3>2. Consumed(<<l>> \o <<>>) = Consumes(l) + Consumed(<<>>)
      BY <3>1, ConsumedCons
    <3>. QED
      BY <3>1, <3>2, ConsumedIs, OpTypes
  <2>3. Consumed(out) = Consumed(f) + Consumes(l) /\ Consumed(f) \in Nat
    BY <2>1, <2>2, ConsumedConcat, ConsumedIs
  <2> DEFINE k == Consumed(f)
             y == SubSeq(p, 1, k)
             z == SubSeq(p, k + 1, Len(p))
  <2>4. y \in Text /\ z \in Text /\ p = y \o z /\ Len(y) = k /\ Len(z) = Consumes(l)
    <3>1. k \in 0..Len(p) /\ Len(p) - k = Consumes(l) /\ p \in Seq(Nat)
      BY <1>1, <2>2, <2>3 DEF Text
    <3> HIDE DEF k
    <3>2. /\ y \in Seq(Nat) /\ Len(y) = k
          /\ z \in Seq(Nat) /\ Len(z) = Len(p) - k
          /\ p = y \o z
      BY <3>1, Cut
    <3>. QED
      BY <3>1, <3>2 DEF Text
  <2> HIDE DEF y, z
  <2>5. Fits(y, f) /\ Run(y, f) \in Text
    BY <2>4, RunText DEF Fits
  <2>6. Fits(z, <<l>>) /\ Run(z, <<l>>) = ResultOf(z, l) /\ ResultOf(z, l) \in Text
    BY <2>4, RunOne, ResultText
  <2>7. Run(p, out) = Run(y, f) \o ResultOf(z, l)
    <3>1. Run(y \o z, f \o <<l>>) = Run(y, f) \o Run(z, <<l>>)
      BY <2>5, <2>6, RunConcat, SMTT(40)
    <3>. QED
      BY <2>1, <2>4, <2>6, <3>1
  <2> DEFINE m == Merge(l, o)
  <2>8. m \in Op
    BY <2>1, MergeIs
  <2>9. z \o x \in Text /\ Len(z \o x) = Consumes(m) /\ ResultOf(z \o x, m) = ResultOf(z, l) \o ResultOf(x, o)
    BY <2>1, <2>4, MergeResult, TextConcat, SMTT(40)
  <2> HIDE DEF m
  <2>10. Fits(z \o x, <<m>>) /\ Run(z \o x, <<m>>) = ResultOf(z \o x, m)
    BY <2>8, <2>9, RunOne
  <2>11. /\ Fits(y \o (z \o x), f \o <<m>>)
         /\ Run(y \o (z \o x), f \o <<m>>) = Run(y, f) \o ResultOf(z \o x, m)
    <3> DEFINE t == z \o x
               c == <<m>>
    <3>1. Fits(t, c) /\ Run(t, c) = ResultOf(t, m)
      BY <2>10
    <3> HIDE DEF t, c
    <3>2. Fits(y \o t, f \o c) /\ Run(y \o t, f \o c) = Run(y, f) \o Run(t, c)
      BY <2>5, <3>1, RunConcat, SMTT(40)
    <3>. QED
      BY <3>1, <3>2 DEF t, c
  <2>12. y \o (z \o x) = p \o x
    BY <2>4, TextAssociative
  <2> DEFINE u == Run(y, f)
             v == ResultOf(z, l)
             w == ResultOf(x, o)
  <2>13. u \in Text /\ v \in Text /\ w \in Text
    BY <2>5, <2>6, ResultText
  <2>14. u \o (v \o w) = (u \o v) \o w
    <3> HIDE DEF u, v, w
    <3>. QED
      BY <2>13, TextAssociative
  <2>15. AddOp(out, o) = f \o <<m>>
    BY <2>1 DEF m
  <2>. QED
    BY <2>7, <2>9, <2>11, <2>12, <2>14, <2>15
<1>5. Adds(Op, out, o)
  BY <1>1, AddOpIs
<1>. QED
  BY <1>3, <1>4, <1>5 DEF Adds

\* addOp keeps its lists in their form.
LEMMA AddOpNormal ==
    ASSUME NEW out, Normal(out), NEW o \in Plain
    PROVE  Normal(AddOp(out, o))
<1>1. out \in Seq(Plain) /\ Len(out) \in Nat
  BY LenProperties DEF Normal
<1>2. CASE /\ out # <<>> => out[Len(out)].op # o.op
           /\ AddOp(out, o) = out \o <<o>>
  <2> DEFINE r == Append(out, o)
  <2>1. r = out \o <<o>>
    BY <1>1, AppendIsConcat
  <2>2. r \in Seq(Plain) /\ Len(r) = Len(out) + 1 /\ r[Len(out) + 1] = o
        /\ \A i \in 1..Len(out) : r[i] = out[i]
    BY <1>1, AppendProperties
  <2> HIDE DEF r
  <2>3. ASSUME NEW i \in 1..Len(r) - 1 PROVE r[i].op # r[i + 1].op
    <3>1. CASE i = Len(out)
      <4>1. out # <<>> /\ r[i] = out[i] /\ r[i + 1] = o
        BY <1>1, <2>2, <3>1, EmptySeq
      <4>. QED
        BY <1>2, <3>1, <4>1
    <3>2. CASE i # Len(out)
      <4>1. i \in 1..Len(out) - 1 /\ r[i] = out[i] /\ r[i + 1] = out[i + 1]
        BY <1>1, <2>2, <3>2
      <4>. QED
        BY <4>1 DEF Normal
    <3>. QED
      BY <3>1, <3>2
  <2>. QED
    BY <1>2, <2>1, <2>2, <2>3 DEF Normal
<1>3. CASE \E f \in Seq(Plain), l \in Plain :
              /\ out = f \o <<l>> /\ out[Len(out)] = l /\ l.op = o.op
              /\ Len(out) = Len(f) + 1
              /\ AddOp(out, o) = f \o <<Merge(l, o)>>
  <2>1. PICK f \in Seq(Plain), l \in Plain :
              /\ out = f \o <<l>> /\ out[Len(out)] = l /\ l.op = o.op
              /\ Len(out) = Len(f) + 1
              /\ AddOp(out, o) = f \o <<Merge(l, o)>>
    BY <1>3
  <2> DEFINE m == Merge(l, o)
             q == Append(f, l)
             r == Append(f, m)
  <2>2. m \in Plain /\ m.op = l.op
    <3>1. l \in Op /\ o \in Op
      BY PlainOps
    <3>. QED
      BY <2>1, <3>1, MergeIs
  <2>3. q = out /\ r = AddOp(out, o)
    <3> HIDE DEF m
    <3>1. q = f \o <<l>> /\ r = f \o <<m>>
      BY <2>2, AppendIsConcat
    <3>. QED
      BY <2>1, <3>1 DEF m
  <2> HIDE DEF m
  <2>4. /\ r \in Seq(Plain) /\ Len(r) = Len(f) + 1 /\ r[Len(f) + 1] = m
        /\ \A i \in 1..Len(f) : r[i] = f[i]
        /\ q[Len(f) + 1] = l
        /\ \A i \in 1..Len(f) : q[i] = f[i]
    BY <2>2, AppendProperties
  <2>5. Len(f) \in Nat
    BY LenProperties
  <2> HIDE DEF q, r
  <2>6. ASSUME NEW i \in 1..Len(r) - 1 PROVE r[i].op # r[i + 1].op
    <3>1. i \in 1..Len(out) - 1 /\ i \in 1..Len(f)
      BY <2>1, <2>4, <2>5
    <3>2. out[i].op # out[i + 1].op
      BY <3>1 DEF Normal
    <3>3. r[i] = out[i]
      BY <2>3, <2>4, <3>1
    <3>4. r[i + 1].op = out[i + 1].op
      <4>1. CASE i = Len(f)
        BY <2>2, <2>3, <2>4, <4>1
      <4>2. CASE i # Len(f)
        <5>1. i + 1 \in 1..Len(f)
          BY <2>5, <3>1, <4>2
        <5>. QED
          BY <2>3, <2>4, <5>1
      <4>. QED
        BY <4>1, <4>2
    <3>. QED
      BY <3>2, <3>3, <3>4
  <2>. QED
    BY <2>3, <2>4, <2>6 DEF Normal
<1>. QED
  <2>1. Plain \subseteq Op
    BY PlainOps
  <2>2. Adds(Plain, out, o)
    BY <1>1, <2>1, AddOpIs
  <2>. QED
    BY <1>2, <1>3, <2>2 DEF Adds

\* What a cursor has left of an operation after k units of it.
Rest(o, k) == [op |-> o.op, n |-> IF o.op = "insert" THEN 0 ELSE o.n - k,
               chars |-> SubSeq(o.chars, k + 1, Len(o.chars))]

\* The rest of an operation is of its kind, shorter by what was used, and plain if the
\* operation is.
LEMMA RestIs ==
    ASSUME NEW o \in Op, NEW k \in 0..Size(o), k # Size(o)
    PROVE  /\ Rest(o, k) \in Op
           /\ Rest(o, k).op = o.op
           /\ Size(Rest(o, k)) = Size(o) - k
           /\ o \in Plain => Rest(o, k) \in Plain
<1>1. /\ o.n \in Nat /\ o.chars \in Text /\ o.op \in {"retain", "insert", "delete"}
      /\ Len(o.chars) \in Nat /\ Size(o) \in Nat
  BY OpTypes DEF Op
<1>2. k \in Nat /\ k < Size(o)
  BY <1>1
<1> DEFINE c == SubSeq(o.chars, k + 1, Len(o.chars))
<1>3. c \in Text
  <2>1. \A i \in k + 1..Len(o.chars) : o.chars[i] \in Nat
    BY <1>1, <1>2, ElementOfSeq DEF Text
  <2>. QED
    BY <1>1, <1>2, <2>1, SubSeqProperties DEF Text
<1>4. CASE o.op = "insert"
  <2>1. Size(o) = Len(o.chars)
    BY <1>4 DEF Size
  <2>2. Len(c) = Len(o.chars) - k
    <3>1. k \in 0..Len(o.chars) /\ o.chars \in Seq(Nat)
      BY <1>1, <2>1 DEF Text
    <3>. QED
      BY <3>1, Cut
  <2> HIDE DEF c
  <2>3. Rest(o, k) = [op |-> "insert", n |-> 0, chars |-> c]
    BY <1>4 DEF Rest, c
  <2>4. Rest(o, k) = Insert(c) /\ Rest(o, k) \in Op /\ Size(Rest(o, k)) = Len(c) /\ Rest(o, k).op = "insert"
    BY <1>3, <2>3 DEF Insert, Size, Op
  <2>5. c # <<>>
    BY <1>1, <1>2, <2>1, <2>2, TextNil
  <2>. QED
    BY <1>3, <1>4, <2>1, <2>2, <2>4, <2>5, PlainOps
<1>5. CASE o.op # "insert"
  <2>1. Size(o) = o.n /\ o.n - k \in Nat \ {0}
    BY <1>1, <1>2, <1>5 DEF Size
  <2>2. Rest(o, k).n = o.n - k /\ Rest(o, k).op = o.op /\ Rest(o, k).chars = c
    BY <1>5 DEF Rest
  <2>3. Rest(o, k) \in Op
    <3> HIDE DEF c
    <3>. QED
      BY <1>1, <1>3, <1>5, <2>1 DEF Rest, Op, c
  <2>4. Size(Rest(o, k)) = Size(o) - k
    BY <1>5, <2>1, <2>2 DEF Size
  <2>5. ASSUME o \in Plain PROVE Rest(o, k) \in Plain
    <3>1. o.chars = <<>>
      <4>1. o = Retain(o.n) \/ o = Delete(o.n)
        BY <1>1, <1>5, <2>5, PlainOps
      <4>. QED
        BY <4>1 DEF Retain, Delete
    <3>2. c = <<>>
      BY <1>2, <3>1, TextNil, SubSeqEmpty
    <3> DEFINE n == o.n - k
    <3>3. Rest(o, k) = [op |-> o.op, n |-> n, chars |-> <<>>]
      BY <1>5, <3>2 DEF Rest
    <3>4. n \in Nat \ {0}
      BY <2>1
    <3> HIDE DEF n
    <3>5. Rest(o, k) = Retain(n) \/ Rest(o, k) = Delete(n)
      BY <1>1, <1>5, <3>3 DEF Retain, Delete
    <3>. QED
      BY <3>4, <3>5, PlainOps
  <2>. QED
    BY <2>2, <2>3, <2>4, <2>5
<1>. QED
  BY <1>4, <1>5

\* consume drops the first operation when it is used up and shortens it otherwise.
LEMMA ConsumeIs ==
    ASSUME NEW ops \in Seq(Op), ops # <<>>, NEW k \in 0..Size(Head(ops))
    PROVE  /\ Consume(ops, k) \in Seq(Op)
           /\ Len(Consume(ops, k)) <= Len(ops)
           /\ k = Size(Head(ops)) => Consume(ops, k) = Tail(ops) /\ Len(Consume(ops, k)) < Len(ops)
           /\ k # Size(Head(ops)) => Consume(ops, k) = <<Rest(Head(ops), k)>> \o Tail(ops)
<1> DEFINE h == Head(ops)
           r == Tail(ops)
<1>1. h \in Op /\ r \in Seq(Op) /\ Len(ops) = Len(r) + 1 /\ Len(r) \in Nat
  BY HeadAndTail
<1>2. CASE k = Size(h)
  BY <1>1, <1>2 DEF Consume
<1>3. CASE k # Size(h)
  <2> DEFINE m == IF h.op = "insert" THEN 0 ELSE h.n - k
             c == SubSeq(h.chars, k + 1, Len(h.chars))
             e == [h EXCEPT !.n = m]
  <2> HIDE DEF h
  <2>1. h = [op |-> h.op, n |-> h.n, chars |-> h.chars]
    BY <1>1 DEF Op
  <2>2. e = [op |-> h.op, n |-> m, chars |-> h.chars]
    <3> HIDE DEF m
    <3>. QED
      BY <2>1
  <2>3. [e EXCEPT !.chars = c] = [op |-> h.op, n |-> m, chars |-> c]
    <3> HIDE DEF e, c, m
    <3>. QED
      BY <2>2
  <2>4. [e EXCEPT !.chars = c] = Rest(h, k)
    BY <2>3 DEF Rest
  <2>5. Consume(ops, k) = <<[e EXCEPT !.chars = c]>> \o r
    BY <1>3 DEF Consume, h
  <2>6. Consume(ops, k) = <<Rest(h, k)>> \o r
    BY <2>4, <2>5
  <2>7. Rest(h, k) \in Op
    BY <1>1, <1>3, RestIs DEF h
  <2>8. <<Rest(h, k)>> \o r \in Seq(Op) /\ Len(<<Rest(h, k)>> \o r) = 1 + Len(r)
    <3> DEFINE o == Rest(h, k)
    <3> HIDE DEF o, r
    <3>1. <<o>> \o r \in Seq(Op) /\ Len(<<o>> \o r) = 1 + Len(r)
      BY <1>1, <2>7, ConsSeq DEF o
    <3>. QED
      BY <3>1 DEF o
  <2>9. Consume(ops, k) \in Seq(Op) /\ Len(Consume(ops, k)) <= Len(ops)
    BY <1>1, <2>6, <2>8
  <2> HIDE DEF r
  <2>. QED
    BY <1>3, <2>6, <2>9 DEF h, r
<1>. QED
  BY <1>2, <1>3

\* A step of a cursor pair: which of the cases of the loop body it is.
LEMMA FollowStepIs ==
    ASSUME NEW s \in Cursors
    PROVE  /\ s.a \in Seq(Op) /\ s.b \in Seq(Op) /\ s.out \in Seq(Op)
           /\ At(s.a, "insert") /\ (At(s.b, "insert") => InsertsFirst(Head(s.a), Head(s.b)))
                 => FollowStep(s) = [a |-> Tail(s.a), b |-> s.b,
                                     out |-> AddOp(s.out, Retain(Len(Head(s.a).chars)))]
           /\ At(s.b, "insert") /\ ~(At(s.a, "insert") /\ InsertsFirst(Head(s.a), Head(s.b)))
                 => FollowStep(s) = [a |-> s.a, b |-> Tail(s.b),
                                     out |-> AddOp(s.out, Insert(Head(s.b).chars))]
           /\ ~At(s.a, "insert") /\ ~At(s.b, "insert")
                 => \E k : /\ k = Shorter(Head(s.a), Head(s.b))
                          /\ FollowStep(s) =
                                [a |-> Consume(s.a, k), b |-> Consume(s.b, k),
                                 out |-> FollowSource(Head(s.a), Head(s.b), k, s.out)]
<1>1. s.a \in Seq(Op) /\ s.b \in Seq(Op) /\ s.out \in Seq(Op)
      /\ s = [a |-> s.a, b |-> s.b, out |-> s.out]
  BY DEF Cursors
<1>2. CASE At(s.a, "insert") /\ (At(s.b, "insert") => InsertsFirst(Head(s.a), Head(s.b)))
  <2> DEFINE t == Tail(s.a)
             o == AddOp(s.out, Retain(Len(Head(s.a).chars)))
             e == [s EXCEPT !.a = t]
  <2>1. FollowStep(s) = [e EXCEPT !.out = o]
    BY <1>2 DEF FollowStep
  <2> HIDE DEF t, o
  <2>2. e = [a |-> t, b |-> s.b, out |-> s.out]
    BY <1>1
  <2> HIDE DEF e
  <2>3. [e EXCEPT !.out = o] = [a |-> t, b |-> s.b, out |-> o]
    BY <2>2
  <2>. QED
    BY <1>1, <1>2, <2>1, <2>3 DEF t, o
<1>3. CASE At(s.b, "insert") /\ ~(At(s.a, "insert") /\ InsertsFirst(Head(s.a), Head(s.b)))
  <2> DEFINE t == Tail(s.b)
             o == AddOp(s.out, Insert(Head(s.b).chars))
             e == [s EXCEPT !.b = t]
  <2>1. FollowStep(s) = [e EXCEPT !.out = o]
    BY <1>3 DEF FollowStep
  <2> HIDE DEF t, o
  <2>2. e = [a |-> s.a, b |-> t, out |-> s.out]
    BY <1>1
  <2> HIDE DEF e
  <2>3. [e EXCEPT !.out = o] = [a |-> s.a, b |-> t, out |-> o]
    BY <2>2
  <2>. QED
    BY <1>1, <1>3, <2>1, <2>3 DEF t, o
<1>4. CASE ~At(s.a, "insert") /\ ~At(s.b, "insert")
  BY <1>1, <1>4 DEF FollowStep
<1>. QED
  BY <1>2, <1>3, <1>4, <1>1

\* addOp makes a list of operations.
LEMMA AddOpType ==
    ASSUME NEW out \in Seq(Op), NEW o \in Op
    PROVE  AddOp(out, o) \in Seq(Op)
<1>1. Adds(Op, out, o)
  BY AddOpIs
<1>2. CASE AddOp(out, o) = out \o <<o>>
  BY <1>2, ConsSeq, ConcatProperties, EmptySeq
<1>3. CASE \E f \in Seq(Op), l \in Op : l.op = o.op /\ AddOp(out, o) = f \o <<Merge(l, o)>>
  <2>1. PICK f \in Seq(Op), l \in Op : l.op = o.op /\ AddOp(out, o) = f \o <<Merge(l, o)>>
    BY <1>3
  <2> DEFINE m == Merge(l, o)
  <2>2. m \in Op
    BY <2>1, MergeIs
  <2> HIDE DEF m
  <2>3. <<m>> \in Seq(Op)
    BY <2>2
  <2>. QED
    BY <2>1, <2>3, ConcatProperties DEF m
<1>. QED
  BY <1>1, <1>2, <1>3 DEF Adds

\* The operations that need no form.
LEMMA OpsOf ==
    /\ \A k \in Nat : Retain(k) \in Op /\ Delete(k) \in Op
    /\ \A s \in Text : Insert(s) \in Op
  BY TextNil DEF Retain, Delete, Insert, Op

\* The common part of two operations is within both and is all of one of them.
LEMMA ShorterIs ==
    ASSUME NEW a \in Op, NEW b \in Op
    PROVE  /\ Shorter(a, b) \in 0..Size(a) /\ Shorter(a, b) \in 0..Size(b)
           /\ Shorter(a, b) = Size(a) \/ Shorter(a, b) = Size(b)
  BY OpTypes DEF Shorter

\* Each step of Follow's loop is a step towards its end.
LEMMA FollowProgress ==
    ASSUME NEW s \in Cursors, ~FollowDone(s)
    PROVE  /\ FollowStep(s) \in Cursors
           /\ Len(FollowStep(s).a) + Len(FollowStep(s).b) < Len(s.a) + Len(s.b)
<1>1. s.a \in Seq(Op) /\ s.b \in Seq(Op) /\ s.out \in Seq(Op) /\ Len(s.a) \in Nat /\ Len(s.b) \in Nat
  BY FollowStepIs, LenProperties
<1>2. CASE At(s.a, "insert") /\ (At(s.b, "insert") => InsertsFirst(Head(s.a), Head(s.b)))
  <2>1. FollowStep(s) = [a |-> Tail(s.a), b |-> s.b, out |-> AddOp(s.out, Retain(Len(Head(s.a).chars)))]
    BY <1>2, FollowStepIs
  <2>2. s.a # <<>>
    BY <1>2 DEF At
  <2>3. Head(s.a) \in Op /\ Tail(s.a) \in Seq(Op) /\ Len(s.a) = Len(Tail(s.a)) + 1 /\ Len(Tail(s.a)) \in Nat
    BY <1>1, <2>2, HeadAndTail
  <2>4. AddOp(s.out, Retain(Len(Head(s.a).chars))) \in Seq(Op)
    BY <1>1, <2>3, OpTypes, OpsOf, AddOpType
  <2>. QED
    BY <1>1, <2>1, <2>3, <2>4 DEF Cursors
<1>3. CASE At(s.b, "insert") /\ ~(At(s.a, "insert") /\ InsertsFirst(Head(s.a), Head(s.b)))
  <2>1. FollowStep(s) = [a |-> s.a, b |-> Tail(s.b), out |-> AddOp(s.out, Insert(Head(s.b).chars))]
    BY <1>3, FollowStepIs
  <2>2. s.b # <<>>
    BY <1>3 DEF At
  <2>3. Head(s.b) \in Op /\ Tail(s.b) \in Seq(Op) /\ Len(s.b) = Len(Tail(s.b)) + 1 /\ Len(Tail(s.b)) \in Nat
    BY <1>1, <2>2, HeadAndTail
  <2>4. AddOp(s.out, Insert(Head(s.b).chars)) \in Seq(Op)
    BY <1>1, <2>3, OpTypes, OpsOf, AddOpType DEF Text
  <2>. QED
    BY <1>1, <2>1, <2>3, <2>4 DEF Cursors
<1>4. CASE ~At(s.a, "insert") /\ ~At(s.b, "insert")
  <2> DEFINE a == Head(s.a)
             b == Head(s.b)
             k == Shorter(a, b)
  <2>1. s.a # <<>> /\ s.b # <<>>
    BY <1>4 DEF FollowDone
  <2>2. a \in Op /\ b \in Op /\ a.op \in {"retain", "delete"} /\ b.op \in {"retain", "delete"}
    <3>1. a \in Op /\ b \in Op
      BY <1>1, <2>1, HeadAndTail
    <3>. QED
      BY <1>4, <2>1, <3>1 DEF At, Op
  <2>3. FollowStep(s) = [a |-> Consume(s.a, k), b |-> Consume(s.b, k), out |-> FollowSource(a, b, k, s.out)]
    BY <1>4, FollowStepIs
  <2>4. k \in 0..Size(a) /\ k \in 0..Size(b) /\ (k = Size(a) \/ k = Size(b)) /\ k \in Nat
    <3>1. k \in 0..Size(a) /\ k \in 0..Size(b) /\ (k = Size(a) \/ k = Size(b))
      BY <2>2, ShorterIs
    <3>. QED
      BY <3>1
  <2> HIDE DEF k
  <2>5. /\ Consume(s.a, k) \in Seq(Op) /\ Len(Consume(s.a, k)) <= Len(s.a)
        /\ k = Size(a) => Len(Consume(s.a, k)) < Len(s.a)
    BY <1>1, <2>1, <2>4, ConsumeIs
  <2>6. /\ Consume(s.b, k) \in Seq(Op) /\ Len(Consume(s.b, k)) <= Len(s.b)
        /\ k = Size(b) => Len(Consume(s.b, k)) < Len(s.b)
    BY <1>1, <2>1, <2>4, ConsumeIs
  <2>7. FollowSource(a, b, k, s.out) \in Seq(Op)
    <3>1. Retain(k) \in Op /\ Delete(k) \in Op
      BY <2>4, OpsOf
    <3>2. AddOp(s.out, Retain(k)) \in Seq(Op) /\ AddOp(s.out, Delete(k)) \in Seq(Op)
      BY <1>1, <3>1, AddOpType
    <3> HIDE DEF a, b
    <3>. QED
      BY <1>1, <2>2, <3>2 DEF FollowSource
  <2> DEFINE ca == Consume(s.a, k)
             cb == Consume(s.b, k)
             co == FollowSource(a, b, k, s.out)
  <2>8. Len(ca) \in Nat /\ Len(cb) \in Nat /\ Len(ca) + Len(cb) < Len(s.a) + Len(s.b)
    <3>1. Len(ca) \in Nat /\ Len(cb) \in Nat
      BY <2>5, <2>6, LenProperties
    <3>2. Len(ca) <= Len(s.a) /\ Len(cb) <= Len(s.b)
          /\ (Len(ca) < Len(s.a) \/ Len(cb) < Len(s.b))
      <4> HIDE DEF a, b
      <4>. QED
        BY <2>4, <2>5, <2>6
    <3> DEFINE la == Len(s.a)
               lb == Len(s.b)
               na == Len(ca)
               nb == Len(cb)
    <3>3. la \in Nat /\ lb \in Nat /\ na \in Nat /\ nb \in Nat
          /\ na <= la /\ nb <= lb /\ (na < la \/ nb < lb)
      BY <1>1, <3>1, <3>2
    <3>4. na \in Nat /\ nb \in Nat /\ na + nb < la + lb
      <4> HIDE DEF la, lb, na, nb
      <4>. QED
        BY <3>3
    <3>. QED
      BY <3>4
  <2> HIDE DEF ca, cb, co, a, b
  <2>9. FollowStep(s) = [a |-> ca, b |-> cb, out |-> co]
    BY <2>3 DEF ca, cb, co
  <2>10. ca \in Seq(Op) /\ cb \in Seq(Op) /\ co \in Seq(Op)
    BY <2>5, <2>6, <2>7 DEF ca, cb, co
  <2>. QED
    BY <2>8, <2>9, <2>10 DEF Cursors
<1>. QED
  BY <1>2, <1>3, <1>4

\* FollowLoop is the loop of Follow (follow.go): it ends, because every step shortens an
\* operand, so the recursive function it is defined by exists.
LEMMA FollowLoopIs ==
    /\ FollowLoop \in [Cursors -> Seq(Op)]
    /\ \A s \in Cursors :
          FollowLoop[s] = IF FollowDone(s) THEN s.out ELSE FollowLoop[FollowStep(s)]
<1> DEFINE V == Seq(Op)
           done == {s \in Cursors : FollowDone(s)}
           out == [s \in Cursors |-> s.out]
           step == [s \in Cursors |-> IF FollowDone(s) THEN s ELSE FollowStep(s)]
           mu == [s \in Cursors |-> Len(s.a) + Len(s.b)]
           next(f, s) == IF FollowDone(s) THEN s.out ELSE f[FollowStep(s)]
<1>1. V # {}
  BY EmptySeq
<1>2. out \in [Cursors -> V]
  BY DEF Cursors
<1>3. step \in [Cursors -> Cursors]
  BY FollowProgress
<1>4. mu \in [Cursors -> Nat]
  <2>1. ASSUME NEW s \in Cursors PROVE Len(s.a) + Len(s.b) \in Nat
    <3>1. s.a \in Seq(Op) /\ s.b \in Seq(Op)
      BY DEF Cursors
    <3>2. Len(s.a) \in Nat /\ Len(s.b) \in Nat
      BY <3>1, LenProperties
    <3> DEFINE la == Len(s.a)
               lb == Len(s.b)
    <3>3. la \in Nat /\ lb \in Nat
      BY <3>2
    <3>4. la + lb \in Nat
      <4> HIDE DEF la, lb
      <4>. QED
        BY <3>3
    <3>. QED
      BY <3>4
  <2>. QED
    BY <2>1
<1>5. \A s \in Cursors : s \notin done => mu[step[s]] < mu[s]
  BY FollowProgress
<1>6. PICK f : IsLoop(f, Cursors, V, done, out, step)
  <2> HIDE DEF V, done, out, step, mu
  <2>. QED
    BY <1>1, <1>2, <1>3, <1>4, <1>5, LoopRecursion
<1>7. f \in [Cursors -> V] /\ \A s \in Cursors : f[s] = next(f, s)
  <2> HIDE DEF V
  <2>. QED
    BY <1>6 DEF IsLoop
<1>8. f = [s \in Cursors |-> next(f, s)]
  <2> HIDE DEF V, next
  <2>. QED
    BY <1>7
<1> DEFINE loop == CHOOSE h : h = [s \in Cursors |-> next(h, s)]
<1>9. loop = [s \in Cursors |-> next(loop, s)]
  <2> HIDE DEF next
  <2>. QED
    BY <1>8
<1>10. FollowLoop = loop
  BY DEF FollowLoop
<1>11. \A s \in Cursors : loop[s] = next(loop, s)
  <2> HIDE DEF next
  <2>. QED
    BY <1>9
<1> DEFINE L == FollowLoop
<1>12. L = [s \in Cursors |-> next(L, s)] /\ \A s \in Cursors : L[s] = next(L, s)
  BY <1>9, <1>10, <1>11
<1> HIDE DEF loop
<1>13. L = f
  <2>1. \A s \in Cursors : s \notin done => step[s] = FollowStep(s) /\ FollowStep(s) \in Cursors
    BY FollowProgress
  <2> DEFINE T == {s \in Cursors : L[s] = f[s]}
  <2>2. ASSUME NEW s \in Cursors, \A x \in Cursors : mu[x] < mu[s] => x \in T PROVE s \in T
    <3> HIDE DEF mu, L
    <3>. QED
      BY <1>5, <1>7, <1>12, <2>1, <2>2
  <2>3. \A s \in Cursors : s \in T
    <3> HIDE DEF T, mu
    <3>. QED
      BY <1>4, <2>2, MeasureInduction
  <2> HIDE DEF next, L, V
  <2>. QED
    BY <1>8, <1>12, <2>3
<1>. QED
  BY <1>7, <1>12, <1>13

\* A list in normal form without its first operation is in normal form.
LEMMA NormalTail ==
    ASSUME NEW ops, Normal(ops), ops # <<>>
    PROVE  /\ ops \in Seq(Op) /\ Head(ops) \in Plain /\ Head(ops) \in Op
           /\ Normal(Tail(ops))
           /\ Tail(ops) # <<>> => Head(Tail(ops)).op # Head(ops).op
<1>1. ops \in Seq(Plain) /\ Plain \subseteq Op
  BY PlainOps DEF Normal
<1>2. ops \in Seq(Op)
  BY <1>1, SeqMonotonic
<1> DEFINE r == Tail(ops)
<1>3. /\ Head(ops) = ops[1] /\ Head(ops) \in Plain /\ r \in Seq(Plain) /\ Len(r) = Len(ops) - 1
      /\ Len(ops) \in Nat /\ \A i \in 1..Len(r) : r[i] = ops[i + 1]
  BY <1>1, HeadTailProperties, LenProperties
<1> HIDE DEF r
<1>4. ASSUME NEW i \in 1..Len(r) - 1 PROVE r[i].op # r[i + 1].op
  <2>1. i \in 1..Len(r) /\ i + 1 \in 1..Len(r) /\ i + 1 \in 1..Len(ops) - 1
    BY <1>3
  <2>2. ops[i + 1].op # ops[i + 1 + 1].op
    BY <2>1 DEF Normal
  <2>. QED
    BY <1>3, <2>1, <2>2
<1>5. ASSUME r # <<>> PROVE Head(r).op # Head(ops).op
  <2>1. Len(r) # 0 /\ Head(r) = r[1]
    BY <1>3, <1>5, EmptySeq
  <2>2. 1 \in 1..Len(r) /\ 1 \in 1..Len(ops) - 1
    BY <1>3, <2>1
  <2>3. ops[1].op # ops[1 + 1].op
    BY <2>2 DEF Normal
  <2>. QED
    BY <1>3, <2>1, <2>2, <2>3
<1>. QED
  BY <1>1, <1>2, <1>3, <1>4, <1>5 DEF Normal, r

\* An operation of another kind may be put in front of a list in normal form.
LEMMA NormalCons ==
    ASSUME NEW o \in Plain, NEW r, Normal(r), r # <<>> => Head(r).op # o.op
    PROVE  Normal(<<o>> \o r)
<1> DEFINE q == <<o>> \o r
<1>1. r \in Seq(Plain)
  BY DEF Normal
<1>2. q \in Seq(Plain) /\ q # <<>> /\ Head(q) = o /\ Tail(q) = r /\ Len(q) = 1 + Len(r) /\ Len(r) \in Nat
  BY <1>1, ConsSeq, LenProperties
<1> HIDE DEF q
<1>3. q[1] = o /\ \A i \in 1..Len(r) : q[i + 1] = r[i]
  BY <1>2, HeadTailProperties
<1>4. ASSUME NEW i \in 1..Len(q) - 1 PROVE q[i].op # q[i + 1].op
  <2>1. CASE i = 1
    <3>1. 1 \in 1..Len(r) /\ r # <<>> /\ Head(r) = r[1]
      BY <1>2, <2>1, EmptySeq
    <3>. QED
      BY <1>3, <2>1, <3>1
  <2>2. CASE i # 1
    <3> DEFINE j == i - 1
    <3>1. j \in 1..Len(r) - 1 /\ j \in 1..Len(r) /\ j + 1 \in 1..Len(r) /\ j + 1 = i
      BY <1>2, <2>2
    <3>2. r[j].op # r[j + 1].op
      BY <3>1 DEF Normal
    <3> HIDE DEF j
    <3>3. q[j + 1] = r[j] /\ q[j + 1 + 1] = r[j + 1]
      BY <1>3, <3>1
    <3>. QED
      BY <3>1, <3>2, <3>3
  <2>. QED
    BY <2>1, <2>2
<1>. QED
  BY <1>2, <1>4 DEF Normal, q

\* consume keeps the normal form.
LEMMA NormalConsume ==
    ASSUME NEW ops, Normal(ops), ops # <<>>, NEW k \in 0..Size(Head(ops))
    PROVE  Normal(Consume(ops, k))
<1> DEFINE h == Head(ops)
           r == Tail(ops)
<1>1. ops \in Seq(Op) /\ h \in Plain /\ h \in Op /\ Normal(r) /\ (r # <<>> => Head(r).op # h.op)
  BY NormalTail
<1>2. CASE k = Size(h)
  BY <1>1, <1>2, ConsumeIs
<1>3. CASE k # Size(h)
  <2> DEFINE o == Rest(h, k)
  <2>1. Consume(ops, k) = <<o>> \o r
    BY <1>1, <1>3, ConsumeIs
  <2>2. o \in Plain /\ o.op = h.op
    BY <1>1, <1>3, RestIs
  <2> HIDE DEF o, h, r
  <2>. QED
    BY <1>1, <2>1, <2>2, NormalCons
<1>. QED
  BY <1>2, <1>3

\* A text is taken apart at a place in one way only.
LEMMA SplitUnique ==
    ASSUME NEW x \in Text, NEW y \in Text, NEW w \in Text, NEW v \in Text,
           x \o y = w \o v, Len(x) = Len(w)
    PROVE  x = w /\ y = v
<1>1. SubSeq(x \o y, 1, Len(x)) = x /\ SubSeq(w \o v, 1, Len(w)) = w
  BY SubSeqPrefix DEF Text
<1>2. x = w
  BY <1>1
<1>3. Len(y) = Len(v) /\ Len(y) \in Nat /\ Len(w) \in Nat
  BY <1>2, TextConcat, TextNil
<1> DEFINE j == 0
           n == Len(y)
<1>4. j \in Nat /\ n \in Nat /\ j + n <= Len(y) /\ j + n <= Len(v) /\ j + 1 = 1 /\ j + n = n
  BY <1>3
<1>5. SubSeq(y, 1, n) = y /\ SubSeq(v, 1, n) = v
  BY <1>3, SubSeqFull DEF Text
<1> HIDE DEF j, n
<1>6. /\ SubSeq(x \o y, Len(x) + j + 1, Len(x) + j + n) = SubSeq(y, j + 1, j + n)
      /\ SubSeq(w \o v, Len(w) + j + 1, Len(w) + j + n) = SubSeq(v, j + 1, j + n)
  BY <1>4, SubSeqShift, ZenonT(40)
<1>. QED
  BY <1>2, <1>4, <1>5, <1>6

\* Consuming the units of x leaves operations for y.
Advances(t, ops, x, y) ==
    /\ Fits(y, Consume(ops, Len(x)))
    /\ Run(t, ops) = ResultOf(x, Head(ops)) \o Run(y, Consume(ops, Len(x)))

\* The units of an operation that does not insert are source characters.
LEMMA ConsumeSource ==
    ASSUME NEW t, NEW ops, Fits(t, ops), ops # <<>>, Head(ops).op # "insert",
           NEW x \in Text, NEW y \in Text, t = x \o y, Len(x) <= Size(Head(ops))
    PROVE  Advances(t, ops, x, y)
<1>. USE DEF Advances
<1> DEFINE h == Head(ops)
           r == Tail(ops)
           k == Len(x)
<1>1. PICK u, v \in Text :
          /\ t = u \o v /\ Len(u) = Consumes(h) /\ h \in Op /\ Fits(v, r)
          /\ Run(t, ops) = ResultOf(u, h) \o Run(v, r)
  <2>1. PICK u, v \in Text : Takes(t, ops, u, v)
    BY FitsHead
  <2>. QED
    BY <2>1 DEF Takes
<1>2. /\ h.op \in {"retain", "delete"} /\ Consumes(h) = h.n /\ Size(h) = h.n /\ h.n \in Nat
      /\ ops \in Seq(Op) /\ k \in 0..Size(h) /\ k \in Nat
  <2>1. h.op \in {"retain", "delete"} /\ h.n \in Nat
    BY <1>1 DEF Op
  <2>2. Consumes(h) = h.n /\ Size(h) = h.n
    BY DEF Consumes, Size
  <2>3. k \in Nat
    BY TextNil
  <2>. QED
    BY <2>1, <2>2, <2>3 DEF Fits
<1>3. CASE k = Size(h)
  <2>1. Consume(ops, k) = r
    BY <1>2, <1>3, ConsumeIs DEF Fits
  <2>2. x = u /\ y = v
    <3>1. Len(x) = Len(u)
      BY <1>1, <1>2, <1>3
    <3>. QED
      BY <1>1, <3>1, SplitUnique
  <2>. QED
    BY <1>1, <2>1, <2>2
<1>4. CASE k # Size(h)
  <2> DEFINE o == Rest(h, k)
             w == SubSeq(u, 1, k)
             z == SubSeq(u, k + 1, Len(u))
  <2>1. Consume(ops, k) = <<o>> \o r
    BY <1>2, <1>4, ConsumeIs
  <2>2. o \in Op /\ o.op = h.op /\ Size(o) = Size(h) - k
    BY <1>1, <1>2, <1>4, RestIs
  <2>3. w \in Text /\ z \in Text /\ u = w \o z /\ Len(w) = k /\ Len(z) = Size(o)
    <3>1. u \in Seq(Nat) /\ k \in 0..Len(u)
      BY <1>1, <1>2 DEF Text
    <3> HIDE DEF k
    <3>2. w \in Seq(Nat) /\ z \in Seq(Nat) /\ u = w \o z /\ Len(w) = k /\ Len(z) = Len(u) - k
      BY <3>1, Cut, ZenonT(40)
    <3>. QED
      BY <1>1, <1>2, <2>2, <3>2 DEF Text
  <2> HIDE DEF w, z, o
  <2>4. z \o v \in Text /\ (w \o z) \o v = w \o (z \o v)
    BY <1>1, <2>3, TextConcat, TextAssociative, SMTT(40)
  <2>5. x = w /\ y = z \o v
    <3> DEFINE q == z \o v
    <3>1. q \in Text /\ x \o y = w \o q
      BY <1>1, <2>3, <2>4
    <3> HIDE DEF q
    <3>2. x = w /\ y = q
      BY <2>3, <3>1, SplitUnique
    <3>. QED
      BY <3>2 DEF q
  <2>6. Consumes(o) = Len(z)
    BY <1>2, <2>2, <2>3 DEF Consumes, Size
  <2>7. r \in Seq(Op) /\ Consumed(r) = Len(v)
    BY <1>1 DEF Fits
  <2>8. Run(z \o v, <<o>> \o r) = ResultOf(z, o) \o Run(v, r)
    BY <2>2, <2>3, <2>6, <2>7, RunCons, ZenonT(40)
  <2>9. Fits(z \o v, <<o>> \o r)
    <3>1. Fits(z, <<o>>)
      BY <2>2, <2>3, <2>6, RunOne
    <3>2. <<o>> \o r \in Seq(Op) /\ Consumed(<<o>> \o r) = Consumes(o) + Consumed(r)
      BY <2>2, <2>7, ConsSeq, ConsumedCons
    <3>3. Len(z \o v) = Len(z) + Len(v)
      BY <2>3, TextConcat
    <3>. QED
      BY <2>4, <2>6, <2>7, <3>2, <3>3 DEF Fits
  <2>10. ResultOf(u, h) = ResultOf(w, h) \o ResultOf(z, o)
    <3>1. CASE h.op = "retain"
      BY <2>2, <2>3, <3>1 DEF ResultOf
    <3>2. CASE h.op = "delete"
      <4>1. <<>> \o <<>> = <<>>
        BY TextNil, TextConcatNil
      <4>. QED
        BY <2>2, <3>2, <4>1 DEF ResultOf
    <3>. QED
      BY <1>2, <3>1, <3>2
  <2> DEFINE e == ResultOf(w, h)
             f == ResultOf(z, o)
             g == Run(v, r)
  <2>11. e \in Text /\ f \in Text /\ g \in Text
    <3>1. f \in Text /\ g \in Text
      BY <1>1, <2>2, <2>3, <2>6, ResultText, RunText
    <3>2. e = w \/ e = <<>>
      BY <1>2 DEF ResultOf
    <3>. QED
      BY <2>3, <3>1, <3>2, TextNil
  <2>12. (e \o f) \o g = e \o (f \o g)
    <3> HIDE DEF e, f, g
    <3>. QED
      BY ONLY <2>11, TextAssociative, SMTT(40)
  <2>. QED
    BY <1>1, <2>1, <2>5, <2>8, <2>9, <2>10, <2>12
<1>. QED
  BY <1>3, <1>4

\* The comparison of strings is a total order.
LEMMA Agree ==
    ASSUME NEW s \in Text, NEW t \in Text, NEW n \in Nat, n <= Len(s), n <= Len(t)
    PROVE  SubSeq(s, 1, n) = SubSeq(t, 1, n) <=> \A j \in 1..n : s[j] = t[j]
<1>1. Len(s) \in Nat /\ Len(t) \in Nat
  BY TextNil
<1>2. ASSUME NEW r \in Text, n <= Len(r)
      PROVE  /\ SubSeq(r, 1, n) \in Seq(Nat) /\ Len(SubSeq(r, 1, n)) = n
             /\ \A i \in 1..n : SubSeq(r, 1, n)[i] = r[i]
  <2>1. Len(r) \in Nat /\ \A i \in 1..n : r[i] \in Nat
    BY <1>2, TextNil, ElementOfSeq, SMTT(40) DEF Text
  <2>2. /\ SubSeq(r, 1, n) \in Seq(Nat) /\ Len(SubSeq(r, 1, n)) = IF 1 <= n THEN n - 1 + 1 ELSE 0
        /\ \A i \in 1..n - 1 + 1 : SubSeq(r, 1, n)[i] = r[1 + i - 1]
    BY <2>1, SubSeqProperties
  <2>3. n - 1 + 1 = n /\ \A i \in 1..n : 1 + i - 1 = i
    OBVIOUS
  <2>. QED
    BY <2>2, <2>3
<1> DEFINE a == SubSeq(s, 1, n)
           b == SubSeq(t, 1, n)
<1>3. /\ a \in Seq(Nat) /\ b \in Seq(Nat) /\ Len(a) = n /\ Len(b) = n
      /\ \A i \in 1..n : a[i] = s[i] /\ b[i] = t[i]
  BY <1>2
<1> HIDE DEF a, b
<1>4. (\A i \in 1..n : a[i] = b[i]) => a = b
  BY <1>3, SeqEqual
<1>. QED
  BY <1>3, <1>4 DEF a, b

\* The comparison of two Go strings, spelled out.
LEMMA LexIs ==
    ASSUME NEW s \in Text, NEW t \in Text
    PROVE  LexLeq(s, t) <=>
              \/ Len(s) <= Len(t) /\ \A j \in 1..Len(s) : s[j] = t[j]
              \/ \E i \in Nat \ {0} : /\ i <= Len(s) /\ i <= Len(t) /\ s[i] < t[i]
                                     /\ \A j \in 1..i - 1 : s[j] = t[j]
<1>1. /\ Len(s) \in Nat /\ Len(t) \in Nat /\ SubSeq(s, 1, Len(s)) = s
      /\ DOMAIN s = 1..Len(s) /\ DOMAIN t = 1..Len(t)
  BY LenProperties, SubSeqFull DEF Text
<1>2. Len(s) <= Len(t) => (s = SubSeq(t, 1, Len(s)) <=> \A j \in 1..Len(s) : s[j] = t[j])
  BY <1>1, Agree
<1>3. ASSUME NEW i \in Nat \ {0}, i <= Len(s), i <= Len(t)
      PROVE  SubSeq(s, 1, i - 1) = SubSeq(t, 1, i - 1) <=> \A j \in 1..i - 1 : s[j] = t[j]
  <2>1. i - 1 \in Nat /\ i - 1 <= Len(s) /\ i - 1 <= Len(t)
    BY <1>1, <1>3
  <2>. QED
    BY <2>1, Agree
<1>4. \A i : i \in DOMAIN s \cap DOMAIN t <=> i \in Nat \ {0} /\ i <= Len(s) /\ i <= Len(t)
  BY <1>1
<1>. QED
  BY <1>2, <1>3, <1>4 DEF LexLeq

\* The comparison Follow breaks ties by is a total order.
LEMMA LexOrder ==
    ASSUME NEW s \in Text, NEW t \in Text
    PROVE  /\ LexLeq(s, s)
           /\ LexLeq(s, t) \/ LexLeq(t, s)
           /\ LexLeq(s, t) /\ LexLeq(t, s) => s = t
<1>1. /\ Len(s) \in Nat /\ Len(t) \in Nat
      /\ \A i \in 1..Len(s) : s[i] \in Nat
      /\ \A i \in 1..Len(t) : t[i] \in Nat
  BY TextNil, ElementOfSeq DEF Text
<1>2. LexLeq(s, s)
  BY <1>1, LexIs
<1> DEFINE U == {i \in Nat \ {0} : i <= Len(s) /\ i <= Len(t) /\ s[i] # t[i]}
<1>3. LexLeq(s, t) \/ LexLeq(t, s)
  <2>1. CASE U = {}
    <3>1. \A i \in Nat \ {0} : i <= Len(s) /\ i <= Len(t) => s[i] = t[i]
      BY <2>1
    <3>2. CASE Len(s) <= Len(t)
      <4>1. \A j \in 1..Len(s) : s[j] = t[j]
        BY <1>1, <3>1, <3>2
      <4>. QED
        BY <3>2, <4>1, LexIs
    <3>3. CASE Len(t) <= Len(s)
      <4>1. \A j \in 1..Len(t) : t[j] = s[j]
        BY <1>1, <3>1, <3>3
      <4>. QED
        BY <3>3, <4>1, LexIs
    <3>. QED
      BY <1>1, <3>2, <3>3
  <2>2. CASE U # {}
    <3>1. PICK i \in U : \A j \in U : i <= j
      <4>1. U \subseteq Nat
        OBVIOUS
      <4> HIDE DEF U
      <4>. QED
        BY <2>2, <4>1, LeastNumber
    <3>2. i \in Nat \ {0} /\ i <= Len(s) /\ i <= Len(t) /\ s[i] # t[i] /\ s[i] \in Nat /\ t[i] \in Nat
      BY <1>1
    <3>3. \A j \in 1..i - 1 : s[j] = t[j]
      <4>1. SUFFICES ASSUME NEW j \in 1..i - 1, s[j] # t[j] PROVE FALSE
        OBVIOUS
      <4>2. j \in U /\ j < i
        BY <1>1, <3>2, <4>1
      <4> HIDE DEF U
      <4>. QED
        BY <3>1, <3>2, <4>2
    <3>4. s[i] < t[i] \/ t[i] < s[i]
      BY <3>2
    <3>5. ASSUME s[i] < t[i] PROVE LexLeq(s, t)
      BY <3>2, <3>3, <3>5, LexIs
    <3>6. ASSUME t[i] < s[i] PROVE LexLeq(t, s)
      BY <3>2, <3>3, <3>6, LexIs
    <3>. QED
      BY <3>4, <3>5, <3>6
  <2>. QED
    BY <2>1, <2>2
<1>4. ASSUME LexLeq(s, t), LexLeq(t, s) PROVE s = t
  <2> DEFINE Less(a, b) == \E i \in Nat \ {0} : /\ i <= Len(a) /\ i <= Len(b) /\ a[i] < b[i]
                                                /\ \A j \in 1..i - 1 : a[j] = b[j]
             Prefix(a, b) == Len(a) <= Len(b) /\ \A j \in 1..Len(a) : a[j] = b[j]
  <2>1. (Prefix(s, t) \/ Less(s, t)) /\ (Prefix(t, s) \/ Less(t, s))
    BY <1>4, LexIs
  <2>2. ~(Prefix(s, t) /\ Less(t, s)) /\ ~(Prefix(t, s) /\ Less(s, t))
    BY <1>1
  <2>3. ~(Less(s, t) /\ Less(t, s))
    <3>1. SUFFICES ASSUME NEW i \in Nat \ {0}, i <= Len(s), i <= Len(t), s[i] < t[i],
                          \A j \in 1..i - 1 : s[j] = t[j],
                          NEW k \in Nat \ {0}, k <= Len(s), k <= Len(t), t[k] < s[k],
                          \A j \in 1..k - 1 : t[j] = s[j]
                   PROVE  FALSE
      OBVIOUS
    <3>2. s[i] \in Nat /\ t[i] \in Nat /\ s[k] \in Nat /\ t[k] \in Nat
      BY <1>1, <3>1
    <3>. QED
      BY <3>1, <3>2
  <2>4. Prefix(s, t) /\ Prefix(t, s)
    BY <2>1, <2>2, <2>3
  <2>5. Len(s) = Len(t) /\ \A i \in 1..Len(s) : s[i] = t[i]
    BY <1>1, <2>4
  <2>. QED
    BY <2>5, SeqEqual DEF Text
<1>. QED
  BY <1>2, <1>3, <1>4

\* The cursor pair s of a Follow: what is left of both changesets fits the
\* rest t of the source, and what has been emitted fits p, which is what A has
\* made of the source before.
Rebases(p, t, s) ==
    /\ Normal(s.a) /\ Fits(t, s.a)
    /\ Normal(s.b) /\ Fits(t, s.b)
    /\ Normal(s.out) /\ Fits(p, s.out)

\* A state of the loop.
Pair(a, b, out) == [a |-> a, b |-> b, out |-> out]

\* The facts a state of the loop carries, one by one.
LEMMA PairIs ==
    ASSUME NEW p, NEW t, NEW a, NEW b, NEW out, Rebases(p, t, Pair(a, b, out))
    PROVE  /\ Pair(a, b, out) \in Cursors
           /\ Normal(a) /\ Fits(t, a) /\ Normal(b) /\ Fits(t, b) /\ Normal(out) /\ Fits(p, out)
           /\ a \in Seq(Op) /\ b \in Seq(Op) /\ out \in Seq(Op) /\ p \in Text /\ t \in Text
           /\ Pair(a, b, out).a = a /\ Pair(a, b, out).b = b /\ Pair(a, b, out).out = out
  BY DEF Rebases, Pair, Fits, Cursors

\* An insertion at the head of a list that fits a text.
LEMMA FitsInsert ==
    ASSUME NEW t, NEW ops, Fits(t, ops), Normal(ops), At(ops, "insert")
    PROVE  /\ Head(ops) = Insert(Head(ops).chars) /\ Head(ops).chars \in Text
           /\ Head(ops).chars # <<>> /\ Len(Head(ops).chars) \in Nat \ {0}
           /\ Normal(Tail(ops)) /\ Fits(t, Tail(ops))
           /\ ~At(Tail(ops), "insert")
           /\ Run(t, ops) = Head(ops).chars \o Run(t, Tail(ops))
<1>1. ops # <<>> /\ Head(ops).op = "insert"
  BY DEF At
<1>2. Head(ops) \in Plain /\ Normal(Tail(ops)) /\ ~At(Tail(ops), "insert")
  BY <1>1, NormalTail DEF At
<1>3. PICK x, y \in Text : Takes(t, ops, x, y)
  BY <1>1, FitsHead
<1>4. Head(ops).chars \in Text /\ Head(ops) = Insert(Head(ops).chars)
      /\ Size(Head(ops)) \in Nat \ {0}
  BY <1>1, <1>2, PlainOps DEF Op
<1>5. x = <<>> /\ t = y
  <2>1. Len(x) = 0
    BY <1>1, <1>3 DEF Takes, Consumes
  <2>2. x = <<>>
    BY <2>1, TextNil
  <2>. QED
    BY <1>3, <2>2, TextConcatNil DEF Takes
<1>6. Run(t, ops) = Head(ops).chars \o Run(t, Tail(ops)) /\ Fits(t, Tail(ops))
  BY <1>1, <1>3, <1>5 DEF Takes, ResultOf
<1>7. Size(Head(ops)) = Len(Head(ops).chars)
  BY <1>1 DEF Size
<1>. QED
  BY <1>2, <1>4, <1>6, <1>7, TextNil

\* Follow passes over an insertion of A.
LEMMA FollowA ==
    ASSUME NEW p, NEW t, NEW a, NEW b, NEW out, Rebases(p, t, Pair(a, b, out)),
           At(a, "insert"), At(b, "insert") => LexLeq(Head(a).chars, Head(b).chars)
    PROVE  \E o : /\ FollowLoop[Pair(a, b, out)] = FollowLoop[Pair(Tail(a), b, o)]
                  /\ o = AddOp(out, Retain(Len(Head(a).chars)))
                  /\ Rebases(p \o Head(a).chars, t, Pair(Tail(a), b, o))
                  /\ Run(p \o Head(a).chars, o) = Run(p, out) \o Head(a).chars
<1> DEFINE s == Pair(a, b, out)
           c == Head(a).chars
           k == Len(c)
           o == AddOp(out, Retain(k))
<1>1. /\ s \in Cursors
      /\ Normal(a) /\ Fits(t, a) /\ Normal(b) /\ Fits(t, b) /\ Normal(out) /\ Fits(p, out)
      /\ s.a = a /\ s.b = b /\ s.out = out
  BY PairIs
<1>2. /\ c \in Text /\ k \in Nat \ {0} /\ Normal(Tail(a)) /\ Fits(t, Tail(a))
  BY <1>1, FitsInsert
<1>3. ~FollowDone(s)
  BY <1>1 DEF FollowDone
<1>4. FollowStep(s) = Pair(Tail(a), b, o)
  <2> HIDE DEF s
  <2>. QED
    BY <1>1, FollowStepIs DEF InsertsFirst, Pair
<1>5. FollowLoop[s] = FollowLoop[FollowStep(s)]
  BY <1>1, <1>3, FollowLoopIs
<1>6. Retain(k) \in Plain /\ Retain(k) \in Op /\ Len(c) = Consumes(Retain(k)) /\ ResultOf(c, Retain(k)) = c
  <2>1. Retain(k) \in Plain /\ Retain(k) \in Op
    BY <1>2, PlainOps
  <2>2. Retain(k).op = "retain" /\ Retain(k).n = k
    BY DEF Retain
  <2>. QED
    BY <2>1, <2>2 DEF Consumes, ResultOf
<1>7. Normal(o)
  BY <1>1, <1>6, AddOpNormal
<1>8. Fits(p \o c, o) /\ Run(p \o c, o) = Run(p, out) \o c
  <2> DEFINE r == Retain(k)
  <2>1. r \in Op /\ Len(c) = Consumes(r) /\ ResultOf(c, r) = c
    BY <1>6
  <2> HIDE DEF c, r, s, o, k
  <2>2. Fits(p \o c, AddOp(out, r)) /\ Run(p \o c, AddOp(out, r)) = Run(p, out) \o ResultOf(c, r)
    BY <1>1, <1>2, <2>1, AddOpRun, ZenonT(40)
  <2>. QED
    BY <2>1, <2>2 DEF r, o
<1> HIDE DEF o, c
<1>9. Rebases(p \o c, t, Pair(Tail(a), b, o))
  BY <1>1, <1>2, <1>7, <1>8 DEF Rebases, Pair
<1>. QED
  BY <1>4, <1>5, <1>8, <1>9 DEF o, c

\* Follow copies an insertion of B.
LEMMA FollowB ==
    ASSUME NEW p, NEW t, NEW a, NEW b, NEW out, Rebases(p, t, Pair(a, b, out)),
           At(b, "insert"), At(a, "insert") => ~LexLeq(Head(a).chars, Head(b).chars)
    PROVE  \E o : /\ FollowLoop[Pair(a, b, out)] = FollowLoop[Pair(a, Tail(b), o)]
                  /\ o = AddOp(out, Insert(Head(b).chars))
                  /\ Rebases(p, t, Pair(a, Tail(b), o))
                  /\ Run(p, o) = Run(p, out) \o Head(b).chars
<1> DEFINE s == Pair(a, b, out)
           c == Head(b).chars
           o == AddOp(out, Insert(c))
<1>1. /\ s \in Cursors
      /\ Normal(a) /\ Fits(t, a) /\ Normal(b) /\ Fits(t, b) /\ Normal(out) /\ Fits(p, out)
      /\ s.a = a /\ s.b = b /\ s.out = out /\ p \in Text
  BY PairIs
<1>2. c \in Text /\ c # <<>> /\ Normal(Tail(b)) /\ Fits(t, Tail(b))
  BY <1>1, FitsInsert
<1>3. ~FollowDone(s)
  BY <1>1 DEF FollowDone
<1>4. FollowStep(s) = Pair(a, Tail(b), o)
  <2> HIDE DEF s
  <2>. QED
    BY <1>1, FollowStepIs DEF InsertsFirst, Pair
<1>5. FollowLoop[s] = FollowLoop[FollowStep(s)]
  BY <1>1, <1>3, FollowLoopIs
<1>6. /\ Insert(c) \in Plain /\ Insert(c) \in Op
      /\ Len(<<>>) = Consumes(Insert(c)) /\ ResultOf(<<>>, Insert(c)) = c
  <2>1. Insert(c) \in Plain /\ Insert(c) \in Op
    BY <1>2, PlainOps
  <2>2. Insert(c).op = "insert" /\ Insert(c).chars = c
    BY DEF Insert
  <2>. QED
    BY <2>1, <2>2, TextNil DEF Consumes, ResultOf
<1>7. Normal(o)
  BY <1>1, <1>6, AddOpNormal
<1>8. Fits(p, o) /\ Run(p, o) = Run(p, out) \o c
  <2>1. <<>> \in Text /\ p \o <<>> = p
    BY <1>1, TextNil, TextConcatNil
  <2> DEFINE r == Insert(c)
  <2>2. r \in Op /\ Len(<<>>) = Consumes(r) /\ ResultOf(<<>>, r) = c
    BY <1>6
  <2> HIDE DEF c, r
  <2>3. Fits(p \o <<>>, AddOp(out, r)) /\ Run(p \o <<>>, AddOp(out, r)) = Run(p, out) \o ResultOf(<<>>, r)
    BY <1>1, <2>1, <2>2, AddOpRun, ZenonT(40)
  <2>. QED
    BY <2>1, <2>2, <2>3 DEF r
<1> HIDE DEF o, c
<1>9. Rebases(p, t, Pair(a, Tail(b), o))
  BY <1>1, <1>2, <1>7, <1>8 DEF Rebases, Pair
<1>. QED
  BY <1>4, <1>5, <1>8, <1>9 DEF o, c

\* Where neither inserts, A and B address the same source characters x: what
\* both keep of them is emitted.
BothKeep(x, a, b) == IF a.op = "retain" /\ b.op = "retain" THEN x ELSE <<>>

\* The loop goes on behind a part x of the base.
RebasesBoth(p, t, a, b, out, x, y) ==
    \E o : /\ FollowLoop[Pair(a, b, out)]
                = FollowLoop[Pair(Consume(a, Len(x)), Consume(b, Len(x)), o)]
           /\ o = FollowSource(Head(a), Head(b), Len(x), out)
           /\ Rebases(p \o ResultOf(x, Head(a)), y,
                      Pair(Consume(a, Len(x)), Consume(b, Len(x)), o))
           /\ Run(p \o ResultOf(x, Head(a)), o) = Run(p, out) \o BothKeep(x, Head(a), Head(b))
           /\ Run(t, a) = ResultOf(x, Head(a)) \o Run(y, Consume(a, Len(x)))
           /\ Run(t, b) = ResultOf(x, Head(b)) \o Run(y, Consume(b, Len(x)))

\* A step of Follow in which neither side inserts: the part x of the base is consumed by both
\* operands, and the output keeps what both retain.
LEMMA FollowBoth ==
    ASSUME NEW p, NEW t, NEW a, NEW b, NEW out, Rebases(p, t, Pair(a, b, out)),
           a # <<>>, b # <<>>, ~At(a, "insert"), ~At(b, "insert"),
           NEW x \in Text, NEW y \in Text, t = x \o y, Len(x) = Shorter(Head(a), Head(b))
    PROVE  RebasesBoth(p, t, a, b, out, x, y)
<1> DEFINE s == Pair(a, b, out)
           k == Len(x)
           ha == Head(a)
           hb == Head(b)
           o == FollowSource(ha, hb, k, out)
<1>1. /\ s \in Cursors
      /\ Normal(a) /\ Fits(t, a) /\ Normal(b) /\ Fits(t, b) /\ Normal(out) /\ Fits(p, out)
      /\ s.a = a /\ s.b = b /\ s.out = out /\ p \in Text
  BY PairIs
<1>2. /\ ha \in Plain /\ ha \in Op /\ ha.op \in {"retain", "delete"}
      /\ hb \in Plain /\ hb \in Op /\ hb.op \in {"retain", "delete"}
  <2>1. ha \in Plain /\ ha \in Op /\ hb \in Plain /\ hb \in Op
    BY <1>1, NormalTail
  <2>. QED
    BY <2>1 DEF At, Op
<1>3. k = Shorter(ha, hb) /\ k \in 0..Size(ha) /\ k \in 0..Size(hb) /\ k \in Nat \ {0}
  <2>1. k = Shorter(ha, hb) /\ k \in 0..Size(ha) /\ k \in 0..Size(hb) /\ (k = Size(ha) \/ k = Size(hb))
    BY <1>2, ShorterIs
  <2>2. Size(ha) \in Nat \ {0} /\ Size(hb) \in Nat \ {0}
    BY <1>2, PlainOps
  <2>. QED
    BY <2>1, <2>2
<1>4. FollowLoop[s] = FollowLoop[Pair(Consume(a, k), Consume(b, k), o)]
  <2>1. ~FollowDone(s)
    BY <1>1 DEF FollowDone
  <2>2. FollowStep(s) = Pair(Consume(a, k), Consume(b, k), o)
    <3> HIDE DEF s
    <3>. QED
      BY <1>1, <1>3, FollowStepIs DEF Pair
  <2>. QED
    BY <1>1, <2>1, <2>2, FollowLoopIs
<1>5. /\ Fits(y, Consume(a, k)) /\ Run(t, a) = ResultOf(x, ha) \o Run(y, Consume(a, k))
      /\ Fits(y, Consume(b, k)) /\ Run(t, b) = ResultOf(x, hb) \o Run(y, Consume(b, k))
      /\ Normal(Consume(a, k)) /\ Normal(Consume(b, k))
  <2>1. ha.op # "insert" /\ hb.op # "insert" /\ Len(x) <= Size(ha) /\ Len(x) <= Size(hb)
    BY <1>2, <1>3
  <2>2. Advances(t, a, x, y) /\ Advances(t, b, x, y)
    BY <1>1, <2>1, ConsumeSource
  <2>4. Normal(Consume(a, k)) /\ Normal(Consume(b, k))
    BY <1>1, <1>3, NormalConsume
  <2>. QED
    BY <2>2, <2>4 DEF Advances
<1>6. /\ Normal(o) /\ Fits(p \o ResultOf(x, ha), o)
      /\ Run(p \o ResultOf(x, ha), o) = Run(p, out) \o BothKeep(x, ha, hb)
  <2>1. ASSUME ha.op = "retain", NEW e \in {Retain(k), Delete(k)}
        PROVE  /\ e \in Plain /\ e \in Op /\ Consumes(e) = Len(x)
               /\ Normal(AddOp(out, e)) /\ Fits(p \o x, AddOp(out, e))
               /\ Run(p \o x, AddOp(out, e)) = Run(p, out) \o ResultOf(x, e)
    <3>1. e \in Plain /\ e \in Op
      BY <1>3, PlainOps
    <3>2. Consumes(e) = Len(x)
      BY DEF Consumes, Retain, Delete
    <3>. QED
      BY <1>1, <3>1, <3>2, AddOpNormal, AddOpRun
  <2>2. CASE ha.op = "retain" /\ hb.op = "retain"
    <3> DEFINE e == Retain(k)
    <3>1. o = AddOp(out, e)
      BY <2>2 DEF FollowSource
    <3>2. ResultOf(x, ha) = x /\ ResultOf(x, e) = x /\ BothKeep(x, ha, hb) = x
      BY <2>2 DEF ResultOf, BothKeep, Retain
    <3>3. e \in {Retain(k), Delete(k)}
      OBVIOUS
    <3> HIDE DEF o, ha, hb, e
    <3>. QED
      BY <2>1, <2>2, <3>1, <3>2, <3>3
  <2>3. CASE ha.op = "retain" /\ hb.op = "delete"
    <3> DEFINE e == Delete(k)
    <3>1. o = AddOp(out, e)
      BY <2>3 DEF FollowSource
    <3>2. ResultOf(x, ha) = x /\ ResultOf(x, e) = <<>> /\ BothKeep(x, ha, hb) = <<>>
      BY <2>3 DEF ResultOf, BothKeep, Delete
    <3>3. e \in {Retain(k), Delete(k)}
      OBVIOUS
    <3> HIDE DEF o, ha, hb, e
    <3>. QED
      BY <2>1, <2>3, <3>1, <3>2, <3>3
  <2>4. CASE ha.op = "delete"
    <3>1. o = out
      BY <1>2, <2>4 DEF FollowSource
    <3>2. ResultOf(x, ha) = <<>> /\ BothKeep(x, ha, hb) = <<>>
      BY <2>4 DEF ResultOf, BothKeep
    <3>3. p \o <<>> = p /\ Run(p, out) \o <<>> = Run(p, out)
      BY <1>1, RunText, TextConcatNil
    <3> HIDE DEF o, ha, hb
    <3>. QED
      BY <1>1, <3>1, <3>2, <3>3
  <2>. QED
    BY <1>2, <2>2, <2>3, <2>4
<1> HIDE DEF o, ha, hb, k
<1>7. Rebases(p \o ResultOf(x, ha), y, Pair(Consume(a, k), Consume(b, k), o))
  BY <1>5, <1>6 DEF Rebases, Pair
<1>. QED
  BY <1>4, <1>5, <1>6, <1>7 DEF o, ha, hb, k, RebasesBoth

\* Follow ends where the source ends.
LEMMA FollowEnd ==
    ASSUME NEW p, NEW t, NEW a, NEW b, NEW out, Rebases(p, t, Pair(a, b, out)),
           ~At(a, "insert"), ~At(b, "insert"), a = <<>> \/ b = <<>>
    PROVE  a = <<>> /\ b = <<>> /\ t = <<>> /\ FollowLoop[Pair(a, b, out)] = out
<1> DEFINE s == Pair(a, b, out)
<1>1. /\ s \in Cursors
      /\ Normal(a) /\ Fits(t, a) /\ Normal(b) /\ Fits(t, b)
      /\ s.a = a /\ s.b = b /\ s.out = out /\ a \in Seq(Op) /\ b \in Seq(Op) /\ t \in Text
  BY PairIs
<1>2. t = <<>>
  <2>1. Len(t) = 0
    BY <1>1, ConsumedIs DEF Fits
  <2>. QED
    BY <1>1, <2>1, TextNil
<1>3. ASSUME NEW ops, Normal(ops), Fits(t, ops), ~At(ops, "insert") PROVE ops = <<>>
  <2>1. SUFFICES ASSUME ops # <<>> PROVE FALSE
    OBVIOUS
  <2>2. Head(ops) \in Plain /\ Head(ops).op # "insert" /\ ops \in Seq(Op) /\ Tail(ops) \in Seq(Op)
    BY <1>3, <2>1, NormalTail, HeadAndTail DEF At, Fits
  <2>3. Consumes(Head(ops)) \in Nat \ {0}
    BY <2>2, PlainOps DEF Consumes, Size
  <2>4. Consumed(ops) = Consumes(Head(ops)) + Consumed(Tail(ops)) /\ Consumed(Tail(ops)) \in Nat
    BY <2>1, <2>2, ConsumedIs
  <2>5. Consumed(ops) = 0
    BY <1>2, <1>3, TextNil DEF Fits
  <2>. QED
    BY <2>3, <2>4, <2>5
<1>4. a = <<>> /\ b = <<>>
  BY <1>1, <1>3
<1>5. FollowDone(s)
  BY <1>1, <1>4 DEF FollowDone
<1>. QED
  BY <1>1, <1>2, <1>4, <1>5, FollowLoopIs

\* The next source characters both address.
Splits(t, a, b) == \E x, y \in Text : t = x \o y /\ Len(x) = Shorter(Head(a), Head(b))

\* As long as no side inserts, the shorter operation ends within the base.
LEMMA SourceNext ==
    ASSUME NEW t, NEW a, NEW b, Normal(a), Normal(b), Fits(t, a), Fits(t, b),
           a # <<>>, b # <<>>, ~At(a, "insert"), ~At(b, "insert")
    PROVE  Splits(t, a, b)
<1> DEFINE k == Shorter(Head(a), Head(b))
<1>1. PICK x, y \in Text : Takes(t, a, x, y)
  BY FitsHead
<1>2. Head(a) \in Op /\ Head(b) \in Op /\ Head(a).op # "insert"
  BY NormalTail DEF At
<1>3. k \in 0..Size(Head(a)) /\ Size(Head(a)) = Len(x)
  BY <1>1, <1>2, ShorterIs DEF Takes, Size, Consumes
<1>4. t \in Seq(Nat) /\ Len(t) = Len(x) + Len(y) /\ Len(x) \in Nat /\ Len(y) \in Nat
  BY <1>1, TextConcat, TextNil DEF Fits, Takes, Text
<1>5. k \in 0..Len(t)
  BY <1>3, <1>4
<1> HIDE DEF k
<1>6. /\ SubSeq(t, 1, k) \in Text /\ SubSeq(t, k + 1, Len(t)) \in Text
      /\ t = SubSeq(t, 1, k) \o SubSeq(t, k + 1, Len(t)) /\ Len(SubSeq(t, 1, k)) = k
  BY <1>4, <1>5, Cut DEF Text
<1>. QED
  BY <1>6 DEF k, Splits

-------------------------------------------------------------------------------
\* Two Follows side by side: one has A's changes made in p and emits B's, the
\* other has B's made in q and emits A's, and what has been emitted leads both
\* to the same text.
SameSoFar(t, a, b, p, o1, q, o2) ==
    /\ Rebases(p, t, Pair(a, b, o1))
    /\ Rebases(q, t, Pair(b, a, o2))
    /\ Run(p, o1) = Run(q, o2)

\* Both runs end having made the same text.
SameInTheEnd(t, a, b, p, o1, q, o2) ==
    Run(p \o Run(t, a), FollowLoop[Pair(a, b, o1)])
        = Run(q \o Run(t, b), FollowLoop[Pair(b, a, o2)])

\* Whatever the two runs have done, if they have made the same text they end so.
Together(a, b) ==
    \A t, p, o1, q, o2 : SameSoFar(t, a, b, p, o1, q, o2) => SameInTheEnd(t, a, b, p, o1, q, o2)

\* A's insertion c is passed by the one and copied by the other.
LEMMA TogetherInsert ==
    ASSUME NEW t, NEW a, NEW b, NEW p, NEW o1, NEW q, NEW o2,
           SameSoFar(t, a, b, p, o1, q, o2), At(a, "insert"),
           At(b, "insert") => /\ LexLeq(Head(a).chars, Head(b).chars)
                              /\ ~LexLeq(Head(b).chars, Head(a).chars),
           Together(Tail(a), b)
    PROVE  SameInTheEnd(t, a, b, p, o1, q, o2)
<1> DEFINE c == Head(a).chars
           r == Tail(a)
<1>1. Rebases(p, t, Pair(a, b, o1)) /\ Rebases(q, t, Pair(b, a, o2)) /\ Run(p, o1) = Run(q, o2)
  BY DEF SameSoFar
<1>2. /\ c \in Text /\ Run(t, a) = c \o Run(t, r) /\ p \in Text /\ Run(t, r) \in Text
  <2>1. Normal(a) /\ Fits(t, a) /\ p \in Text
    BY <1>1, PairIs
  <2>. QED
    BY <2>1, FitsInsert, RunText
<1>3. PICK o : /\ FollowLoop[Pair(a, b, o1)] = FollowLoop[Pair(r, b, o)]
               /\ Rebases(p \o c, t, Pair(r, b, o))
               /\ Run(p \o c, o) = Run(p, o1) \o c
  BY <1>1, FollowA
<1>4. PICK d : /\ FollowLoop[Pair(b, a, o2)] = FollowLoop[Pair(b, r, d)]
               /\ Rebases(q, t, Pair(b, r, d))
               /\ Run(q, d) = Run(q, o2) \o c
  <2>1. Rebases(q, t, Pair(b, a, o2)) /\ At(a, "insert")
        /\ (At(b, "insert") => ~LexLeq(Head(b).chars, Head(a).chars))
    BY <1>1
  <2>. QED
    BY <2>1, FollowB
<1> HIDE DEF c, r
<1>5. SameSoFar(t, r, b, p \o c, o, q, d)
  BY <1>1, <1>3, <1>4 DEF SameSoFar
<1>6. SameInTheEnd(t, r, b, p \o c, o, q, d)
  BY <1>5 DEF Together, r
<1>7. (p \o c) \o Run(t, r) = p \o Run(t, a)
  BY <1>2, TextAssociative, SMTT(40)
<1>. QED
  BY <1>3, <1>4, <1>6, <1>7 DEF SameInTheEnd

\* Equal insertions of both: each passes the other's and copies its own.
LEMMA TogetherTwins ==
    ASSUME NEW t, NEW a, NEW b, NEW p, NEW o1, NEW q, NEW o2,
           SameSoFar(t, a, b, p, o1, q, o2), At(a, "insert"), At(b, "insert"),
           Head(a).chars = Head(b).chars,
           Together(Tail(a), Tail(b))
    PROVE  SameInTheEnd(t, a, b, p, o1, q, o2)
<1> DEFINE c == Head(a).chars
           ra == Tail(a)
           rb == Tail(b)
<1>1. Rebases(p, t, Pair(a, b, o1)) /\ Rebases(q, t, Pair(b, a, o2)) /\ Run(p, o1) = Run(q, o2)
  BY DEF SameSoFar
<1>2. Normal(a) /\ Fits(t, a) /\ Normal(b) /\ Fits(t, b) /\ p \in Text /\ q \in Text
      /\ Run(p, o1) \in Text
  BY <1>1, PairIs, RunText
<1>3. /\ c \in Text /\ Run(t, a) = c \o Run(t, ra) /\ Run(t, b) = c \o Run(t, rb)
      /\ Run(t, ra) \in Text /\ Run(t, rb) \in Text
      /\ ~At(ra, "insert") /\ ~At(rb, "insert")
  BY <1>2, FitsInsert, RunText
<1>4. LexLeq(c, c)
  BY <1>3, LexOrder
<1>5. PICK e : /\ FollowLoop[Pair(a, b, o1)] = FollowLoop[Pair(ra, b, e)]
               /\ Rebases(p \o c, t, Pair(ra, b, e))
               /\ Run(p \o c, e) = Run(p, o1) \o c
  BY <1>1, <1>4, FollowA
<1>6. PICK f : /\ FollowLoop[Pair(ra, b, e)] = FollowLoop[Pair(ra, rb, f)]
               /\ Rebases(p \o c, t, Pair(ra, rb, f))
               /\ Run(p \o c, f) = Run(p \o c, e) \o c
  <2> DEFINE u == p \o c
  <2>1. Rebases(u, t, Pair(ra, b, e)) /\ At(b, "insert") /\ ~At(ra, "insert") /\ Head(b).chars = c
    BY <1>3, <1>5
  <2> HIDE DEF u, c, ra
  <2>2. At(ra, "insert") => ~LexLeq(Head(ra).chars, Head(b).chars)
    BY <2>1
  <2>. QED
    BY <2>1, <2>2, FollowB, SMTT(40) DEF u
<1>7. PICK g : /\ FollowLoop[Pair(b, a, o2)] = FollowLoop[Pair(rb, a, g)]
               /\ Rebases(q \o c, t, Pair(rb, a, g))
               /\ Run(q \o c, g) = Run(q, o2) \o c
  <2>1. /\ Rebases(q, t, Pair(b, a, o2)) /\ At(b, "insert") /\ Head(b).chars = c
        /\ At(a, "insert") => LexLeq(Head(b).chars, Head(a).chars)
    BY <1>1, <1>4
  <2> HIDE DEF c
  <2>. QED
    BY <2>1, FollowA, SMTT(40)
<1>8. PICK h : /\ FollowLoop[Pair(rb, a, g)] = FollowLoop[Pair(rb, ra, h)]
               /\ Rebases(q \o c, t, Pair(rb, ra, h))
               /\ Run(q \o c, h) = Run(q \o c, g) \o c
  <2> DEFINE u == q \o c
  <2>1. Rebases(u, t, Pair(rb, a, g)) /\ At(a, "insert") /\ ~At(rb, "insert") /\ Head(a).chars = c
    BY <1>3, <1>7
  <2> HIDE DEF u, c, rb
  <2>2. At(rb, "insert") => ~LexLeq(Head(rb).chars, Head(a).chars)
    BY <2>1
  <2>. QED
    BY <2>1, <2>2, FollowB, SMTT(40) DEF u
<1> HIDE DEF c, ra, rb
<1>9. SameSoFar(t, ra, rb, p \o c, f, q \o c, h)
  BY <1>1, <1>5, <1>6, <1>7, <1>8 DEF SameSoFar
<1>10. SameInTheEnd(t, ra, rb, p \o c, f, q \o c, h)
  BY <1>9 DEF Together, ra, rb
<1>11. (p \o c) \o Run(t, ra) = p \o Run(t, a) /\ (q \o c) \o Run(t, rb) = q \o Run(t, b)
  <2> DEFINE va == Run(t, ra)
             vb == Run(t, rb)
  <2>1. va \in Text /\ vb \in Text /\ Run(t, a) = c \o va /\ Run(t, b) = c \o vb
    BY <1>3
  <2> HIDE DEF va, vb
  <2>2. (p \o c) \o va = p \o (c \o va) /\ (q \o c) \o vb = q \o (c \o vb)
    BY <1>2, <1>3, <2>1, TextAssociative, ZenonT(40)
  <2>. QED
    BY <2>1, <2>2 DEF va, vb
<1>. QED
  BY <1>5, <1>6, <1>7, <1>8, <1>10, <1>11 DEF SameInTheEnd

\* Source characters both address.
LEMMA TogetherBoth ==
    ASSUME NEW t, NEW a, NEW b, NEW p, NEW o1, NEW q, NEW o2,
           SameSoFar(t, a, b, p, o1, q, o2), ~At(a, "insert"), ~At(b, "insert"),
           a # <<>>, b # <<>>,
           \A k \in Nat : k = Shorter(Head(a), Head(b)) => Together(Consume(a, k), Consume(b, k))
    PROVE  SameInTheEnd(t, a, b, p, o1, q, o2)
<1> DEFINE ha == Head(a)
           hb == Head(b)
<1>1. Rebases(p, t, Pair(a, b, o1)) /\ Rebases(q, t, Pair(b, a, o2)) /\ Run(p, o1) = Run(q, o2)
  BY DEF SameSoFar
<1>2. Normal(a) /\ Fits(t, a) /\ Normal(b) /\ Fits(t, b) /\ p \in Text /\ q \in Text
  BY <1>1, PairIs
<1>3. PICK x, y \in Text : t = x \o y /\ Len(x) = Shorter(ha, hb)
  <2> HIDE DEF ha, hb
  <2>1. Splits(t, a, b)
    BY <1>2, SourceNext
  <2>. QED
    BY <2>1, Zenon DEF Splits, ha, hb
<1>4. /\ ha \in Op /\ ha.op \in {"retain", "delete"}
      /\ hb \in Op /\ hb.op \in {"retain", "delete"}
  <2>1. ha \in Op /\ hb \in Op
    BY <1>2, NormalTail
  <2>. QED
    BY <2>1 DEF At, Op
<1>5. Shorter(hb, ha) = Shorter(ha, hb)
  BY <1>4, OpTypes DEF Shorter
<1> DEFINE k == Len(x)
           ca == Consume(a, k)
           cb == Consume(b, k)
           ra == ResultOf(x, ha)
           rb == ResultOf(x, hb)
<1>6. PICK e : /\ FollowLoop[Pair(a, b, o1)] = FollowLoop[Pair(ca, cb, e)]
               /\ Rebases(p \o ra, y, Pair(ca, cb, e))
               /\ Run(p \o ra, e) = Run(p, o1) \o BothKeep(x, ha, hb)
               /\ Run(t, a) = ra \o Run(y, ca)
               /\ Run(t, b) = rb \o Run(y, cb)
  <2>1. RebasesBoth(p, t, a, b, o1, x, y)
    <3>1. Len(x) = Shorter(Head(a), Head(b))
      BY <1>3
    <3> HIDE DEF ha, hb, k, ca, cb, ra, rb
    <3>. QED
      BY <1>1, <1>3, <3>1, FollowBoth
  <2>. QED
    BY <2>1, Zenon DEF RebasesBoth
<1>7. PICK f : /\ FollowLoop[Pair(b, a, o2)] = FollowLoop[Pair(cb, ca, f)]
               /\ Rebases(q \o rb, y, Pair(cb, ca, f))
               /\ Run(q \o rb, f) = Run(q, o2) \o BothKeep(x, hb, ha)
  <2>1. RebasesBoth(q, t, b, a, o2, x, y)
    <3>1. Len(x) = Shorter(Head(b), Head(a))
      BY <1>3, <1>5
    <3> HIDE DEF ha, hb, k, ca, cb, ra, rb
    <3>. QED
      BY <1>1, <1>3, <3>1, FollowBoth
  <2>. QED
    BY <2>1, Zenon DEF RebasesBoth
<1>8. BothKeep(x, hb, ha) = BothKeep(x, ha, hb)
  BY DEF BothKeep
<1>9. ra \in Text /\ rb \in Text /\ Run(y, ca) \in Text /\ Run(y, cb) \in Text
  <2>1. ra \in {x, <<>>} /\ rb \in {x, <<>>}
    BY <1>4 DEF ResultOf
  <2>2. Run(y, ca) \in Text /\ Run(y, cb) \in Text
    BY <1>6, PairIs, RunText
  <2>. QED
    BY <2>1, <2>2, TextNil
<1>10. Together(ca, cb)
  BY <1>3, TextNil
<1> HIDE DEF ca, cb, ra, rb, ha, hb
<1>11. SameSoFar(y, ca, cb, p \o ra, e, q \o rb, f)
  BY <1>1, <1>6, <1>7, <1>8 DEF SameSoFar
<1>12. SameInTheEnd(y, ca, cb, p \o ra, e, q \o rb, f)
  BY <1>10, <1>11 DEF Together
<1>13. (p \o ra) \o Run(y, ca) = p \o Run(t, a) /\ (q \o rb) \o Run(y, cb) = q \o Run(t, b)
  <2> DEFINE va == Run(y, ca)
             vb == Run(y, cb)
  <2>1. va \in Text /\ vb \in Text /\ Run(t, a) = ra \o va /\ Run(t, b) = rb \o vb
    BY <1>6, <1>9
  <2> HIDE DEF va, vb
  <2>2. (p \o ra) \o va = p \o (ra \o va)
    <3>1. p \in Text /\ ra \in Text /\ va \in Text
      BY <1>2, <1>9, <2>1
    <3>. QED
      BY ONLY <3>1, TextAssociative
  <2>3. (q \o rb) \o vb = q \o (rb \o vb)
    <3>1. q \in Text /\ rb \in Text /\ vb \in Text
      BY <1>2, <1>9, <2>1
    <3>. QED
      BY ONLY <3>1, TextAssociative
  <2>. QED
    BY <2>1, <2>2, <2>3 DEF va, vb
<1>. QED
  BY <1>6, <1>7, <1>12, <1>13 DEF SameInTheEnd

\* Two runs at the end of an operand: the other has only inserts left, or nothing.
LEMMA TogetherEnd ==
    ASSUME NEW t, NEW a, NEW b, NEW p, NEW o1, NEW q, NEW o2,
           SameSoFar(t, a, b, p, o1, q, o2), ~At(a, "insert"), ~At(b, "insert"),
           a = <<>> \/ b = <<>>
    PROVE  SameInTheEnd(t, a, b, p, o1, q, o2)
<1>1. Rebases(p, t, Pair(a, b, o1)) /\ Rebases(q, t, Pair(b, a, o2)) /\ Run(p, o1) = Run(q, o2)
  BY DEF SameSoFar
<1>2. a = <<>> /\ b = <<>> /\ t = <<>> /\ FollowLoop[Pair(a, b, o1)] = o1
  BY <1>1, FollowEnd
<1>3. FollowLoop[Pair(b, a, o2)] = o2
  BY <1>1, FollowEnd
<1>4. p \in Text /\ q \in Text
  BY <1>1, PairIs
<1>5. Run(t, a) = <<>> /\ Run(t, b) = <<>> /\ p \o <<>> = p /\ q \o <<>> = q
  BY <1>2, <1>4, RunNil, TextConcatNil
<1>. QED
  BY <1>1, <1>2, <1>3, <1>5 DEF SameInTheEnd

\* The two runs may change roles.
LEMMA SameSwap ==
    ASSUME NEW t, NEW a, NEW b, NEW p, NEW o1, NEW q, NEW o2
    PROVE  /\ SameSoFar(t, a, b, p, o1, q, o2) <=> SameSoFar(t, b, a, q, o2, p, o1)
           /\ SameInTheEnd(t, a, b, p, o1, q, o2) <=> SameInTheEnd(t, b, a, q, o2, p, o1)
  BY DEF SameSoFar, SameInTheEnd

\* Advancing both over the shorter of their heads uses one of them up.
LEMMA ConsumeShortens ==
    ASSUME NEW a \in Seq(Op), NEW b \in Seq(Op), a # <<>>, b # <<>>,
           NEW k \in Nat, k = Shorter(Head(a), Head(b))
    PROVE  /\ Consume(a, k) \in Seq(Op) /\ Consume(b, k) \in Seq(Op)
           /\ Len(Consume(a, k)) + Len(Consume(b, k)) < Len(a) + Len(b)
<1>1. Head(a) \in Op /\ Head(b) \in Op
  BY HeadAndTail
<1>2. k \in 0..Size(Head(a)) /\ k \in 0..Size(Head(b)) /\ (k = Size(Head(a)) \/ k = Size(Head(b)))
  BY <1>1, ShorterIs
<1>3. /\ Consume(a, k) \in Seq(Op) /\ Len(Consume(a, k)) <= Len(a)
      /\ k = Size(Head(a)) => Len(Consume(a, k)) < Len(a)
  BY <1>2, ConsumeIs
<1>4. /\ Consume(b, k) \in Seq(Op) /\ Len(Consume(b, k)) <= Len(b)
      /\ k = Size(Head(b)) => Len(Consume(b, k)) < Len(b)
  BY <1>2, ConsumeIs
<1> DEFINE c == Consume(a, k)
           d == Consume(b, k)
<1>5. c \in Seq(Op) /\ d \in Seq(Op) /\ Len(c) \in Nat /\ Len(d) \in Nat
      /\ Len(a) \in Nat /\ Len(b) \in Nat
  BY <1>3, <1>4, LenProperties
<1>. QED
  BY <1>2, <1>3, <1>4, <1>5

\* Two Follows side by side stay side by side: a step of the one is matched by
\* a step of the other, except that equal insertions take two steps of each.
LEMMA SideBySideStep ==
    ASSUME NEW a \in Seq(Op), NEW b \in Seq(Op),
           \A c, d \in Seq(Op) : Len(c) + Len(d) < Len(a) + Len(b) => Together(c, d)
    PROVE  Together(a, b)
<1>1. SUFFICES ASSUME NEW t, NEW p, NEW o1, NEW q, NEW o2, SameSoFar(t, a, b, p, o1, q, o2)
               PROVE  SameInTheEnd(t, a, b, p, o1, q, o2)
  BY DEF Together
<1>2. Normal(a) /\ Fits(t, a) /\ Normal(b) /\ Fits(t, b)
  <2>1. Rebases(p, t, Pair(a, b, o1))
    BY <1>1 DEF SameSoFar
  <2>. QED
    BY <2>1, PairIs
<1>3. Len(a) \in Nat /\ Len(b) \in Nat
  OBVIOUS
<1>4. ASSUME NEW c \in Seq(Op), c # <<>>
      PROVE  Tail(c) \in Seq(Op) /\ Len(Tail(c)) \in Nat /\ Len(c) = Len(Tail(c)) + 1
  BY <1>4, HeadAndTail
<1>5. SameSoFar(t, b, a, q, o2, p, o1)
  BY <1>1, SameSwap
<1>6. CASE /\ At(a, "insert")
           /\ At(b, "insert") => /\ LexLeq(Head(a).chars, Head(b).chars)
                                 /\ ~LexLeq(Head(b).chars, Head(a).chars)
  <2>1. Together(Tail(a), b)
    <3>1. Tail(a) \in Seq(Op) /\ Len(Tail(a)) + Len(b) < Len(a) + Len(b)
      BY <1>3, <1>4, <1>6 DEF At
    <3>. QED
      BY <3>1
  <2>. QED
    BY <1>1, <1>6, <2>1, TogetherInsert
<1>7. CASE /\ At(b, "insert")
           /\ At(a, "insert") => /\ LexLeq(Head(b).chars, Head(a).chars)
                                 /\ ~LexLeq(Head(a).chars, Head(b).chars)
  <2>1. Together(Tail(b), a)
    <3>1. Tail(b) \in Seq(Op) /\ Len(Tail(b)) + Len(a) < Len(a) + Len(b)
      BY <1>3, <1>4, <1>7 DEF At
    <3>. QED
      BY <3>1
  <2>2. SameInTheEnd(t, b, a, q, o2, p, o1)
    BY <1>5, <1>7, <2>1, TogetherInsert
  <2>. QED
    BY <2>2, SameSwap
<1>8. CASE At(a, "insert") /\ At(b, "insert") /\ Head(a).chars = Head(b).chars
  <2>1. Together(Tail(a), Tail(b))
    <3>1. Tail(a) \in Seq(Op) /\ Tail(b) \in Seq(Op) /\ Len(Tail(a)) + Len(Tail(b)) < Len(a) + Len(b)
      BY <1>3, <1>4, <1>8 DEF At
    <3>. QED
      BY <3>1
  <2>. QED
    BY <1>1, <1>8, <2>1, TogetherTwins
<1>9. CASE ~At(a, "insert") /\ ~At(b, "insert") /\ a # <<>> /\ b # <<>>
  <2>1. ASSUME NEW k \in Nat, k = Shorter(Head(a), Head(b))
        PROVE  Together(Consume(a, k), Consume(b, k))
    <3> DEFINE c == Consume(a, k)
               d == Consume(b, k)
    <3>5. c \in Seq(Op) /\ d \in Seq(Op) /\ Len(c) + Len(d) < Len(a) + Len(b)
      BY <1>9, <2>1, ConsumeShortens
    <3> HIDE DEF c, d
    <3>6. Together(c, d)
      BY <3>5
    <3>. QED
      BY <3>6 DEF c, d
  <2>. QED
    BY <1>1, <1>9, <2>1, TogetherBoth
<1>10. CASE ~At(a, "insert") /\ ~At(b, "insert") /\ (a = <<>> \/ b = <<>>)
  BY <1>1, <1>10, TogetherEnd
<1>11. At(a, "insert") /\ At(b, "insert") =>
          /\ LexLeq(Head(a).chars, Head(b).chars) \/ LexLeq(Head(b).chars, Head(a).chars)
          /\ LexLeq(Head(a).chars, Head(b).chars) /\ LexLeq(Head(b).chars, Head(a).chars)
                => Head(a).chars = Head(b).chars
  <2>1. SUFFICES ASSUME At(a, "insert"), At(b, "insert")
                 PROVE  Head(a).chars \in Text /\ Head(b).chars \in Text
    BY LexOrder
  <2>. QED
    BY <1>2, <2>1, FitsInsert
<1>. QED
  BY <1>6, <1>7, <1>8, <1>9, <1>10, <1>11

\* By induction on the two operands: the runs of Follow(A, B) and Follow(B, A) make the same
\* text.
LEMMA SideBySide == \A a, b \in Seq(Op) : Together(a, b)
<1> DEFINE T == {s \in Seq(Op) \X Seq(Op) : Together(s[1], s[2])}
<1>1. ASSUME NEW a \in Seq(Op), NEW b \in Seq(Op) PROVE <<a, b>> \in T <=> Together(a, b)
  OBVIOUS
<1> HIDE DEF T
<1>2. ASSUME NEW a \in Seq(Op), NEW b \in Seq(Op),
             \A c, d \in Seq(Op) : Len(c) + Len(d) < Len(a) + Len(b) => <<c, d>> \in T
      PROVE  <<a, b>> \in T
  <2>1. \A c, d \in Seq(Op) : Len(c) + Len(d) < Len(a) + Len(b) => Together(c, d)
    BY <1>1, <1>2
  <2>2. Together(a, b)
    BY <2>1, SideBySideStep
  <2>. QED
    BY <1>1, <2>2
<1>3. \A a, b \in Seq(Op) : <<a, b>> \in T
  BY <1>2, PairInduction
<1>. QED
  BY <1>1, <1>3

-------------------------------------------------------------------------------
(* The text that a list of operations inserts.                             *)

\* Inserted is the joined text of the insert operations.
LEMMA InsertedIs ==
    /\ Inserted(<<>>) = <<>>
    /\ \A q \in Seq(Op) : Inserted(q) \in Text
    /\ \A q \in Seq(Op) : q # <<>> => Inserted(q) = Head(q).chars \o Inserted(Tail(q))
<1> DEFINE next(f, q) == IF q = <<>> THEN <<>> ELSE Head(q).chars \o f[Tail(q)]
           text == CHOOSE f : f = [q \in Seq(Op) |-> next(f, q)]
           step == [x \in Op \X Text |-> x[1].chars \o x[2]]
<1>0. \A o \in Op : o.chars \in Text
  BY DEF Op
<1>1. step \in [Op \X Text -> Text]
  BY <1>0, TextConcat
<1>2. PICK f : IsFold(f, Op, Text, <<>>, step)
  <2> HIDE DEF step
  <2>. QED
    BY <1>1, TextNil, ListRecursion
<1>3. f \in [Seq(Op) -> Text] /\ \A q \in Seq(Op) : f[q] = next(f, q)
  <2>1. \A q \in Seq(Op) : q # <<>> => Head(q) \in Op /\ Tail(q) \in Seq(Op)
    BY HeadTailProperties
  <2>. QED
    BY <1>2, <2>1 DEF IsFold
<1>4. f = [q \in Seq(Op) |-> next(f, q)]
  <2> HIDE DEF next
  <2>. QED
    BY <1>3
<1>5. text = [q \in Seq(Op) |-> next(text, q)]
  <2> HIDE DEF next
  <2>. QED
    BY <1>4
<1>6. \A q : Inserted(q) = text[q]
  BY DEF Inserted
<1>7. \A q \in Seq(Op) : text[q] = next(text, q)
  <2> HIDE DEF next
  <2>. QED
    BY <1>5
<1> HIDE DEF text
<1>8. \A q \in Seq(Op) : text[q] = IF q = <<>> THEN <<>> ELSE Head(q).chars \o text[Tail(q)]
  BY <1>7
<1> DEFINE T == {q \in Seq(Op) : text[q] \in Text}
<1>9. \A q \in Seq(Op) : q \in T
  <2>0. <<>> \in Seq(Op)
    BY EmptySeq
  <2>3. text[<<>>] = <<>>
    BY <1>8, <2>0, Zenon
  <2>1. <<>> \in T
    BY <2>0, <2>3, TextNil
  <2>2. ASSUME NEW q \in Seq(Op), q # <<>>, Tail(q) \in T PROVE q \in T
    <3>1. Head(q).chars \in Text /\ text[Tail(q)] \in Text
      BY <1>0, <2>2, HeadTailProperties
    <3> DEFINE c == Head(q).chars
               d == text[Tail(q)]
    <3>2. text[q] = c \o d
      BY <1>8, <2>2
    <3> HIDE DEF c, d
    <3>3. c \o d \in Text
      BY <3>1, TextConcat DEF c, d
    <3>. QED
      BY <3>2, <3>3
  <2> HIDE DEF T
  <2>. QED
    BY <2>1, <2>2, ListInduction
<1>. QED
  BY <1>6, <1>8, <1>9, EmptySeq

\* Inserted over a list with one more operation in front.
LEMMA InsertedCons ==
    ASSUME NEW o \in Op, NEW r \in Seq(Op)
    PROVE  Inserted(<<o>> \o r) = o.chars \o Inserted(r) /\ Inserted(<<o>>) = o.chars
<1> DEFINE q == <<o>> \o r
           w == <<o>>
<1>1. q \in Seq(Op) /\ q # <<>> /\ Head(q) = o /\ Tail(q) = r
  BY ConsSeq
<1>2. w \in Seq(Op) /\ w # <<>> /\ Head(w) = o /\ Tail(w) = <<>>
  OBVIOUS
<1> HIDE DEF q, w
<1>3. Inserted(q) = o.chars \o Inserted(r) /\ Inserted(w) = o.chars \o Inserted(<<>>)
  BY <1>1, <1>2, InsertedIs
<1>4. o.chars \in Text
  BY DEF Op
<1>5. o.chars \o <<>> = o.chars
  BY <1>4, TextConcatNil
<1>. QED
  BY <1>3, <1>5, InsertedIs DEF q, w

\* Inserted over joined lists.
LEMMA InsertedConcat ==
    ASSUME NEW u \in Seq(Op), NEW v \in Seq(Op)
    PROVE  Inserted(u \o v) = Inserted(u) \o Inserted(v)
<1> DEFINE T == {q \in Seq(Op) : Inserted(q \o v) = Inserted(q) \o Inserted(v)}
<1>1. <<>> \in T
  BY ConcatEmptySeq, InsertedIs, EmptySeq, TextConcatNil
<1>2. ASSUME NEW q \in Seq(Op), q # <<>>, Tail(q) \in T PROVE q \in T
  <2> DEFINE h == Head(q)
             r == Tail(q)
             s == r \o v
  <2>1. h \in Op /\ r \in Seq(Op) /\ q = <<h>> \o r /\ <<h>> \in Seq(Op)
    BY <1>2, HeadAndTail, ConsSeq
  <2>2. s \in Seq(Op) /\ q \o v = <<h>> \o s
    BY <2>1, ConcatProperties, ConcatAssociative
  <2>3. Inserted(s) = Inserted(r) \o Inserted(v)
    BY <1>2
  <2> HIDE DEF h, r, s
  <2>4. Inserted(q \o v) = h.chars \o Inserted(s) /\ Inserted(q) = h.chars \o Inserted(r)
    BY <2>1, <2>2, InsertedCons
  <2> DEFINE x == h.chars
             y == Inserted(r)
             z == Inserted(v)
  <2>5. x \in Text /\ y \in Text /\ z \in Text
    BY <2>1, InsertedIs DEF Op
  <2>6. Inserted(q \o v) = x \o (y \o z) /\ Inserted(q) = x \o y
    BY <2>3, <2>4
  <2> HIDE DEF x, y
  <2>7. (x \o y) \o z = x \o (y \o z)
    BY <2>5, TextAssociative
  <2>. QED
    BY <2>6, <2>7
<1>3. \A q \in Seq(Op) : q \in T
  <2> HIDE DEF T
  <2>. QED
    BY <1>1, <1>2, ListInduction
<1>. QED
  BY <1>3

\* addOp adds the text of the operation and drops none.
LEMMA AddOpInserted ==
    ASSUME NEW ops \in Seq(Op), NEW o \in Op
    PROVE  Inserted(AddOp(ops, o)) = Inserted(ops) \o o.chars
<1>1. CASE AddOp(ops, o) = ops \o <<o>>
  <2> DEFINE w == <<o>>
  <2>1. w \in Seq(Op) /\ Inserted(w) = o.chars
    BY InsertedCons, EmptySeq
  <2>2. AddOp(ops, o) = ops \o w
    BY <1>1
  <2> HIDE DEF w
  <2>3. Inserted(ops \o w) = Inserted(ops) \o Inserted(w)
    BY <2>1, InsertedConcat
  <2>. QED
    BY <2>1, <2>2, <2>3
<1>2. CASE \E f \in Seq(Op), l \in Op :
              /\ ops = f \o <<l>> /\ l.op = o.op
              /\ AddOp(ops, o) = f \o <<Merge(l, o)>>
  <2>1. PICK f \in Seq(Op), l \in Op :
              /\ ops = f \o <<l>> /\ l.op = o.op
              /\ AddOp(ops, o) = f \o <<Merge(l, o)>>
    BY <1>2
  <2> DEFINE m == Merge(l, o)
             w == <<l>>
             v == <<m>>
  <2>2. m \in Op /\ m.chars = l.chars \o o.chars
    BY <2>1, MergeIs DEF Merge
  <2>3. w \in Seq(Op) /\ Inserted(w) = l.chars
    BY InsertedCons, EmptySeq
  <2>4. v \in Seq(Op) /\ Inserted(v) = m.chars
    <3>1. \A e \in Op : <<e>> \in Seq(Op) /\ Inserted(<<e>>) = e.chars
      BY InsertedCons, EmptySeq
    <3> HIDE DEF m
    <3>. QED
      BY <2>2, <3>1
  <2>5. ops = f \o w /\ AddOp(ops, o) = f \o v
    BY <2>1
  <2> HIDE DEF m, w, v
  <2>6. Inserted(f \o w) = Inserted(f) \o Inserted(w) /\ Inserted(f \o v) = Inserted(f) \o Inserted(v)
    BY <2>3, <2>4, InsertedConcat
  <2> DEFINE x == Inserted(f)
             y == l.chars
             z == o.chars
  <2>7. x \in Text /\ y \in Text /\ z \in Text
    BY <2>1, InsertedIs DEF Op
  <2>8. Inserted(ops) = x \o y /\ Inserted(AddOp(ops, o)) = x \o (y \o z)
    BY <2>2, <2>3, <2>4, <2>5, <2>6
  <2> HIDE DEF x, y
  <2>9. (x \o y) \o z = x \o (y \o z)
    BY <2>7, TextAssociative
  <2>. QED
    BY <2>8, <2>9
<1>3. Adds(Op, ops, o)
  BY AddOpIs
<1>. QED
  BY <1>1, <1>2, <1>3 DEF Adds

\* Advancing over source characters passes over no text to insert.
LEMMA ConsumeInserted ==
    ASSUME NEW ops, Normal(ops), ops # <<>>, ~At(ops, "insert"), NEW k \in 0..Size(Head(ops))
    PROVE  Inserted(Consume(ops, k)) = Inserted(ops)
<1> DEFINE h == Head(ops)
           r == Tail(ops)
<1>1. ops \in Seq(Op) /\ h \in Plain /\ h \in Op /\ h.op # "insert" /\ r \in Seq(Op)
  BY NormalTail, HeadAndTail DEF At
<1>2. h.chars = <<>>
  BY <1>1, PlainOps DEF Plain, Insert, Retain, Delete
<1>3. Inserted(ops) = h.chars \o Inserted(r) /\ Inserted(r) \in Text
  BY <1>1, InsertedIs
<1>4. Inserted(ops) = Inserted(r)
  BY <1>2, <1>3, TextConcatNil
<1>5. CASE k = Size(h)
  BY <1>1, <1>4, <1>5, ConsumeIs
<1>6. CASE k # Size(h)
  <2> DEFINE o == Rest(h, k)
  <2>1. Consume(ops, k) = <<o>> \o r
    BY <1>1, <1>6, ConsumeIs
  <2>2. o \in Op /\ o \in Plain /\ o.op # "insert"
    BY <1>1, <1>6, RestIs
  <2> HIDE DEF o, r
  <2>3. o.chars = <<>>
    BY <2>2, PlainOps DEF Plain, Insert, Retain, Delete
  <2>4. Inserted(<<o>> \o r) = o.chars \o Inserted(r)
    BY <1>1, <2>2, InsertedCons
  <2>. QED
    BY <1>3, <1>4, <2>1, <2>3, <2>4, TextConcatNil
<1>. QED
  BY <1>5, <1>6

-------------------------------------------------------------------------------
(* What a Follow ends with: a changeset in the form the server accepts, for    *)
(* what A has made of the source, that inserts what B inserts.             *)

\* The loop of Follow ends with operations in normal form that fit, and has inserted the text
\* that was left in B.
EndsWell(t, a, b, p, out) ==
    /\ Normal(FollowLoop[Pair(a, b, out)])
    /\ Fits(p \o Run(t, a), FollowLoop[Pair(a, b, out)])
    /\ Inserted(FollowLoop[Pair(a, b, out)]) = Inserted(out) \o Inserted(b)

\* This is so from every state with these operands.
Ends(a, b) ==
    \A t, p, out : Rebases(p, t, Pair(a, b, out)) => EndsWell(t, a, b, p, out)

\* A step that skips an insert of A: the output retains it.
LEMMA EndsA ==
    ASSUME NEW t, NEW a, NEW b, NEW p, NEW out, Rebases(p, t, Pair(a, b, out)), At(a, "insert"),
           At(b, "insert") => LexLeq(Head(a).chars, Head(b).chars), Ends(Tail(a), b)
    PROVE  EndsWell(t, a, b, p, out)
<1> DEFINE c == Head(a).chars
           r == Tail(a)
           e == Retain(Len(c))
<1>1. PICK o : /\ FollowLoop[Pair(a, b, out)] = FollowLoop[Pair(r, b, o)]
               /\ o = AddOp(out, e)
               /\ Rebases(p \o c, t, Pair(r, b, o))
  BY FollowA
<1>2. /\ Normal(a) /\ Fits(t, a) /\ p \in Text /\ out \in Seq(Op)
  BY PairIs
<1>3. /\ c \in Text /\ Run(t, a) = c \o Run(t, r) /\ Run(t, r) \in Text /\ Len(c) \in Nat
  BY <1>2, FitsInsert, RunText
<1>4. e \in Op /\ e.chars = <<>>
  BY <1>3, OpsOf DEF Retain
<1> HIDE DEF c, e
<1>5. EndsWell(t, r, b, p \o c, o)
  BY <1>1 DEF Ends
<1> DEFINE v == Run(t, r)
<1>6. (p \o c) \o v = p \o Run(t, a)
  <2>1. v \in Text /\ Run(t, a) = c \o v
    BY <1>3
  <2> HIDE DEF v
  <2>2. (p \o c) \o v = p \o (c \o v)
    BY ONLY <1>2, <1>3, <2>1, TextAssociative
  <2>. QED
    BY <2>1, <2>2
<1>7. Inserted(o) = Inserted(out)
  BY <1>1, <1>2, <1>4, AddOpInserted, InsertedIs, TextConcatNil
<1> HIDE DEF r
<1>. QED
  BY <1>1, <1>5, <1>6, <1>7 DEF EndsWell

\* A step that outputs an insert of B.
LEMMA EndsB ==
    ASSUME NEW t, NEW a, NEW b, NEW p, NEW out, Rebases(p, t, Pair(a, b, out)), At(b, "insert"),
           At(a, "insert") => ~LexLeq(Head(a).chars, Head(b).chars), Ends(a, Tail(b))
    PROVE  EndsWell(t, a, b, p, out)
<1> DEFINE c == Head(b).chars
           r == Tail(b)
           e == Insert(c)
<1>1. PICK o : /\ FollowLoop[Pair(a, b, out)] = FollowLoop[Pair(a, r, o)]
               /\ o = AddOp(out, e)
               /\ Rebases(p, t, Pair(a, r, o))
  BY FollowB
<1>2. /\ Normal(b) /\ Fits(t, b) /\ p \in Text /\ out \in Seq(Op) /\ b \in Seq(Op) /\ b # <<>>
  BY PairIs DEF At
<1>3. c \in Text
  BY <1>2, FitsInsert
<1>4. e \in Op /\ e.chars = c
  BY <1>3, OpsOf DEF Insert
<1>5. r \in Seq(Op) /\ Inserted(b) = c \o Inserted(r)
  BY <1>2, InsertedIs, HeadAndTail
<1> HIDE DEF c, e, r
<1>6. EndsWell(t, a, r, p, o)
  BY <1>1 DEF Ends, r
<1> DEFINE x == Inserted(out)
           z == Inserted(r)
<1>7. Inserted(o) = x \o c
  BY <1>1, <1>2, <1>4, AddOpInserted
<1>8. x \in Text /\ z \in Text
  BY <1>2, <1>5, InsertedIs
<1> HIDE DEF x, z
<1>9. (x \o c) \o z = x \o (c \o z)
  BY ONLY <1>3, <1>8, TextAssociative
<1>. QED
  BY <1>1, <1>5, <1>6, <1>7, <1>9 DEF EndsWell, x, z

\* A step in which neither side inserts adds no text.
LEMMA FollowSourceInserted ==
    ASSUME NEW a \in Op, NEW b \in Op, a.op # "insert", b.op # "insert", NEW k \in Nat,
           NEW out \in Seq(Op)
    PROVE  Inserted(FollowSource(a, b, k, out)) = Inserted(out)
<1>1. a.op \in {"retain", "delete"} /\ b.op \in {"retain", "delete"}
  BY DEF Op
<1>2. ASSUME NEW e \in {Retain(k), Delete(k)} PROVE Inserted(AddOp(out, e)) = Inserted(out)
  <2>1. e \in Op
    BY OpsOf
  <2>2. e.chars = <<>>
    BY DEF Retain, Delete
  <2>. QED
    BY <2>1, <2>2, AddOpInserted, InsertedIs, TextConcatNil
<1>. QED
  BY <1>1, <1>2 DEF FollowSource

\* A step in which neither side inserts.
LEMMA EndsBoth ==
    ASSUME NEW t, NEW a, NEW b, NEW p, NEW out, Rebases(p, t, Pair(a, b, out)),
           ~At(a, "insert"), ~At(b, "insert"), a # <<>>, b # <<>>,
           \A k \in Nat : k = Shorter(Head(a), Head(b)) => Ends(Consume(a, k), Consume(b, k))
    PROVE  EndsWell(t, a, b, p, out)
<1> DEFINE ha == Head(a)
           hb == Head(b)
<1>1. Normal(a) /\ Fits(t, a) /\ Normal(b) /\ Fits(t, b) /\ p \in Text /\ out \in Seq(Op)
  BY PairIs
<1>2. PICK x, y \in Text : t = x \o y /\ Len(x) = Shorter(ha, hb)
  <2> HIDE DEF ha, hb
  <2>1. Splits(t, a, b)
    BY <1>1, SourceNext
  <2>. QED
    BY <2>1, Zenon DEF Splits, ha, hb
<1> DEFINE k == Len(x)
           ca == Consume(a, k)
           cb == Consume(b, k)
           ra == ResultOf(x, ha)
<1>3. PICK o : /\ FollowLoop[Pair(a, b, out)] = FollowLoop[Pair(ca, cb, o)]
               /\ o = FollowSource(ha, hb, k, out)
               /\ Rebases(p \o ra, y, Pair(ca, cb, o))
               /\ Run(t, a) = ra \o Run(y, ca)
  <2>1. RebasesBoth(p, t, a, b, out, x, y)
    <3>1. Len(x) = Shorter(Head(a), Head(b))
      BY <1>2
    <3> HIDE DEF ha, hb, k, ca, cb, ra
    <3>. QED
      BY <1>1, <1>2, <3>1, FollowBoth
  <2>. QED
    BY <2>1, Zenon DEF RebasesBoth
<1>4. ha \in Op /\ hb \in Op /\ ha.op # "insert" /\ hb.op # "insert"
  BY <1>1, NormalTail DEF At
<1>5. k \in Nat /\ k = Shorter(ha, hb) /\ k \in 0..Size(hb)
  BY <1>2, <1>4, TextNil, ShorterIs
<1>6. Ends(ca, cb)
  BY <1>5
<1>7. Inserted(cb) = Inserted(b)
  BY <1>1, <1>5, ConsumeInserted
<1>8. Inserted(o) = Inserted(out)
  <2> HIDE DEF ha, hb, k
  <2>. QED
    BY <1>1, <1>3, <1>4, <1>5, FollowSourceInserted
<1>9. ra \in Text /\ Run(y, ca) \in Text
  <2>1. ra \in {x, <<>>}
    BY <1>4 DEF ResultOf, Op
  <2>2. Run(y, ca) \in Text
    BY <1>3, PairIs, RunText
  <2>. QED
    BY <2>1, <2>2, TextNil
<1> HIDE DEF ca, cb, ra, ha, hb
<1>10. EndsWell(y, ca, cb, p \o ra, o)
  BY <1>3, <1>6 DEF Ends
<1>11. (p \o ra) \o Run(y, ca) = p \o Run(t, a)
  <2> DEFINE v == Run(y, ca)
  <2>1. v \in Text /\ Run(t, a) = ra \o v
    BY <1>3, <1>9
  <2> HIDE DEF v
  <2>2. (p \o ra) \o v = p \o (ra \o v)
    BY ONLY <1>1, <1>9, <2>1, TextAssociative, SMTT(40)
  <2>. QED
    BY <2>1, <2>2 DEF v
<1>. QED
  BY <1>3, <1>7, <1>8, <1>10, <1>11 DEF EndsWell

\* The end of the loop.
LEMMA EndsEnd ==
    ASSUME NEW t, NEW a, NEW b, NEW p, NEW out, Rebases(p, t, Pair(a, b, out)),
           ~At(a, "insert"), ~At(b, "insert"), a = <<>> \/ b = <<>>
    PROVE  EndsWell(t, a, b, p, out)
<1>1. a = <<>> /\ b = <<>> /\ t = <<>> /\ FollowLoop[Pair(a, b, out)] = out
  BY FollowEnd
<1>2. Normal(out) /\ Fits(p, out) /\ p \in Text /\ out \in Seq(Op)
  BY PairIs
<1>3. Run(t, a) = <<>> /\ p \o <<>> = p /\ Inserted(out) \o Inserted(b) = Inserted(out)
  BY <1>1, <1>2, RunNil, TextConcatNil, InsertedIs
<1>. QED
  BY <1>1, <1>2, <1>3 DEF EndsWell

\* The induction step: one turn of the loop shortens an operand.
LEMMA EndsStep ==
    ASSUME NEW a \in Seq(Op), NEW b \in Seq(Op),
           \A c, d \in Seq(Op) : Len(c) + Len(d) < Len(a) + Len(b) => Ends(c, d)
    PROVE  Ends(a, b)
<1>1. SUFFICES ASSUME NEW t, NEW p, NEW out, Rebases(p, t, Pair(a, b, out))
               PROVE  EndsWell(t, a, b, p, out)
  BY DEF Ends
<1>3. Len(a) \in Nat /\ Len(b) \in Nat
  OBVIOUS
<1>4. ASSUME NEW c \in Seq(Op), c # <<>>
      PROVE  Tail(c) \in Seq(Op) /\ Len(Tail(c)) \in Nat /\ Len(c) = Len(Tail(c)) + 1
  BY <1>4, HeadAndTail
<1>5. CASE At(a, "insert") /\ (At(b, "insert") => LexLeq(Head(a).chars, Head(b).chars))
  <2>1. Ends(Tail(a), b)
    <3>1. Tail(a) \in Seq(Op) /\ Len(Tail(a)) + Len(b) < Len(a) + Len(b)
      BY <1>3, <1>4, <1>5 DEF At
    <3>. QED
      BY <3>1
  <2>. QED
    BY <1>1, <1>5, <2>1, EndsA
<1>6. CASE At(b, "insert") /\ (At(a, "insert") => ~LexLeq(Head(a).chars, Head(b).chars))
  <2>1. Ends(a, Tail(b))
    <3>1. Tail(b) \in Seq(Op) /\ Len(a) + Len(Tail(b)) < Len(a) + Len(b)
      BY <1>3, <1>4, <1>6 DEF At
    <3>. QED
      BY <3>1
  <2>. QED
    BY <1>1, <1>6, <2>1, EndsB
<1>7. CASE ~At(a, "insert") /\ ~At(b, "insert") /\ a # <<>> /\ b # <<>>
  <2>1. ASSUME NEW k \in Nat, k = Shorter(Head(a), Head(b))
        PROVE  Ends(Consume(a, k), Consume(b, k))
    <3>1. Consume(a, k) \in Seq(Op) /\ Consume(b, k) \in Seq(Op)
          /\ Len(Consume(a, k)) + Len(Consume(b, k)) < Len(a) + Len(b)
      BY <1>7, <2>1, ConsumeShortens
    <3> DEFINE c == Consume(a, k)
               d == Consume(b, k)
    <3>2. c \in Seq(Op) /\ d \in Seq(Op) /\ Len(c) + Len(d) < Len(a) + Len(b)
      BY <3>1
    <3> HIDE DEF c, d
    <3>3. Ends(c, d)
      BY <3>2
    <3>. QED
      BY <3>3 DEF c, d
  <2>. QED
    BY <1>1, <1>7, <2>1, EndsBoth
<1>8. CASE ~At(a, "insert") /\ ~At(b, "insert") /\ (a = <<>> \/ b = <<>>)
  BY <1>1, <1>8, EndsEnd
<1>. QED
  BY <1>5, <1>6, <1>7, <1>8

\* From every state the loop of Follow ends well.
LEMMA EveryFollowEnds == \A a, b \in Seq(Op) : Ends(a, b)
<1> DEFINE T == {s \in Seq(Op) \X Seq(Op) : Ends(s[1], s[2])}
<1>1. ASSUME NEW a \in Seq(Op), NEW b \in Seq(Op) PROVE <<a, b>> \in T <=> Ends(a, b)
  OBVIOUS
<1> HIDE DEF T
<1>2. ASSUME NEW a \in Seq(Op), NEW b \in Seq(Op),
             \A c, d \in Seq(Op) : Len(c) + Len(d) < Len(a) + Len(b) => <<c, d>> \in T
      PROVE  <<a, b>> \in T
  <2>1. \A c, d \in Seq(Op) : Len(c) + Len(d) < Len(a) + Len(b) => Ends(c, d)
    BY <1>1, <1>2
  <2>2. Ends(a, b)
    BY <2>1, EndsStep
  <2>. QED
    BY <1>1, <2>2
<1>3. \A a, b \in Seq(Op) : <<a, b>> \in T
  BY <1>2, PairInduction
<1>. QED
  BY <1>1, <1>3

\* Such a changeset passes Validate and applies.
LEMMA SuitsIsValid ==
    ASSUME NEW text, NEW c, Suits(text, c)
    PROVE  Validate(c) /\ Applicable(text, c)
<1>1. /\ Normal(c.ops) /\ Fits(text, c.ops) /\ c.old_len = Len(text) /\ c.new_len = Produced(c.ops)
  BY DEF Suits
<1>2. \A i \in DOMAIN c.ops : Size(c.ops[i]) > 0
  <2>1. c.ops \in Seq(Plain)
    BY <1>1 DEF Normal
  <2>2. \A i \in DOMAIN c.ops : c.ops[i] \in Plain
    BY <2>1, LenProperties, ElementOfSeq
  <2>. QED
    BY <2>2, PlainOps
<1>. QED
  BY <1>1, <1>2 DEF Validate, Applicable, Fits

\* The result is a text of the length the changeset names.
LEMMA SuitsText ==
    ASSUME NEW text, NEW c, Suits(text, c)
    PROVE  ApplyChangeset(text, c) \in Text /\ Len(ApplyChangeset(text, c)) = c.new_len
  BY RunText, ApplyIsRun DEF Suits

\* Rebasing keeps a changeset acceptable: B rebased on A passes Validate and
\* applies to the text that A has made, and inserts what B inserts
\* (follow.go:147-148: "insertions are preserved unchanged").
THEOREM FollowSuits ==
    ASSUME NEW text, NEW A, NEW B, Suits(text, A), Suits(text, B)
    PROVE  /\ Suits(ApplyChangeset(text, A), Follow(A, B))
           /\ Inserted(Follow(A, B).ops) = Inserted(B.ops)
<1> DEFINE a == A.ops
           b == B.ops
           L == FollowLoop[Pair(a, b, <<>>)]
<1>1. Normal(a) /\ Fits(text, a) /\ Normal(b) /\ Fits(text, b)
      /\ A \in Changeset /\ A.new_len = Produced(a)
  BY DEF Suits
<1>2. a \in Seq(Op) /\ b \in Seq(Op) /\ A.new_len \in Nat
  BY <1>1 DEF Fits, Changeset
<1>3. Follow(A, B) = [old_len |-> A.new_len, new_len |-> Produced(L), ops |-> L]
  BY DEF Follow, Pair
<1>4. Normal(<<>>) /\ Fits(<<>>, <<>>)
  BY TextNil, ConsumedIs DEF Normal, Fits
<1>5. Run(text, a) \in Text /\ Len(Run(text, a)) = A.new_len
  BY <1>1, RunText
<1> HIDE DEF a, b
<1>6. EndsWell(text, a, b, <<>>, <<>>)
  <2>1. Rebases(<<>>, text, Pair(a, b, <<>>))
    BY <1>1, <1>4 DEF Rebases, Pair
  <2>. QED
    BY <1>2, <2>1, EveryFollowEnds DEF Ends
<1> HIDE DEF L
<1>7. Normal(L) /\ Fits(Run(text, a), L) /\ Inserted(L) = Inserted(b)
  <2>1. <<>> \o Run(text, a) = Run(text, a) /\ Inserted(<<>>) \o Inserted(b) = Inserted(b)
    BY <1>2, <1>5, TextConcatNil, InsertedIs
  <2>. QED
    BY <1>6, <2>1 DEF EndsWell, L
<1>8. Produced(L) \in Nat /\ L \in Seq(Op)
  BY <1>7, ProducedIs DEF Fits
<1>9. ApplyChangeset(text, A) = Run(text, a)
  BY ApplyIsRun DEF a
<1>10. Suits(Run(text, a), Follow(A, B))
  BY <1>2, <1>3, <1>5, <1>7, <1>8 DEF Suits, Changeset
<1>. QED
  BY <1>3, <1>7, <1>9, <1>10 DEF b

\* Convergence of two concurrent changes: made one after the other, the later
\* rebased on the earlier, they give the same text in either order (the
\* transformation property TP1 of follow.go's comment).
THEOREM Convergence ==
    ASSUME NEW text, NEW A, NEW B, Suits(text, A), Suits(text, B)
    PROVE  ApplyChangeset(ApplyChangeset(text, A), Follow(A, B))
              = ApplyChangeset(ApplyChangeset(text, B), Follow(B, A))
<1> DEFINE a == A.ops
           b == B.ops
<1>1. Normal(a) /\ Fits(text, a) /\ Normal(b) /\ Fits(text, b)
  BY DEF Suits
<1>2. a \in Seq(Op) /\ b \in Seq(Op)
  BY <1>1 DEF Fits
<1>3. /\ Follow(A, B).ops = FollowLoop[Pair(a, b, <<>>)]
      /\ Follow(B, A).ops = FollowLoop[Pair(b, a, <<>>)]
  BY DEF Follow, Pair
<1>4. Normal(<<>>) /\ Fits(<<>>, <<>>)
  BY TextNil, ConsumedIs DEF Normal, Fits
<1>5. Run(text, a) \in Text /\ Run(text, b) \in Text
  BY <1>1, RunText
<1>6. /\ ApplyChangeset(ApplyChangeset(text, A), Follow(A, B))
            = Run(Run(text, a), FollowLoop[Pair(a, b, <<>>)])
      /\ ApplyChangeset(ApplyChangeset(text, B), Follow(B, A))
            = Run(Run(text, b), FollowLoop[Pair(b, a, <<>>)])
  BY <1>3, ApplyIsRun
<1> HIDE DEF a, b
<1>7. SameSoFar(text, a, b, <<>>, <<>>, <<>>, <<>>)
  BY <1>1, <1>4 DEF SameSoFar, Rebases, Pair
<1>8. SameInTheEnd(text, a, b, <<>>, <<>>, <<>>, <<>>)
  BY <1>2, <1>7, SideBySide DEF Together
<1>9. <<>> \o Run(text, a) = Run(text, a) /\ <<>> \o Run(text, b) = Run(text, b)
  BY <1>5, TextConcatNil
<1>. QED
  BY <1>6, <1>8, <1>9 DEF SameInTheEnd

-------------------------------------------------------------------------------
(* Sets of operations that Follow does not leave: a rebased changeset has  *)
(* only operations like those of the original, and retains.                *)

\* Sets of operations the loop of Follow does not leave: they hold the retains of A it outputs,
\* and merges and rests of their members.
Closed(S) ==
    /\ S \subseteq Op
    /\ \A k \in Nat : Retain(k) \in S
    /\ \A l, o \in S : l.op = o.op => Merge(l, o) \in S
    /\ \A o \in S : o.op = "delete" => \A k \in Nat : Delete(k) \in S
    /\ \A o \in S : o.op = "insert" => Insert(o.chars) \in S
    /\ \A o \in S : o.op # "insert" =>
          \A k \in 0..Size(o) : k # Size(o) => Rest(o, k) \in S

\* addOp stays within such a set.
LEMMA AddOpWithin ==
    ASSUME NEW S, Closed(S), NEW ops \in Seq(S), NEW o \in S
    PROVE  AddOp(ops, o) \in Seq(S)
<1>1. Adds(S, ops, o)
  BY AddOpIs DEF Closed
<1>2. CASE AddOp(ops, o) = ops \o <<o>>
  <2>1. <<o>> \in Seq(S)
    BY EmptySeq, ConsSeq
  <2>. QED
    BY <1>2, <2>1, ConcatProperties
<1>3. CASE \E f \in Seq(S), l \in S : l.op = o.op /\ AddOp(ops, o) = f \o <<Merge(l, o)>>
  <2>1. PICK f \in Seq(S), l \in S : l.op = o.op /\ AddOp(ops, o) = f \o <<Merge(l, o)>>
    BY <1>3
  <2> DEFINE m == Merge(l, o)
             w == <<m>>
  <2>2. m \in S
    BY <2>1 DEF Closed
  <2>3. w \in Seq(S) /\ AddOp(ops, o) = f \o w
    BY <2>1, <2>2
  <2> HIDE DEF w
  <2>. QED
    BY <2>3, ConcatProperties
<1>. QED
  BY <1>1, <1>2, <1>3 DEF Adds

\* consume stays within such a set.
LEMMA ConsumeWithin ==
    ASSUME NEW S, Closed(S), NEW ops \in Seq(S), ops # <<>>, Head(ops).op # "insert",
           NEW k \in 0..Size(Head(ops))
    PROVE  Consume(ops, k) \in Seq(S)
<1> DEFINE h == Head(ops)
           r == Tail(ops)
<1>1. ops \in Seq(Op) /\ h \in S /\ r \in Seq(S)
  <2>1. S \subseteq Op
    BY DEF Closed
  <2>. QED
    BY <2>1, SeqMonotonic, HeadAndTail
<1>2. CASE k = Size(h)
  BY <1>1, <1>2, ConsumeIs
<1>3. CASE k # Size(h)
  <2> DEFINE o == Rest(h, k)
  <2>1. Consume(ops, k) = <<o>> \o r
    BY <1>1, <1>3, ConsumeIs
  <2>2. o \in S
    BY <1>1, <1>3 DEF Closed
  <2> HIDE DEF o, r
  <2>. QED
    BY <1>1, <2>1, <2>2, ConsSeq
<1>. QED
  BY <1>2, <1>3

\* A step of Follow outputs only operations of such a set if B has only those.
LEMMA FollowStepWithin ==
    ASSUME NEW S, Closed(S), NEW s \in Cursors, ~FollowDone(s), s.b \in Seq(S), s.out \in Seq(S)
    PROVE  FollowStep(s).b \in Seq(S) /\ FollowStep(s).out \in Seq(S)
<1>1. s.a \in Seq(Op) /\ s.b \in Seq(Op) /\ s.out \in Seq(Op)
  BY FollowStepIs
<1>2. CASE At(s.a, "insert") /\ (At(s.b, "insert") => InsertsFirst(Head(s.a), Head(s.b)))
  <2> DEFINE e == Retain(Len(Head(s.a).chars))
             u == AddOp(s.out, e)
  <2>1. FollowStep(s) = [a |-> Tail(s.a), b |-> s.b, out |-> u]
    BY <1>2, FollowStepIs
  <2>2. Head(s.a) \in Op
    BY <1>1, <1>2, HeadAndTail DEF At
  <2>3. e \in S
    BY <2>2, OpTypes DEF Closed
  <2> HIDE DEF e
  <2>4. u \in Seq(S)
    BY <2>3, AddOpWithin
  <2> HIDE DEF u
  <2>. QED
    BY <2>1, <2>4
<1>3. CASE At(s.b, "insert") /\ ~(At(s.a, "insert") /\ InsertsFirst(Head(s.a), Head(s.b)))
  <2> DEFINE e == Insert(Head(s.b).chars)
             u == AddOp(s.out, e)
  <2>1. FollowStep(s) = [a |-> s.a, b |-> Tail(s.b), out |-> u]
    BY <1>3, FollowStepIs
  <2>2. Head(s.b) \in S /\ Tail(s.b) \in Seq(S) /\ Head(s.b).op = "insert"
    BY <1>3, HeadAndTail DEF At
  <2>3. e \in S
    BY <2>2 DEF Closed
  <2> HIDE DEF e
  <2>4. u \in Seq(S)
    BY <2>3, AddOpWithin
  <2> HIDE DEF u
  <2>. QED
    BY <2>1, <2>2, <2>4
<1>4. CASE ~At(s.a, "insert") /\ ~At(s.b, "insert")
  <2> DEFINE ha == Head(s.a)
             hb == Head(s.b)
  <2>1. PICK k : /\ k = Shorter(ha, hb)
                 /\ FollowStep(s) = [a |-> Consume(s.a, k), b |-> Consume(s.b, k),
                                     out |-> FollowSource(ha, hb, k, s.out)]
    BY <1>4, FollowStepIs
  <2>2. s.a # <<>> /\ s.b # <<>>
    BY <1>4 DEF FollowDone
  <2>3. ha \in Op /\ hb \in S /\ hb \in Op
    BY <1>1, <2>2, HeadAndTail
  <2>4. k \in 0..Size(hb) /\ k \in Nat
    BY <2>1, <2>3, ShorterIs, OpTypes
  <2>6. ha.op \in {"retain", "delete"} /\ hb.op \in {"retain", "delete"}
    BY <1>4, <2>2, <2>3 DEF At, Op
  <2>5. Consume(s.b, k) \in Seq(S)
    BY <2>2, <2>4, <2>6, ConsumeWithin
  <2>7. Retain(k) \in S /\ (hb.op = "delete" => Delete(k) \in S)
    BY <2>3, <2>4 DEF Closed
  <2> HIDE DEF ha, hb
  <2>8. FollowSource(ha, hb, k, s.out) \in Seq(S)
    BY <2>6, <2>7, AddOpWithin DEF FollowSource
  <2> DEFINE u == Consume(s.b, k)
             v == FollowSource(ha, hb, k, s.out)
  <2>. QED
    BY <2>1, <2>5, <2>8
<1>. QED
  BY <1>2, <1>3, <1>4

\* And so Follow(A, B) has only operations of a closed set B has its operations from.
LEMMA FollowWithin ==
    ASSUME NEW S, Closed(S), NEW a \in Seq(Op), NEW b \in Seq(S)
    PROVE  FollowLoop[Pair(a, b, <<>>)] \in Seq(S)
<1> DEFINE mu == [s \in Cursors |-> Len(s.a) + Len(s.b)]
           T == {s \in Cursors : s.b \in Seq(S) /\ s.out \in Seq(S) => FollowLoop[s] \in Seq(S)}
<1>1. mu \in [Cursors -> Nat]
  <2>1. ASSUME NEW s \in Cursors PROVE Len(s.a) + Len(s.b) \in Nat
    <3> DEFINE la == Len(s.a)
               lb == Len(s.b)
    <3>1. la \in Nat /\ lb \in Nat
      BY FollowStepIs, LenProperties
    <3> HIDE DEF la, lb
    <3>2. la + lb \in Nat
      BY <3>1
    <3>. QED
      BY <3>2 DEF la, lb
  <2>. QED
    BY <2>1
<1>2. ASSUME NEW s \in Cursors, \A x \in Cursors : mu[x] < mu[s] => x \in T
      PROVE  s \in T
  <2>1. SUFFICES ASSUME s.b \in Seq(S), s.out \in Seq(S) PROVE FollowLoop[s] \in Seq(S)
    OBVIOUS
  <2>2. CASE FollowDone(s)
    BY <2>1, <2>2, FollowLoopIs
  <2>3. CASE ~FollowDone(s)
    <3> DEFINE x == FollowStep(s)
    <3>1. x \in Cursors /\ Len(x.a) + Len(x.b) < Len(s.a) + Len(s.b)
      BY <2>3, FollowProgress
    <3>2. x.b \in Seq(S) /\ x.out \in Seq(S)
      BY <2>1, <2>3, FollowStepWithin
    <3>3. FollowLoop[s] = FollowLoop[x]
      BY <2>3, FollowLoopIs
    <3> HIDE DEF x
    <3>4. x \in T
      <4>1. mu[x] < mu[s]
        BY <3>1
      <4> HIDE DEF mu, T
      <4>. QED
        BY <1>2, <3>1, <4>1
    <3>. QED
      BY <3>2, <3>3, <3>4
  <2>. QED
    BY <2>2, <2>3
<1>3. \A s \in Cursors : s \in T
  <2> HIDE DEF mu, T
  <2>. QED
    BY <1>1, <1>2, MeasureInduction
<1>4. S \subseteq Op
  BY DEF Closed
<1>5. b \in Seq(Op) /\ <<>> \in Seq(Op) /\ <<>> \in Seq(S)
  BY <1>4, SeqMonotonic, EmptySeq
<1> DEFINE s == Pair(a, b, <<>>)
<1>6. s \in Cursors /\ s.b = b /\ s.out = <<>>
  BY <1>5 DEF Pair, Cursors
<1> HIDE DEF s
<1>7. s \in T
  BY <1>3, <1>6
<1>. QED
  BY <1>5, <1>6, <1>7 DEF s

\* Follow keeps the form of its arguments, whether or not they fit one text: a
\* step on lists in the form ...
NormalCursors(s) == s \in Cursors /\ Normal(s.a) /\ Normal(s.b) /\ Normal(s.out)

\* Every step of Follow keeps the normal form, whatever the operands are for.
LEMMA FollowStepNormal ==
    ASSUME NEW s, NormalCursors(s), ~FollowDone(s)
    PROVE  NormalCursors(FollowStep(s))
<1>0. s \in Cursors /\ Normal(s.a) /\ Normal(s.b) /\ Normal(s.out)
  BY DEF NormalCursors
<1>1. FollowStep(s) \in Cursors
  BY <1>0, FollowProgress
<1>2. CASE At(s.a, "insert") /\ (At(s.b, "insert") => InsertsFirst(Head(s.a), Head(s.b)))
  <2> DEFINE n == Len(Head(s.a).chars)
             e == Retain(n)
             u == AddOp(s.out, e)
  <2>1. FollowStep(s) = [a |-> Tail(s.a), b |-> s.b, out |-> u]
    BY <1>0, <1>2, FollowStepIs
  <2>2. s.a # <<>> /\ Head(s.a) \in Plain /\ Head(s.a).op = "insert" /\ Normal(Tail(s.a))
    BY <1>0, <1>2, NormalTail DEF At
  <2>3. n \in Nat \ {0}
    BY <2>2, PlainOps DEF Size
  <2> HIDE DEF n
  <2>4. e \in Plain
    BY <2>3, PlainOps
  <2> HIDE DEF e
  <2>5. Normal(u)
    BY <1>0, <2>4, AddOpNormal
  <2>. QED
    BY <1>0, <1>1, <2>1, <2>2, <2>5 DEF NormalCursors
<1>3. CASE At(s.b, "insert") /\ ~(At(s.a, "insert") /\ InsertsFirst(Head(s.a), Head(s.b)))
  <2> DEFINE e == Insert(Head(s.b).chars)
             u == AddOp(s.out, e)
  <2>1. FollowStep(s) = [a |-> s.a, b |-> Tail(s.b), out |-> u]
    BY <1>0, <1>3, FollowStepIs
  <2>2. s.b # <<>> /\ Head(s.b) \in Plain /\ Head(s.b).op = "insert" /\ Normal(Tail(s.b))
    BY <1>0, <1>3, NormalTail DEF At
  <2>3. e \in Plain
    BY <2>2, PlainOps
  <2> HIDE DEF e
  <2>5. Normal(u)
    BY <1>0, <2>3, AddOpNormal
  <2>. QED
    BY <1>0, <1>1, <2>1, <2>2, <2>5 DEF NormalCursors
<1>4. CASE ~At(s.a, "insert") /\ ~At(s.b, "insert")
  <2> DEFINE ha == Head(s.a)
             hb == Head(s.b)
  <2>1. PICK k : /\ k = Shorter(ha, hb)
                 /\ FollowStep(s) = [a |-> Consume(s.a, k), b |-> Consume(s.b, k),
                                     out |-> FollowSource(ha, hb, k, s.out)]
    BY <1>0, <1>4, FollowStepIs
  <2>2. s.a # <<>> /\ s.b # <<>>
    BY <1>4 DEF FollowDone
  <2>3. ha \in Plain /\ hb \in Plain /\ ha \in Op /\ hb \in Op
    BY <1>0, <2>2, NormalTail
  <2>4. k \in 0..Size(ha) /\ k \in 0..Size(hb) /\ k \in Nat \ {0}
    BY <2>1, <2>3, ShorterIs, PlainOps, SMTT(40)
  <2>5. Normal(Consume(s.a, k)) /\ Normal(Consume(s.b, k))
    BY <1>0, <2>2, <2>4, NormalConsume
  <2>6. ha.op \in {"retain", "delete"} /\ hb.op \in {"retain", "delete"}
    BY <1>4, <2>2, <2>3 DEF At, Op
  <2>7. Retain(k) \in Plain /\ Delete(k) \in Plain
    BY <2>4, PlainOps
  <2> HIDE DEF ha, hb
  <2>8. Normal(FollowSource(ha, hb, k, s.out))
    BY <1>0, <2>6, <2>7, AddOpNormal DEF FollowSource
  <2>. QED
    BY <1>1, <2>1, <2>5, <2>8 DEF NormalCursors
<1>. QED
  BY <1>2, <1>3, <1>4

\* ... and all the steps.
LEMMA FollowNormal ==
    ASSUME NEW A \in Changeset, NEW B \in Changeset, Normal(A.ops), Normal(B.ops)
    PROVE  /\ Follow(A, B) \in Changeset
           /\ Normal(Follow(A, B).ops)
           /\ Follow(A, B).new_len = Produced(Follow(A, B).ops)
<1> DEFINE mu == [s \in Cursors |-> Len(s.a) + Len(s.b)]
           T == {s \in Cursors : NormalCursors(s) => Normal(FollowLoop[s])}
<1>1. mu \in [Cursors -> Nat]
  <2>1. ASSUME NEW s \in Cursors PROVE Len(s.a) + Len(s.b) \in Nat
    <3> DEFINE la == Len(s.a)
               lb == Len(s.b)
    <3>1. la \in Nat /\ lb \in Nat
      BY FollowStepIs, LenProperties
    <3> HIDE DEF la, lb
    <3>2. la + lb \in Nat
      BY <3>1
    <3>. QED
      BY <3>2 DEF la, lb
  <2>. QED
    BY <2>1
<1>2. ASSUME NEW s \in Cursors, \A x \in Cursors : mu[x] < mu[s] => x \in T
      PROVE  s \in T
  <2>1. SUFFICES ASSUME NormalCursors(s) PROVE Normal(FollowLoop[s])
    OBVIOUS
  <2>2. CASE FollowDone(s)
    BY <2>1, <2>2, FollowLoopIs DEF NormalCursors
  <2>3. CASE ~FollowDone(s)
    <3> DEFINE x == FollowStep(s)
    <3>1. x \in Cursors /\ Len(x.a) + Len(x.b) < Len(s.a) + Len(s.b)
      BY <2>3, FollowProgress
    <3>2. NormalCursors(x)
      BY <2>1, <2>3, FollowStepNormal
    <3>3. FollowLoop[s] = FollowLoop[x]
      BY <2>3, FollowLoopIs
    <3> HIDE DEF x
    <3>4. x \in T
      <4>1. mu[x] < mu[s]
        BY <3>1
      <4> HIDE DEF mu, T
      <4>. QED
        BY <1>2, <3>1, <4>1
    <3>. QED
      BY <3>2, <3>3, <3>4
  <2>. QED
    BY <2>2, <2>3
<1>3. \A s \in Cursors : s \in T
  <2> HIDE DEF mu, T
  <2>. QED
    BY <1>1, <1>2, MeasureInduction
<1> DEFINE s == Pair(A.ops, B.ops, <<>>)
           ops == FollowLoop[s]
<1>4. s \in Cursors /\ NormalCursors(s)
  <2>1. A.ops \in Seq(Op) /\ B.ops \in Seq(Op) /\ <<>> \in Seq(Op) /\ Normal(<<>>)
    BY EmptySeq DEF Changeset, Normal
  <2>. QED
    BY <2>1 DEF Pair, Cursors, NormalCursors
<1>5. Follow(A, B) = [old_len |-> A.new_len, new_len |-> Produced(ops), ops |-> ops]
  BY DEF Follow, Pair
<1> HIDE DEF s
<1>6. Normal(ops) /\ ops \in Seq(Op)
  BY <1>3, <1>4, FollowLoopIs
<1> HIDE DEF ops
<1>7. Produced(ops) \in Nat /\ A.new_len \in Nat
  BY <1>6, ProducedIs DEF Changeset
<1>. QED
  BY <1>5, <1>6, <1>7 DEF Changeset

\* The retains among the operations.
Retains == {o \in Op : o.op = "retain" /\ o.chars = <<>>}

\* Retains rebase to retains.
LEMMA RetainsClosed == Closed(Retains)
<1>1. \A k \in Nat : Retain(k) \in Retains
  BY OpsOf DEF Retains, Retain
<1>2. ASSUME NEW l \in Retains, NEW o \in Retains PROVE Merge(l, o) \in Retains
  <2>1. l \in Op /\ o \in Op /\ l.op = "retain" /\ o.op = "retain" /\ l.chars = <<>> /\ o.chars = <<>>
    BY DEF Retains
  <2>2. Merge(l, o) \in Op /\ Merge(l, o).op = o.op
    BY <2>1, MergeIs
  <2>3. Merge(l, o).chars = <<>> \o <<>>
    BY <2>1 DEF Merge
  <2>. QED
    BY <2>1, <2>2, <2>3, TextNil, TextConcatNil DEF Retains
<1>3. ASSUME NEW o \in Retains, NEW k \in 0..Size(o), k # Size(o) PROVE Rest(o, k) \in Retains
  <2>1. o \in Op /\ o.op = "retain" /\ o.chars = <<>>
    BY DEF Retains
  <2>2. Rest(o, k) \in Op /\ Rest(o, k).op = o.op
    BY <1>3, <2>1, RestIs
  <2>3. k \in Nat
    BY <2>1, OpTypes
  <2>4. Rest(o, k).chars = <<>>
    <3>1. Rest(o, k).chars = SubSeq(<<>>, k + 1, 0)
      BY <2>1, TextNil DEF Rest
    <3>2. SubSeq(<<>>, k + 1, 0) = <<>>
      <4>1. k + 1 \in Int /\ 0 \in Int /\ 0 < k + 1
        BY <2>3
      <4>. QED
        BY <4>1, SubSeqEmpty
    <3>. QED
      BY <3>1, <3>2
  <2>. QED
    BY <2>1, <2>2, <2>4 DEF Retains
<1>. QED
  BY <1>1, <1>2, <1>3 DEF Closed, Retains

\* A list of one operation.
LEMMA OneProduces ==
    ASSUME NEW x \in Text, NEW o \in Op, Len(x) = Consumes(o)
    PROVE  Fits(x, <<o>>) /\ Consumed(<<o>>) = Consumes(o) /\ Produced(<<o>>) = Produces(o)
<1> DEFINE w == <<o>>
<1>1. w \in Seq(Op) /\ w # <<>> /\ Head(w) = o /\ Tail(w) = <<>>
  OBVIOUS
<1>2. Consumes(o) \in Nat /\ Produces(o) \in Nat
  BY OpTypes
<1> HIDE DEF w
<1>3. Consumed(w) = Consumes(o) + Consumed(<<>>) /\ Produced(w) = Produces(o) + Produced(<<>>)
  BY <1>1, ConsumedIs, ProducedIs
<1>4. Consumed(w) = Consumes(o) /\ Produced(w) = Produces(o)
  BY <1>2, <1>3, ConsumedIs, ProducedIs
<1>. QED
  BY <1>1, <1>4 DEF Fits, w

\* The identity fits its text and only retains.
LEMMA IdentitySuits ==
    ASSUME NEW text \in Text
    PROVE  /\ Suits(text, Identity(Len(text)))
           /\ Identity(Len(text)).ops \in Seq(Retains)
<1> DEFINE n == Len(text)
           w == <<Retain(n)>>
<1>1. n \in Nat /\ (n = 0 => text = <<>>)
  BY TextNil
<1>2. CASE n = 0
  <2>1. Identity(n) = [old_len |-> 0, new_len |-> 0, ops |-> <<>>]
    BY <1>2 DEF Identity
  <2>2. Normal(<<>>) /\ Fits(text, <<>>) /\ <<>> \in Seq(Op) /\ <<>> \in Seq(Retains)
    BY <1>1, <1>2, TextNil, ConsumedIs DEF Normal, Fits
  <2> DEFINE c == Identity(n)
  <2>3. c.ops = <<>> /\ c.old_len = 0 /\ c.new_len = 0 /\ c \in Changeset
    BY <2>1, <2>2 DEF Changeset
  <2>4. Len(text) = 0 /\ Produced(<<>>) = 0
    BY <1>2, ProducedIs
  <2> HIDE DEF c
  <2>5. Suits(text, c) /\ c.ops \in Seq(Retains)
    BY <2>2, <2>3, <2>4 DEF Suits
  <2>. QED
    BY <2>5 DEF c
<1>3. CASE n # 0
  <2> HIDE DEF n
  <2>1. Identity(n) = [old_len |-> n, new_len |-> n, ops |-> w]
    BY <1>3 DEF Identity
  <2>2. Retain(n) \in Plain /\ Retain(n) \in Op /\ Retain(n) \in Retains
    BY <1>1, <1>3, PlainOps DEF Retains, Retain
  <2>3. w \in Seq(Plain) /\ Len(w) = 1 /\ w \in Seq(Op) /\ w \in Seq(Retains)
    BY <2>2
  <2>4. Consumes(Retain(n)) = n /\ Produces(Retain(n)) = n
    BY DEF Consumes, Produces, Retain
  <2>5. Fits(text, w) /\ Produced(w) = n
    BY <1>1, <2>2, <2>4, OneProduces DEF n
  <2>6. Normal(w)
    BY <2>3 DEF Normal
  <2> HIDE DEF w
  <2>. QED
    BY <1>1, <2>1, <2>3, <2>5, <2>6 DEF Suits, Changeset, n
<1>. QED
  BY <1>2, <1>3

\* A changeset of retains only is the identity, in the one form that
\* IsIdentity recognises.
LEMMA RetainsOnly ==
    ASSUME NEW text, NEW c, Suits(text, c), c.ops \in Seq(Retains)
    PROVE  IsIdentity(c)
<1> DEFINE ops == c.ops
           h == Head(ops)
<1>1. Normal(ops) /\ ops \in Seq(Op) /\ c.old_len = Consumed(ops) /\ c.new_len = Produced(ops)
  BY DEF Suits, Fits
<1>2. CASE ops = <<>>
  BY <1>1, <1>2, ConsumedIs, ProducedIs DEF IsIdentity
<1>3. CASE ops # <<>>
  <2>1. h \in Retains /\ Tail(ops) \in Seq(Retains) /\ ops = <<h>> \o Tail(ops)
    BY <1>3, HeadAndTail
  <2>2. Tail(ops) = <<>>
    <3>1. SUFFICES ASSUME Tail(ops) # <<>> PROVE FALSE
      OBVIOUS
    <3>2. Head(Tail(ops)).op # h.op
      BY <1>1, <1>3, <3>1, NormalTail
    <3>3. Head(Tail(ops)) \in Retains
      BY <2>1, <3>1, HeadAndTail
    <3>. QED
      BY <2>1, <3>2, <3>3 DEF Retains
  <2>3. ops = <<h>> /\ Len(ops) = 1 /\ ops[1] = h
    <3>1. <<h>> \in Seq(Retains)
      BY <2>1
    <3>2. <<h>> \o <<>> = <<h>>
      BY <3>1, ConcatEmptySeq
    <3> DEFINE w == <<h>>
    <3>3. Len(w) = 1 /\ w[1] = h
      OBVIOUS
    <3>4. ops = w
      BY <2>1, <2>2, <3>2
    <3> HIDE DEF ops, w
    <3>5. Len(ops) = 1 /\ ops[1] = h
      BY <3>3, <3>4
    <3>. QED
      BY <3>4, <3>5 DEF w
  <2>4. h \in Op /\ h.op = "retain"
    BY <2>1 DEF Retains
  <2>5. Consumed(ops) = h.n /\ Produced(ops) = h.n
    <3>1. Consumes(h) = h.n /\ Produces(h) = h.n /\ h.n \in Nat
      BY <2>4, OpTypes DEF Consumes, Produces
    <3>2. Consumed(ops) = h.n + Consumed(<<>>) /\ Produced(ops) = h.n + Produced(<<>>)
      BY <1>1, <1>3, <2>2, <3>1, ConsumedIs, ProducedIs
    <3>. QED
      BY <3>1, <3>2, ConsumedIs, ProducedIs
  <2>. QED
    BY <1>1, <2>3, <2>4, <2>5 DEF IsIdentity
<1>. QED
  BY <1>2, <1>3

\* "No change" rebased is "no change", in the form IsIdentity recognises.
THEOREM FollowIdentity ==
    ASSUME NEW text, NEW A, Suits(text, A)
    PROVE  IsIdentity(Follow(A, Identity(Len(text))))
<1> DEFINE I == Identity(Len(text))
           F == Follow(A, I)
<1>1. text \in Text /\ A.ops \in Seq(Op)
  BY DEF Suits, Fits
<1>2. Suits(text, I) /\ I.ops \in Seq(Retains)
  BY <1>1, IdentitySuits
<1> HIDE DEF I
<1>3. Suits(ApplyChangeset(text, A), F)
  BY <1>2, FollowSuits
<1>4. F.ops = FollowLoop[Pair(A.ops, I.ops, <<>>)]
  BY DEF Follow, Pair
<1>5. F.ops \in Seq(Retains)
  BY <1>1, <1>2, <1>4, RetainsClosed, FollowWithin
<1>. QED
  BY <1>3, <1>5, RetainsOnly DEF I

-------------------------------------------------------------------------------
(* Texts over an alphabet.                                                 *)

\* A text over an alphabet.
LEMMA SeqOver ==
    ASSUME NEW C, NEW x \in Text, \A i \in 1..Len(x) : x[i] \in C
    PROVE  x \in Seq(C)
<1>1. Len(x) \in Nat /\ DOMAIN x = 1..Len(x) /\ x = [i \in 1..Len(x) |-> x[i]]
  BY LenProperties DEF Text
<1>2. x \in [1..Len(x) -> C]
  BY <1>1
<1>. QED
  BY <1>1, <1>2, SeqDef

\* The rest of a sequence over an alphabet is over the alphabet.
LEMMA SuffixSeq ==
    ASSUME NEW C, NEW x \in Seq(C), NEW k \in Nat
    PROVE  SubSeq(x, k + 1, Len(x)) \in Seq(C)
<1>1. \A i \in k + 1 .. Len(x) : x[i] \in C
  BY ElementOfSeq
<1>2. k + 1 \in Int /\ Len(x) \in Int
  BY LenProperties
<1>. QED
  BY <1>1, <1>2, SubSeqProperties

\* So are both parts of one.
LEMMA PartsOver ==
    ASSUME NEW C, NEW x \in Text, NEW y \in Text, x \o y \in Seq(C)
    PROVE  x \in Seq(C) /\ y \in Seq(C)
<1> DEFINE z == x \o y
<1>1. /\ Len(x) \in Nat /\ Len(y) \in Nat /\ Len(z) = Len(x) + Len(y)
      /\ \A i \in 1..Len(x) : z[i] = x[i]
      /\ \A i \in 1..Len(y) : z[Len(x) + i] = y[i]
  BY TextNil, ConcatProperties DEF Text
<1>2. \A i \in 1..Len(z) : z[i] \in C
  BY ElementOfSeq
<1> HIDE DEF z
<1>3. \A i \in 1..Len(x) : x[i] \in C
  BY <1>1, <1>2
<1>4. \A i \in 1..Len(y) : y[i] \in C
  <2>1. SUFFICES ASSUME NEW i \in 1..Len(y) PROVE y[i] \in C
    OBVIOUS
  <2>2. Len(x) + i \in 1..Len(z)
    BY <1>1
  <2>. QED
    BY <1>1, <1>2, <2>2
<1>. QED
  BY <1>3, <1>4, SeqOver

\* Operations that insert only characters of an alphabet rebase to such operations.
LEMMA OverClosed ==
    ASSUME NEW C, C \subseteq Nat
    PROVE  Closed(OpsOver(C))
<1>1. \A k \in Nat : Retain(k) \in OpsOver(C) /\ Delete(k) \in OpsOver(C)
  BY OpsOf, EmptySeq DEF OpsOver, Retain, Delete
<1>2. ASSUME NEW l \in OpsOver(C), NEW o \in OpsOver(C), l.op = o.op PROVE Merge(l, o) \in OpsOver(C)
  <2>1. l \in Op /\ o \in Op /\ l.chars \in Seq(C) /\ o.chars \in Seq(C)
    BY DEF OpsOver
  <2> DEFINE x == l.chars
             y == o.chars
  <2>2. Merge(l, o) \in Op /\ Merge(l, o).chars = x \o y
    BY <1>2, <2>1, MergeIs DEF Merge
  <2> HIDE DEF x, y
  <2>3. x \o y \in Seq(C)
    BY <2>1, ConcatProperties DEF x, y
  <2>. QED
    BY <2>2, <2>3 DEF OpsOver
<1>3. ASSUME NEW o \in OpsOver(C), o.op = "insert" PROVE Insert(o.chars) \in OpsOver(C)
  <2>1. o.chars \in Seq(C) /\ o.chars \in Text
    BY DEF OpsOver, Op
  <2>2. Insert(o.chars) \in Op /\ Insert(o.chars).chars = o.chars
    BY <2>1, OpsOf DEF Insert
  <2>. QED
    BY <2>1, <2>2 DEF OpsOver
<1>4. ASSUME NEW o \in OpsOver(C), NEW k \in 0..Size(o), k # Size(o) PROVE Rest(o, k) \in OpsOver(C)
  <2>1. o \in Op /\ o.chars \in Seq(C)
    BY DEF OpsOver
  <2>2. Rest(o, k) \in Op /\ k \in Nat
    BY <1>4, <2>1, RestIs, OpTypes
  <2> DEFINE x == o.chars
  <2>3. x \in Seq(C) /\ Rest(o, k).chars = SubSeq(x, k + 1, Len(x))
    BY <2>1 DEF Rest
  <2> HIDE DEF x
  <2>4. SubSeq(x, k + 1, Len(x)) \in Seq(C)
    BY <2>2, <2>3, SuffixSeq
  <2>. QED
    BY <2>2, <2>3, <2>4 DEF OpsOver
<1>. QED
  BY <1>1, <1>2, <1>3, <1>4 DEF Closed, OpsOver

\* What is over an alphabet stays over it.
LEMMA RunOver ==
    ASSUME NEW C, C \subseteq Nat, NEW p \in Seq(C), NEW ops \in Seq(OpsOver(C)), Fits(p, ops)
    PROVE  Run(p, ops) \in Seq(C)
<1> DEFINE T == {q \in Seq(OpsOver(C)) : \A t \in Seq(C) : Fits(t, q) => Run(t, q) \in Seq(C)}
<1>1. <<>> \in T
  BY RunNil, EmptySeq
<1>2. ASSUME NEW q \in Seq(OpsOver(C)), q # <<>>, Tail(q) \in T PROVE q \in T
  <2>1. SUFFICES ASSUME NEW t \in Seq(C), Fits(t, q)
                 PROVE  Run(t, q) \in Seq(C)
    OBVIOUS
  <2>2. PICK x, y \in Text : Takes(t, q, x, y)
    <3>. HIDE DEF T
    <3>. QED
      BY <1>2, <2>1, FitsHead
  <2>3. x \in Seq(C) /\ y \in Seq(C)
    <3>1. t = x \o y
      BY <2>2 DEF Takes
    <3>. QED
      BY <2>1, <3>1, PartsOver
  <2>4. Run(y, Tail(q)) \in Seq(C)
    BY <1>2, <2>2, <2>3 DEF Takes
  <2>5. ResultOf(x, Head(q)) \in Seq(C)
    <3>1. Head(q) \in OpsOver(C)
      BY <1>2, HeadAndTail
    <3>. QED
      BY <2>3, <3>1, EmptySeq DEF OpsOver, Op, ResultOf
  <2> DEFINE u == ResultOf(x, Head(q))
             v == Run(y, Tail(q))
  <2>6. Run(t, q) = u \o v
    BY <2>2 DEF Takes
  <2> HIDE DEF u, v, T
  <2>7. u \o v \in Seq(C)
    BY <2>4, <2>5, ConcatProperties DEF u, v
  <2>. QED
    BY <2>6, <2>7
<1>3. \A q \in Seq(OpsOver(C)) : q \in T
  <2> HIDE DEF T
  <2>. QED
    BY <1>1, <1>2, ListInduction
<1>. QED
  BY <1>3

-------------------------------------------------------------------------------
(* DiffToChangeset.                                                        *)

\* Each cell of the backtracking continues a smaller one.
Continues(f, old, new, i, j) ==
    \/ i = 0 /\ j = 0 /\ f[<<i, j>>] = <<>>
    \/ /\ i > 0 /\ j > 0 /\ old[i] = new[j]
       /\ f[<<i, j>>] = AddOp(f[<<i - 1, j - 1>>], Retain(1))
    \/ /\ j > 0 /\ ~(i > 0 /\ j > 0 /\ old[i] = new[j]) /\ BacktrackInserts(LCS(old, new), i, j)
       /\ f[<<i, j>>] = AddOp(f[<<i, j - 1>>], Insert(<<new[j]>>))
    \/ /\ i > 0 /\ ~(i > 0 /\ j > 0 /\ old[i] = new[j]) /\ ~BacktrackInserts(LCS(old, new), i, j)
       /\ f[<<i, j>>] = AddOp(f[<<i - 1, j>>], Delete(1))

\* The cells of the table of LCS (diff.go) are the pairs of prefixes.
LEMMA CellsAre ==
    ASSUME NEW old \in Text, NEW new \in Text
    PROVE  /\ \A i \in 0..Len(old), j \in 0..Len(new) :
                 /\ <<i, j>> \in Cells(old, new)
                 /\ i \in Nat /\ j \in Nat
                 /\ i > 0 => i - 1 \in 0..Len(old)
                 /\ j > 0 => j - 1 \in 0..Len(new)
                 /\ i > 0 => old[i] \in Nat
                 /\ j > 0 => new[j] \in Nat
           /\ \A c \in Cells(old, new) :
                 c[1] \in 0..Len(old) /\ c[2] \in 0..Len(new) /\ c = <<c[1], c[2]>>
<1>1. /\ Len(old) \in Nat /\ Len(new) \in Nat
      /\ \A i \in 1..Len(old) : old[i] \in Nat
      /\ \A i \in 1..Len(new) : new[i] \in Nat
  BY TextNil, ElementOfSeq DEF Text
<1>. QED
  BY <1>1 DEF Cells

\* The backtracking function exists: every cell is computed from smaller cells.
LEMMA SegmentsAre ==
    ASSUME NEW old \in Text, NEW new \in Text
    PROVE  \A i \in 0..Len(old), j \in 0..Len(new) : Continues(Segments(old, new), old, new, i, j)
<1> DEFINE S == Cells(old, new)
           V == Seq(Op)
           dp == LCS(old, new)
           same(i, j) == i > 0 /\ j > 0 /\ old[i] = new[j]
           at(f, i, j) == CASE i = 0 /\ j = 0 -> <<>>
                            [] same(i, j) -> AddOp(f[<<i - 1, j - 1>>], Retain(1))
                            [] ~same(i, j) /\ BacktrackInserts(dp, i, j) ->
                                  AddOp(f[<<i, j - 1>>], Insert(<<new[j]>>))
                            [] OTHER -> AddOp(f[<<i - 1, j>>], Delete(1))
           next(f, c) == at(f, c[1], c[2])
           segs == CHOOSE f : f = [c \in S |-> next(f, c)]
           mu == [c \in S |-> c[1] + c[2]]
           Phi == [f \in [S -> V] |-> [c \in S |-> next(f, c)]]
<1>1. ASSUME NEW f, NEW i \in 0..Len(old), NEW j \in 0..Len(new)
      PROVE  \/ i = 0 /\ j = 0 /\ at(f, i, j) = <<>>
             \/ same(i, j) /\ at(f, i, j) = AddOp(f[<<i - 1, j - 1>>], Retain(1))
             \/ /\ ~same(i, j) /\ BacktrackInserts(dp, i, j) /\ j > 0
                /\ at(f, i, j) = AddOp(f[<<i, j - 1>>], Insert(<<new[j]>>))
             \/ /\ ~same(i, j) /\ ~BacktrackInserts(dp, i, j) /\ i > 0
                /\ at(f, i, j) = AddOp(f[<<i - 1, j>>], Delete(1))
  <2>1. i \in Nat /\ j \in Nat
    BY CellsAre
  <2>2. ~same(i, j) /\ ~(i = 0 /\ j = 0) /\ ~BacktrackInserts(dp, i, j) => i > 0
    BY <2>1 DEF BacktrackInserts
  <2>3. BacktrackInserts(dp, i, j) => j > 0
    BY DEF BacktrackInserts
  <2> HIDE DEF dp
  <2>. QED
    BY <2>2, <2>3
<1>2. ASSUME NEW f \in [S -> V], NEW c \in S
      PROVE  next(f, c) \in V
  <2> DEFINE i == c[1]
             j == c[2]
  <2>1. i \in 0..Len(old) /\ j \in 0..Len(new) /\ i \in Nat /\ j \in Nat
    BY CellsAre
  <2>2. /\ i > 0 /\ j > 0 => <<i - 1, j - 1>> \in S
        /\ j > 0 => <<i, j - 1>> \in S /\ <<new[j]>> \in Text
        /\ i > 0 => <<i - 1, j>> \in S
    <3> HIDE DEF i, j, S
    <3>1. /\ i > 0 => i - 1 \in 0..Len(old)
          /\ j > 0 => j - 1 \in 0..Len(new) /\ new[j] \in Nat
      BY <2>1, CellsAre
    <3>2. \A n \in Nat : <<n>> \in Text
      BY DEF Text
    <3>. QED
      BY <2>1, <3>1, <3>2, CellsAre DEF S
  <2> HIDE DEF i, j, S
  <2>3. /\ i > 0 /\ j > 0 => AddOp(f[<<i - 1, j - 1>>], Retain(1)) \in V
        /\ j > 0 => AddOp(f[<<i, j - 1>>], Insert(<<new[j]>>)) \in V
        /\ i > 0 => AddOp(f[<<i - 1, j>>], Delete(1)) \in V
    <3>1. \A x \in S : f[x] \in Seq(Op)
      OBVIOUS
    <3>2. 1 \in Nat
      OBVIOUS
    <3>. QED
      BY <2>2, <3>1, <3>2, OpsOf, AddOpType
  <2>4. at(f, i, j) \in V
    <3> HIDE DEF at, V
    <3>1. <<>> \in V
      BY EmptySeq DEF V
    <3>. QED
      BY <1>1, <2>1, <2>3, <3>1, SMTT(40)
  <2>. QED
    BY <2>4 DEF i, j
<1>3. ASSUME NEW f \in [S -> V], NEW h \in [S -> V], NEW c \in S,
             \A x \in S : mu[x] < mu[c] => f[x] = h[x]
      PROVE  next(f, c) = next(h, c)
  <2> DEFINE i == c[1]
             j == c[2]
  <2>1. i \in 0..Len(old) /\ j \in 0..Len(new) /\ i \in Nat /\ j \in Nat
    BY CellsAre
  <2>2. /\ i > 0 /\ j > 0 => <<i - 1, j - 1>> \in S /\ mu[<<i - 1, j - 1>>] < mu[c]
        /\ j > 0 => <<i, j - 1>> \in S /\ mu[<<i, j - 1>>] < mu[c]
        /\ i > 0 => <<i - 1, j>> \in S /\ mu[<<i - 1, j>>] < mu[c]
    <3>1. /\ i > 0 /\ j > 0 => <<i - 1, j - 1>> \in S
          /\ j > 0 => <<i, j - 1>> \in S
          /\ i > 0 => <<i - 1, j>> \in S
      BY <2>1, CellsAre
    <3>2. \A x, y : <<x, y>> \in S => mu[<<x, y>>] = x + y
      OBVIOUS
    <3>3. mu[c] = i + j
      OBVIOUS
    <3> HIDE DEF mu, S, i, j
    <3>. QED
      BY <2>1, <3>1, <3>2, <3>3, SMTT(40)
  <2> HIDE DEF mu, S
  <2>3. /\ i > 0 /\ j > 0 => f[<<i - 1, j - 1>>] = h[<<i - 1, j - 1>>]
        /\ j > 0 => f[<<i, j - 1>>] = h[<<i, j - 1>>]
        /\ i > 0 => f[<<i - 1, j>>] = h[<<i - 1, j>>]
    BY <1>3, <2>2
  <2>4. ~same(i, j) /\ ~(i = 0 /\ j = 0) /\ ~BacktrackInserts(dp, i, j) => i > 0
    BY <2>1 DEF BacktrackInserts
  <2>5. BacktrackInserts(dp, i, j) => j > 0
    BY DEF BacktrackInserts
  <2> HIDE DEF dp, i, j
  <2>6. at(f, i, j) = at(h, i, j)
    BY <2>3, <2>4, <2>5
  <2>. QED
    BY <2>6 DEF i, j
<1> HIDE DEF at
<1>4. PICK f \in [S -> V] : Phi[f] = f
  <2>1. V # {}
    BY EmptySeq
  <2>2. mu \in [S -> Nat]
    <3>1. \A c \in S : c[1] + c[2] \in Nat
      BY CellsAre
    <3> HIDE DEF S
    <3>. QED
      BY <3>1
  <2>3. Phi \in [[S -> V] -> [S -> V]]
    <3> HIDE DEF S, V, next
    <3>. QED
      BY <1>2
  <2>4. ASSUME NEW f \in [S -> V], NEW h \in [S -> V], NEW c \in S,
               \A x \in S : mu[x] < mu[c] => f[x] = h[x]
        PROVE  Phi[f][c] = Phi[h][c]
    <3>1. next(f, c) = next(h, c)
      BY <1>3, <2>4
    <3> HIDE DEF S, V, next
    <3>. QED
      BY <3>1
  <2> HIDE DEF S, V, mu, Phi
  <2>5. Descends(S, V, mu, Phi)
    BY <2>1, <2>2, <2>3, <2>4 DEF Descends
  <2>. QED
    BY <2>5, Recursion
<1>5. f = [c \in S |-> next(f, c)]
  <2> HIDE DEF V, next, S
  <2>. QED
    BY <1>4
<1>6. segs = [c \in S |-> next(segs, c)]
  <2> HIDE DEF next
  <2>. QED
    BY <1>5
<1>7. Segments(old, new) = segs
  BY DEF Segments, at
<1>8. \A c \in S : segs[c] = next(segs, c)
  <2> HIDE DEF next
  <2>. QED
    BY <1>6
<1> HIDE DEF segs
<1>9. ASSUME NEW i \in 0..Len(old), NEW j \in 0..Len(new)
      PROVE  Continues(segs, old, new, i, j)
  <2>1. <<i, j>> \in S
    BY CellsAre
  <2> HIDE DEF S
  <2>2. segs[<<i, j>>] = at(segs, i, j)
    BY <1>8, <2>1
  <2>3. \/ i = 0 /\ j = 0 /\ segs[<<i, j>>] = <<>>
        \/ same(i, j) /\ segs[<<i, j>>] = AddOp(segs[<<i - 1, j - 1>>], Retain(1))
        \/ /\ ~same(i, j) /\ BacktrackInserts(dp, i, j) /\ j > 0
           /\ segs[<<i, j>>] = AddOp(segs[<<i, j - 1>>], Insert(<<new[j]>>))
        \/ /\ ~same(i, j) /\ ~BacktrackInserts(dp, i, j) /\ i > 0
           /\ segs[<<i, j>>] = AddOp(segs[<<i - 1, j>>], Delete(1))
    <3> HIDE DEF dp, same
    <3>. QED
      BY <1>1, <2>2
  <2>. QED
    BY <2>3 DEF Continues
<1>. QED
  BY <1>7, <1>9

\* What the operations of the first i characters of old and the first j of new
\* are: a normal list that makes the one of the other.
Letters(text) == {text[k] : k \in 1..Len(text)}

\* The operations of a cell turn the first i characters of the old text into the first j of the
\* new one and insert only characters of the new text.
Reaches(old, new, i, j, ops) ==
    /\ ops \in Seq(OpsOver(Letters(new)))
    /\ Normal(ops) /\ Fits(SubSeq(old, 1, i), ops)
    /\ Run(SubSeq(old, 1, i), ops) = SubSeq(new, 1, j)

\* A text up to its i-th character.
LEMMA PrefixGrows ==
    ASSUME NEW s \in Text, NEW i \in 1..Len(s)
    PROVE  /\ SubSeq(s, 1, i - 1) \in Text /\ <<s[i]>> \in Text /\ Len(<<s[i]>>) = 1
           /\ SubSeq(s, 1, i) = SubSeq(s, 1, i - 1) \o <<s[i]>>
<1>1. Len(s) \in Nat /\ s \in Seq(Nat) /\ s[i] \in Nat
  BY TextNil, ElementOfSeq DEF Text
<1> DEFINE a == SubSeq(s, 1, i)
           b == SubSeq(s, 1, i - 1)
           c == <<s[i]>>
<1>2. a \in Seq(Nat) /\ Len(a) = i
  BY <1>1, Cut
<1>3. b \in Seq(Nat) /\ Len(b) = i - 1
  <2>1. i - 1 \in 0..Len(s)
    BY <1>1
  <2>. QED
    BY <1>1, <2>1, Cut
<1>4. c \in Seq(Nat) /\ Len(c) = 1 /\ c[1] = s[i]
  BY <1>1
<1>5. \A k \in 1..i : a[k] = s[k]
  <2>1. 1 \in Int /\ i \in Int /\ \A k \in 1..i : s[k] \in Nat
    BY <1>1, ElementOfSeq
  <2>2. \A k \in 1..i - 1 + 1 : a[k] = s[1 + k - 1]
    BY <2>1, SubSeqProperties
  <2>. QED
    BY <1>1, <2>2
<1>6. \A k \in 1..i - 1 : b[k] = s[k]
  <2>1. 1 \in Int /\ i - 1 \in Int /\ \A k \in 1..i - 1 : s[k] \in Nat
    BY <1>1, ElementOfSeq
  <2>2. \A k \in 1..(i - 1) - 1 + 1 : b[k] = s[1 + k - 1]
    BY <2>1, SubSeqProperties
  <2>. QED
    BY <1>1, <2>2
<1> HIDE DEF a, b, c
<1> DEFINE d == b \o c
<1>7. /\ d \in Seq(Nat) /\ Len(d) = i
      /\ \A k \in 1..i - 1 : d[k] = b[k]
      /\ d[i] = c[1]
  <2>1. /\ d \in Seq(Nat) /\ Len(d) = Len(b) + Len(c)
        /\ \A k \in 1..Len(b) + Len(c) : d[k] = IF k <= Len(b) THEN b[k] ELSE c[k - Len(b)]
    BY <1>3, <1>4, ConcatProperties
  <2> HIDE DEF d
  <2>2. Len(b) + Len(c) = i /\ i <= i /\ ~(i <= i - 1) /\ i - (i - 1) = 1 /\ i \in 1..i
    BY <1>1, <1>3, <1>4
  <2>3. d[i] = c[i - (i - 1)]
    BY <1>3, <2>1, <2>2
  <2>4. ASSUME NEW k \in 1..i - 1 PROVE d[k] = b[k]
    <3>1. k \in 1..i /\ k <= i - 1
      BY <1>1
    <3>. QED
      BY <1>3, <2>1, <2>2, <3>1
  <2>. QED
    BY <2>1, <2>2, <2>3, <2>4
<1> HIDE DEF d
<1>8. \A k \in 1..i : a[k] = d[k]
  <2>1. ASSUME NEW k \in 1..i PROVE a[k] = d[k]
    <3>1. k = i \/ k \in 1..i - 1
      BY <1>1
    <3>. QED
      BY <1>4, <1>5, <1>6, <1>7, <3>1
  <2>. QED
    BY <2>1
<1>9. a = d
  BY <1>2, <1>7, <1>8, SeqEqual
<1>. QED
  BY <1>3, <1>4, <1>9 DEF Text, a, b, c, d

\* A cell reaches if the cells it is computed from do.
LEMMA ReachesNext ==
    ASSUME NEW old \in Text, NEW new \in Text, NEW f,
           NEW i \in 0..Len(old), NEW j \in 0..Len(new), Continues(f, old, new, i, j),
           i > 0 /\ j > 0 => Reaches(old, new, i - 1, j - 1, f[<<i - 1, j - 1>>]),
           j > 0 => Reaches(old, new, i, j - 1, f[<<i, j - 1>>]),
           i > 0 => Reaches(old, new, i - 1, j, f[<<i - 1, j>>])
    PROVE  Reaches(old, new, i, j, f[<<i, j>>])
<1>1. /\ i \in Nat /\ j \in Nat /\ Len(old) \in Nat /\ Len(new) \in Nat
      /\ i > 0 => i \in 1..Len(old)
      /\ j > 0 => j \in 1..Len(new)
  BY TextNil
<1> DEFINE S == OpsOver(Letters(new))
<1>0. Closed(S) /\ Retain(1) \in S /\ Delete(1) \in S
      /\ \A k \in 1..Len(new) : Insert(<<new[k]>>) \in S
  <2>1. Letters(new) \subseteq Nat
    BY ElementOfSeq DEF Letters, Text
  <2>2. Retain(1) \in S /\ Delete(1) \in S
    BY OpsOf, EmptySeq DEF OpsOver, Retain, Delete
  <2>3. ASSUME NEW k \in 1..Len(new) PROVE Insert(<<new[k]>>) \in S
    <3> DEFINE y == <<new[k]>>
    <3>1. new[k] \in Letters(new) /\ new[k] \in Nat
      BY <2>1 DEF Letters
    <3>2. y \in Seq(Letters(new)) /\ y \in Text
      BY <3>1 DEF Text
    <3> HIDE DEF y
    <3>3. Insert(y) \in Op /\ Insert(y).chars = y
      BY <3>2, OpsOf DEF Insert
    <3>. QED
      BY <3>2, <3>3 DEF OpsOver, y
  <2>. QED
    BY <2>1, <2>2, <2>3, OverClosed
<1>2. CASE i = 0 /\ j = 0 /\ f[<<i, j>>] = <<>>
  <2>1. SubSeq(old, 1, 0) = <<>> /\ SubSeq(new, 1, 0) = <<>>
    BY SubSeqEmpty
  <2>2. Normal(<<>>) /\ Fits(<<>>, <<>>) /\ Run(<<>>, <<>>) = <<>>
    BY TextNil, ConsumedIs, RunNil DEF Normal, Fits
  <2>. QED
    BY <1>2, <2>1, <2>2, EmptySeq DEF Reaches
<1>3. ASSUME NEW g, NEW p, NEW x \in Text, NEW e \in Plain, Normal(g), Fits(p, g), Len(x) = Consumes(e),
             g \in Seq(S), e \in S
      PROVE  /\ AddOp(g, e) \in Seq(S) /\ Normal(AddOp(g, e)) /\ Fits(p \o x, AddOp(g, e))
             /\ Run(p \o x, AddOp(g, e)) = Run(p, g) \o ResultOf(x, e)
  <2>1. e \in Op
    BY PlainOps
  <2>2. AddOp(g, e) \in Seq(S)
    <3> HIDE DEF S
    <3>. QED
      BY <1>0, <1>3, AddOpWithin
  <2>. QED
    BY <1>3, <2>1, <2>2, AddOpRun, AddOpNormal
<1>4. CASE /\ i > 0 /\ j > 0 /\ old[i] = new[j]
           /\ f[<<i, j>>] = AddOp(f[<<i - 1, j - 1>>], Retain(1))
  <2> DEFINE g == f[<<i - 1, j - 1>>]
             p == SubSeq(old, 1, i - 1)
             q == SubSeq(new, 1, j - 1)
             x == <<old[i]>>
             e == Retain(1)
  <2>1. g \in Seq(S) /\ Normal(g) /\ Fits(p, g) /\ Run(p, g) = q
    BY <1>4 DEF Reaches
  <2>2. SubSeq(old, 1, i) = p \o x /\ SubSeq(new, 1, j) = q \o x /\ x \in Text /\ Len(x) = 1
    BY <1>1, <1>4, PrefixGrows
  <2>9. e \in S
    BY <1>0
  <2>3. e \in Plain /\ e \in S
    <3>1. e \in Plain
      BY PlainOps
    <3> HIDE DEF e, S
    <3>. QED
      BY <2>9, <3>1
  <2>4. Consumes(e) = 1 /\ ResultOf(x, e) = x
    BY DEF Consumes, ResultOf, Retain
  <2> HIDE DEF g, p, q, x, e, S
  <2>5. /\ AddOp(g, e) \in Seq(S) /\ Normal(AddOp(g, e)) /\ Fits(p \o x, AddOp(g, e))
        /\ Run(p \o x, AddOp(g, e)) = q \o x
    BY <1>3, <2>1, <2>2, <2>3, <2>4, ZenonT(40)
  <2>. QED
    BY <1>4, <2>2, <2>5 DEF Reaches, g, e, S
<1>5. CASE j > 0 /\ f[<<i, j>>] = AddOp(f[<<i, j - 1>>], Insert(<<new[j]>>))
  <2> DEFINE g == f[<<i, j - 1>>]
             p == SubSeq(old, 1, i)
             q == SubSeq(new, 1, j - 1)
             y == <<new[j]>>
             e == Insert(y)
  <2>1. g \in Seq(S) /\ Normal(g) /\ Fits(p, g) /\ Run(p, g) = q
    BY <1>5 DEF Reaches
  <2>2. SubSeq(new, 1, j) = q \o y /\ y \in Text /\ Len(y) = 1
    BY <1>1, <1>5, PrefixGrows
  <2>3. y # <<>>
    BY <2>2, TextNil
  <2>8. e \in S
    BY <1>0, <1>1, <1>5
  <2> HIDE DEF y
  <2>4. e \in Plain
    BY <2>2, <2>3, PlainOps
  <2>5. Consumes(e) = 0 /\ ResultOf(<<>>, e) = y
    BY DEF Consumes, ResultOf, Insert
  <2> HIDE DEF g, p, q, e, S
  <2>6. p \o <<>> = p /\ <<>> \in Text /\ Len(<<>>) = 0
    BY <2>1, TextNil, TextConcatNil DEF Fits
  <2>7. /\ AddOp(g, e) \in Seq(S) /\ Normal(AddOp(g, e)) /\ Fits(p \o <<>>, AddOp(g, e))
        /\ Run(p \o <<>>, AddOp(g, e)) = q \o y
    BY <1>3, <2>1, <2>4, <2>5, <2>6, <2>8
  <2>. QED
    BY <1>5, <2>2, <2>6, <2>7 DEF Reaches, g, e, y, p, S
<1>6. CASE i > 0 /\ f[<<i, j>>] = AddOp(f[<<i - 1, j>>], Delete(1))
  <2> DEFINE g == f[<<i - 1, j>>]
             p == SubSeq(old, 1, i - 1)
             q == SubSeq(new, 1, j)
             x == <<old[i]>>
             e == Delete(1)
  <2>1. g \in Seq(S) /\ Normal(g) /\ Fits(p, g) /\ Run(p, g) = q
    BY <1>6 DEF Reaches
  <2>2. SubSeq(old, 1, i) = p \o x /\ x \in Text /\ Len(x) = 1
    BY <1>1, <1>6, PrefixGrows
  <2>9. e \in S
    BY <1>0
  <2>3. e \in Plain /\ e \in S
    <3>1. e \in Plain
      BY PlainOps
    <3> HIDE DEF e, S
    <3>. QED
      BY <2>9, <3>1
  <2>4. Consumes(e) = 1 /\ ResultOf(x, e) = <<>>
    BY DEF Consumes, ResultOf, Delete
  <2> HIDE DEF g, p, q, x, e, S
  <2>5. q \in Text
    BY <2>1, RunText
  <2>6. q \o <<>> = q
    BY <2>5, TextConcatNil
  <2>7. /\ AddOp(g, e) \in Seq(S) /\ Normal(AddOp(g, e)) /\ Fits(p \o x, AddOp(g, e))
        /\ Run(p \o x, AddOp(g, e)) = q \o <<>>
    BY <1>3, <2>1, <2>2, <2>3, <2>4, ZenonT(40)
  <2>. QED
    BY <1>6, <2>2, <2>6, <2>7 DEF Reaches, g, e, q, S
<1>. QED
  BY <1>2, <1>4, <1>5, <1>6 DEF Continues

\* Every cell of the backtracking reaches.
LEMMA EveryCellReaches ==
    ASSUME NEW old \in Text, NEW new \in Text
    PROVE  \A i \in 0..Len(old), j \in 0..Len(new) :
              Reaches(old, new, i, j, Segments(old, new)[<<i, j>>])
<1> DEFINE S == Cells(old, new)
           f == Segments(old, new)
           mu == [c \in S |-> c[1] + c[2]]
           T == {c \in S : Reaches(old, new, c[1], c[2], f[<<c[1], c[2]>>])}
<1>1. mu \in [S -> Nat]
  <2>1. \A c \in S : c[1] + c[2] \in Nat
    BY CellsAre
  <2> HIDE DEF S
  <2>. QED
    BY <2>1
<1>2. ASSUME NEW c \in S, \A x \in S : mu[x] < mu[c] => x \in T PROVE c \in T
  <2> DEFINE i == c[1]
             j == c[2]
  <2>1. i \in 0..Len(old) /\ j \in 0..Len(new) /\ i \in Nat /\ j \in Nat
    BY CellsAre
  <2>2. /\ i > 0 /\ j > 0 => <<i - 1, j - 1>> \in S /\ mu[<<i - 1, j - 1>>] < mu[c]
        /\ j > 0 => <<i, j - 1>> \in S /\ mu[<<i, j - 1>>] < mu[c]
        /\ i > 0 => <<i - 1, j>> \in S /\ mu[<<i - 1, j>>] < mu[c]
    <3>1. /\ i > 0 /\ j > 0 => <<i - 1, j - 1>> \in S
          /\ j > 0 => <<i, j - 1>> \in S
          /\ i > 0 => <<i - 1, j>> \in S
      <4> HIDE DEF i, j, S
      <4>1. /\ i > 0 => i - 1 \in 0..Len(old)
            /\ j > 0 => j - 1 \in 0..Len(new)
        BY <2>1, CellsAre
      <4>. QED
        BY <2>1, <4>1, CellsAre DEF S
    <3>2. \A x, y : <<x, y>> \in S => mu[<<x, y>>] = x + y
      OBVIOUS
    <3>3. mu[c] = i + j
      OBVIOUS
    <3> HIDE DEF mu, S, i, j
    <3>. QED
      BY <2>1, <3>1, <3>2, <3>3
  <2>3. \A x, y : <<x, y>> \in T <=> <<x, y>> \in S /\ Reaches(old, new, x, y, f[<<x, y>>])
    <3> HIDE DEF S, f
    <3>. QED
      OBVIOUS
  <2>4. Continues(f, old, new, i, j)
    BY <2>1, SegmentsAre
  <2>5. c \in T <=> Reaches(old, new, i, j, f[<<i, j>>])
    <3> HIDE DEF S, f
    <3>. QED
      OBVIOUS
  <2> HIDE DEF mu, S, T, f, i, j
  <2>6. /\ i > 0 /\ j > 0 => Reaches(old, new, i - 1, j - 1, f[<<i - 1, j - 1>>])
        /\ j > 0 => Reaches(old, new, i, j - 1, f[<<i, j - 1>>])
        /\ i > 0 => Reaches(old, new, i - 1, j, f[<<i - 1, j>>])
    BY <1>2, <2>2, <2>3
  <2>7. Reaches(old, new, i, j, f[<<i, j>>])
    BY <2>1, <2>4, <2>6, ReachesNext
  <2>. QED
    BY <2>5, <2>7
<1>3. \A c \in S : c \in T
  <2> HIDE DEF mu, S, T
  <2>. QED
    BY <1>1, <1>2, MeasureInduction
<1>4. ASSUME NEW i \in 0..Len(old), NEW j \in 0..Len(new)
      PROVE  Reaches(old, new, i, j, f[<<i, j>>])
  <2>1. <<i, j>> \in S
    BY CellsAre
  <2>2. <<i, j>> \in T
    BY <1>3, <2>1
  <2> HIDE DEF S, f
  <2>. QED
    BY <2>2
<1>. QED
  BY <1>4

\* The difference of two texts is a changeset the server accepts for the one,
\* and makes the other of it.
THEOREM DiffSuits ==
    ASSUME NEW old \in Text, NEW new \in Text
    PROVE  /\ Suits(old, DiffToChangeset(old, new))
           /\ ApplyChangeset(old, DiffToChangeset(old, new)) = new
<1> DEFINE i == Len(old)
           j == Len(new)
           L == Segments(old, new)[<<i, j>>]
<1>1. i \in Nat /\ j \in Nat /\ i \in 0..Len(old) /\ j \in 0..Len(new)
  BY TextNil
<1>2. Reaches(old, new, i, j, L)
  BY <1>1, EveryCellReaches
<1>3. SubSeq(old, 1, i) = old /\ SubSeq(new, 1, j) = new
  BY SubSeqFull DEF Text
<1>4. DiffToChangeset(old, new) = [old_len |-> i, new_len |-> j, ops |-> L]
  BY DEF DiffToChangeset
<1> HIDE DEF L
<1>5. Normal(L) /\ Fits(old, L) /\ Run(old, L) = new
  BY <1>2, <1>3 DEF Reaches
<1>6. L \in Seq(Op) /\ Produced(L) = j
  BY <1>5, RunText DEF Fits
<1> HIDE DEF i, j
<1>7. DiffToChangeset(old, new) \in Changeset
  BY <1>1, <1>4, <1>6 DEF Changeset
<1>. QED
  BY <1>4, <1>5, <1>6, <1>7, ApplyIsRun DEF Suits, i

\* The difference inserts characters of the new text only.
LEMMA DiffOver ==
    ASSUME NEW C, NEW old \in Text, NEW new \in Text, new \in Seq(C)
    PROVE  DiffToChangeset(old, new).ops \in Seq(OpsOver(C))
<1> DEFINE i == Len(old)
           j == Len(new)
           L == Segments(old, new)[<<i, j>>]
<1>1. i \in Nat /\ j \in Nat /\ i \in 0..Len(old) /\ j \in 0..Len(new)
  BY TextNil
<1>2. Reaches(old, new, i, j, L)
  BY <1>1, EveryCellReaches
<1>3. L \in Seq(OpsOver(Letters(new)))
  BY <1>2 DEF Reaches
<1>4. Letters(new) \subseteq C
  BY ElementOfSeq DEF Letters
<1>5. OpsOver(Letters(new)) \subseteq OpsOver(C)
  BY <1>4, SeqMonotonic DEF OpsOver
<1> HIDE DEF L
<1>6. L \in Seq(OpsOver(C))
  BY <1>3, <1>5, SeqMonotonic
<1>. QED
  BY <1>6 DEF DiffToChangeset, L

-------------------------------------------------------------------------------
(* Compose.                                                                *)

\* The three kinds of steps of Compose (compose.go).
LEMMA ComposeStepIs ==
    ASSUME NEW s \in Cursors
    PROVE  /\ s.a \in Seq(Op) /\ s.b \in Seq(Op) /\ s.out \in Seq(Op)
           /\ At(s.b, "insert")
                 => ComposeStep(s) = [a |-> s.a, b |-> Tail(s.b), out |-> AddOp(s.out, Head(s.b))]
           /\ ~At(s.b, "insert") /\ At(s.a, "delete")
                 => ComposeStep(s) = [a |-> Tail(s.a), b |-> s.b, out |-> AddOp(s.out, Head(s.a))]
           /\ ~At(s.b, "insert") /\ ~At(s.a, "delete")
                 => \E k : /\ k = Shorter(Head(s.a), Head(s.b))
                          /\ ComposeStep(s) =
                                [a |-> Consume(s.a, k), b |-> Consume(s.b, k),
                                 out |-> ComposeOutput(Head(s.a), Head(s.b), k, s.out)]
<1>1. s.a \in Seq(Op) /\ s.b \in Seq(Op) /\ s.out \in Seq(Op)
      /\ s = [a |-> s.a, b |-> s.b, out |-> s.out]
  BY DEF Cursors
<1>2. CASE At(s.b, "insert")
  <2> DEFINE t == Tail(s.b)
             o == AddOp(s.out, Head(s.b))
             e == [s EXCEPT !.b = t]
  <2>1. ComposeStep(s) = [e EXCEPT !.out = o]
    BY <1>2 DEF ComposeStep
  <2> HIDE DEF t, o
  <2>2. e = [a |-> s.a, b |-> t, out |-> s.out]
    BY <1>1
  <2> HIDE DEF e
  <2>3. [e EXCEPT !.out = o] = [a |-> s.a, b |-> t, out |-> o]
    BY <2>2
  <2>. QED
    BY <1>1, <1>2, <2>1, <2>3 DEF t, o
<1>3. CASE ~At(s.b, "insert") /\ At(s.a, "delete")
  <2> DEFINE t == Tail(s.a)
             o == AddOp(s.out, Head(s.a))
             e == [s EXCEPT !.a = t]
  <2>1. ComposeStep(s) = [e EXCEPT !.out = o]
    BY <1>3 DEF ComposeStep
  <2> HIDE DEF t, o
  <2>2. e = [a |-> t, b |-> s.b, out |-> s.out]
    BY <1>1
  <2> HIDE DEF e
  <2>3. [e EXCEPT !.out = o] = [a |-> t, b |-> s.b, out |-> o]
    BY <2>2
  <2>. QED
    BY <1>1, <1>3, <2>1, <2>3 DEF t, o
<1>4. CASE ~At(s.b, "insert") /\ ~At(s.a, "delete")
  BY <1>1, <1>4 DEF ComposeStep
<1>. QED
  BY <1>2, <1>3, <1>4, <1>1

\* The types of the operations whose source characters both address.
LEMMA ComposeHeads ==
    ASSUME NEW a \in Seq(Op), NEW b \in Seq(Op), ~At(b, "insert"), ~At(a, "delete"),
           a # <<>>, b # <<>>
    PROVE  /\ Head(a) \in Op /\ Head(a).op \in {"retain", "insert"}
           /\ Head(b) \in Op /\ Head(b).op \in {"retain", "delete"}
<1>1. Head(a) \in Op /\ Head(b) \in Op
  BY HeadAndTail
<1>. QED
  BY <1>1 DEF At, Op

\* The first k characters of an insertion.
LEMMA InsertPrefix ==
    ASSUME NEW s \in Text, NEW k \in 0..Len(s)
    PROVE  SubSeq(s, 1, k) \in Text /\ Len(SubSeq(s, 1, k)) = k
  BY Cut DEF Text

\* Each step of Compose's loop is a step towards its end.
LEMMA ComposeProgress ==
    ASSUME NEW s \in Cursors, ~ComposeDone(s)
    PROVE  /\ ComposeStep(s) \in Cursors
           /\ Len(ComposeStep(s).a) + Len(ComposeStep(s).b) < Len(s.a) + Len(s.b)
<1>1. s.a \in Seq(Op) /\ s.b \in Seq(Op) /\ s.out \in Seq(Op) /\ Len(s.a) \in Nat /\ Len(s.b) \in Nat
  BY ComposeStepIs, LenProperties
<1>2. CASE At(s.b, "insert")
  <2>1. ComposeStep(s) = [a |-> s.a, b |-> Tail(s.b), out |-> AddOp(s.out, Head(s.b))]
    BY <1>2, ComposeStepIs
  <2>2. s.b # <<>>
    BY <1>2 DEF At
  <2>3. Head(s.b) \in Op /\ Tail(s.b) \in Seq(Op) /\ Len(s.b) = Len(Tail(s.b)) + 1 /\ Len(Tail(s.b)) \in Nat
    BY <1>1, <2>2, HeadAndTail
  <2>4. AddOp(s.out, Head(s.b)) \in Seq(Op)
    BY <1>1, <2>3, AddOpType
  <2>. QED
    BY <1>1, <2>1, <2>3, <2>4 DEF Cursors
<1>3. CASE ~At(s.b, "insert") /\ At(s.a, "delete")
  <2>1. ComposeStep(s) = [a |-> Tail(s.a), b |-> s.b, out |-> AddOp(s.out, Head(s.a))]
    BY <1>3, ComposeStepIs
  <2>2. s.a # <<>>
    BY <1>3 DEF At
  <2>3. Head(s.a) \in Op /\ Tail(s.a) \in Seq(Op) /\ Len(s.a) = Len(Tail(s.a)) + 1 /\ Len(Tail(s.a)) \in Nat
    BY <1>1, <2>2, HeadAndTail
  <2>4. AddOp(s.out, Head(s.a)) \in Seq(Op)
    BY <1>1, <2>3, AddOpType
  <2>. QED
    BY <1>1, <2>1, <2>3, <2>4 DEF Cursors
<1>4. CASE ~At(s.b, "insert") /\ ~At(s.a, "delete")
  <2> DEFINE a == Head(s.a)
             b == Head(s.b)
             k == Shorter(a, b)
  <2>1. s.a # <<>> /\ s.b # <<>>
    BY <1>4 DEF ComposeDone
  <2>2. a \in Op /\ a.op \in {"retain", "insert"} /\ b \in Op /\ b.op \in {"retain", "delete"}
    BY <1>1, <1>4, <2>1, ComposeHeads
  <2>3. ComposeStep(s) = [a |-> Consume(s.a, k), b |-> Consume(s.b, k), out |-> ComposeOutput(a, b, k, s.out)]
    BY <1>4, ComposeStepIs
  <2>4. k \in 0..Size(a) /\ k \in Nat /\ k = Shorter(a, b)
    BY <2>2, ShorterIs
  <2> HIDE DEF k
  <2>5. Consume(s.a, k) \in Seq(Op) /\ Consume(s.b, k) \in Seq(Op)
        /\ Len(Consume(s.a, k)) + Len(Consume(s.b, k)) < Len(s.a) + Len(s.b)
    BY <1>1, <2>1, <2>4, ConsumeShortens
  <2>6. ComposeOutput(a, b, k, s.out) \in Seq(Op)
    <3> DEFINE c == SubSeq(a.chars, 1, k)
    <3>1. Retain(k) \in Op /\ Delete(k) \in Op
      BY <2>4, OpsOf
    <3>2. a.op = "insert" => Insert(c) \in Op
      <4>1. SUFFICES ASSUME a.op = "insert" PROVE c \in Text
        BY OpsOf
      <4>2. a.chars \in Text /\ k \in 0..Len(a.chars)
        BY <2>2, <2>4, <4>1 DEF Op, Size
      <4>. QED
        BY <4>2, InsertPrefix
    <3> HIDE DEF a, b, c
    <3>3. /\ AddOp(s.out, Retain(k)) \in Seq(Op) /\ AddOp(s.out, Delete(k)) \in Seq(Op)
          /\ a.op = "insert" => AddOp(s.out, Insert(c)) \in Seq(Op)
      BY <1>1, <3>1, <3>2, AddOpType
    <3>. QED
      BY <1>1, <2>2, <3>3 DEF ComposeOutput, c
  <2> DEFINE ca == Consume(s.a, k)
             cb == Consume(s.b, k)
             co == ComposeOutput(a, b, k, s.out)
  <2>7. ComposeStep(s) = [a |-> ca, b |-> cb, out |-> co]
    BY <2>3 DEF k
  <2>8. ca \in Seq(Op) /\ cb \in Seq(Op) /\ co \in Seq(Op) /\ Len(ca) + Len(cb) < Len(s.a) + Len(s.b)
    BY <2>5, <2>6
  <2> HIDE DEF ca, cb, co, a, b
  <2>. QED
    BY <2>7, <2>8 DEF Cursors
<1>. QED
  BY <1>2, <1>3, <1>4

\* ComposeLoop is the loop of Compose: it ends, so the recursive function it is defined by
\* exists.
LEMMA ComposeLoopIs ==
    /\ ComposeLoop \in [Cursors -> Seq(Op)]
    /\ \A s \in Cursors :
          ComposeLoop[s] = IF ComposeDone(s) THEN s.out ELSE ComposeLoop[ComposeStep(s)]
<1> DEFINE V == Seq(Op)
           done == {s \in Cursors : ComposeDone(s)}
           out == [s \in Cursors |-> s.out]
           step == [s \in Cursors |-> IF ComposeDone(s) THEN s ELSE ComposeStep(s)]
           mu == [s \in Cursors |-> Len(s.a) + Len(s.b)]
           next(f, s) == IF ComposeDone(s) THEN s.out ELSE f[ComposeStep(s)]
<1>1. V # {}
  BY EmptySeq
<1>2. out \in [Cursors -> V]
  BY DEF Cursors
<1>3. step \in [Cursors -> Cursors]
  BY ComposeProgress
<1>4. mu \in [Cursors -> Nat]
  <2>1. ASSUME NEW s \in Cursors PROVE Len(s.a) + Len(s.b) \in Nat
    <3>1. s.a \in Seq(Op) /\ s.b \in Seq(Op)
      BY DEF Cursors
    <3>2. Len(s.a) \in Nat /\ Len(s.b) \in Nat
      BY <3>1, LenProperties
    <3> DEFINE la == Len(s.a)
               lb == Len(s.b)
    <3>3. la \in Nat /\ lb \in Nat
      BY <3>2
    <3>4. la + lb \in Nat
      <4> HIDE DEF la, lb
      <4>. QED
        BY <3>3
    <3>. QED
      BY <3>4
  <2>. QED
    BY <2>1
<1>5. \A s \in Cursors : s \notin done => mu[step[s]] < mu[s]
  BY ComposeProgress
<1>6. PICK f : IsLoop(f, Cursors, V, done, out, step)
  <2> HIDE DEF V, done, out, step, mu
  <2>. QED
    BY <1>1, <1>2, <1>3, <1>4, <1>5, LoopRecursion
<1>7. f \in [Cursors -> V] /\ \A s \in Cursors : f[s] = next(f, s)
  <2> HIDE DEF V
  <2>. QED
    BY <1>6 DEF IsLoop
<1>8. f = [s \in Cursors |-> next(f, s)]
  <2> HIDE DEF V, next
  <2>. QED
    BY <1>7
<1> DEFINE loop == CHOOSE h : h = [s \in Cursors |-> next(h, s)]
<1>9. loop = [s \in Cursors |-> next(loop, s)]
  <2> HIDE DEF next
  <2>. QED
    BY <1>8
<1>10. ComposeLoop = loop
  BY DEF ComposeLoop
<1>11. \A s \in Cursors : loop[s] = next(loop, s)
  <2> HIDE DEF next
  <2>. QED
    BY <1>9
<1> DEFINE L == ComposeLoop
<1>12. L = [s \in Cursors |-> next(L, s)] /\ \A s \in Cursors : L[s] = next(L, s)
  BY <1>9, <1>10, <1>11
<1> HIDE DEF loop
<1>13. L = f
  <2>1. \A s \in Cursors : s \notin done => step[s] = ComposeStep(s) /\ ComposeStep(s) \in Cursors
    BY ComposeProgress
  <2> DEFINE T == {s \in Cursors : L[s] = f[s]}
  <2>2. ASSUME NEW s \in Cursors, \A x \in Cursors : mu[x] < mu[s] => x \in T PROVE s \in T
    <3> HIDE DEF mu, L
    <3>. QED
      BY <1>5, <1>7, <1>12, <2>1, <2>2
  <2>3. \A s \in Cursors : s \in T
    <3> HIDE DEF T, mu
    <3>. QED
      BY <1>4, <2>2, MeasureInduction
  <2> HIDE DEF next, L, V
  <2>. QED
    BY <1>8, <1>12, <2>3
<1>. QED
  BY <1>7, <1>12, <1>13

\* A cursor pair of Compose in the middle of its work: out is the composition
\* for the source p behind it, a and b are to be made of the source t ahead.
Composes(p, t, s) ==
    /\ Normal(s.a) /\ Fits(t, s.a)
    /\ Normal(s.b) /\ Fits(Run(t, s.a), s.b)
    /\ Normal(s.out) /\ Fits(p, s.out)

\* The loop ends with operations in normal form that make of p and t what A and then B make.
ComposesWell(t, a, b, p, out) ==
    /\ Normal(ComposeLoop[Pair(a, b, out)])
    /\ Fits(p \o t, ComposeLoop[Pair(a, b, out)])
    /\ Run(p \o t, ComposeLoop[Pair(a, b, out)]) = Run(p, out) \o Run(Run(t, a), b)

\* This is so from every state with these operands.
Composed(a, b) ==
    \A t, p, out : Composes(p, t, Pair(a, b, out)) => ComposesWell(t, a, b, p, out)

\* A step of Compose over the source characters x to the pair (c, d, o), that
\* adds e to the result.
Moves(t, a, b, p, out, x, y, c, d, o, e) ==
    /\ x \in Text /\ y \in Text /\ e \in Text /\ t = x \o y
    /\ ComposeLoop[Pair(a, b, out)] = ComposeLoop[Pair(c, d, o)]
    /\ Composes(p \o x, y, Pair(c, d, o))
    /\ Run(p \o x, o) = Run(p, out) \o e
    /\ Run(Run(t, a), b) = e \o Run(Run(y, c), d)

\* The facts a state of the loop carries, one by one.
LEMMA ComposesIs ==
    ASSUME NEW p, NEW t, NEW a, NEW b, NEW out, Composes(p, t, Pair(a, b, out))
    PROVE  /\ Pair(a, b, out) \in Cursors
           /\ Normal(a) /\ Fits(t, a) /\ Normal(b) /\ Fits(Run(t, a), b) /\ Normal(out) /\ Fits(p, out)
           /\ a \in Seq(Op) /\ b \in Seq(Op) /\ out \in Seq(Op) /\ p \in Text /\ t \in Text
           /\ Run(t, a) \in Text
           /\ Pair(a, b, out).a = a /\ Pair(a, b, out).b = b /\ Pair(a, b, out).out = out
  BY DEF Composes, Pair, Fits, Cursors

\* Where a step leads to a pair that composes well, so does the pair it is from.
LEMMA MovesWell ==
    ASSUME NEW t, NEW a, NEW b, NEW p, NEW out, Composes(p, t, Pair(a, b, out)),
           NEW x, NEW y, NEW c, NEW d, NEW o, NEW e,
           Moves(t, a, b, p, out, x, y, c, d, o, e), Composed(c, d)
    PROVE  ComposesWell(t, a, b, p, out)
<1> DEFINE L == ComposeLoop[Pair(c, d, o)]
           u == Run(p, out)
           v == Run(Run(y, c), d)
<1>1. /\ x \in Text /\ y \in Text /\ e \in Text /\ t = x \o y
      /\ ComposeLoop[Pair(a, b, out)] = L
      /\ Composes(p \o x, y, Pair(c, d, o))
      /\ Run(p \o x, o) = u \o e
      /\ Run(Run(t, a), b) = e \o v
  BY DEF Moves
<1>2. p \in Text /\ u \in Text
  BY ComposesIs, RunText
<1>3. v \in Text
  BY <1>1, ComposesIs, RunText
<1>4. ComposesWell(y, c, d, p \o x, o)
  BY <1>1 DEF Composed
<1>5. Normal(L) /\ Fits((p \o x) \o y, L) /\ Run((p \o x) \o y, L) = (u \o e) \o v
  BY <1>1, <1>4 DEF ComposesWell
<1>6. (p \o x) \o y = p \o (x \o y)
  BY <1>1, <1>2, TextAssociative
<1>7. (u \o e) \o v = u \o (e \o v)
  <2> HIDE DEF u, v
  <2>. QED
    BY ONLY <1>1, <1>2, <1>3, TextAssociative, SMTT(40)
<1> HIDE DEF L, u, v
<1>. QED
  BY <1>1, <1>5, <1>6, <1>7 DEF ComposesWell, u

\* Compose copies an insertion of B.
LEMMA ComposeB ==
    ASSUME NEW t, NEW a, NEW b, NEW p, NEW out, Composes(p, t, Pair(a, b, out)), At(b, "insert")
    PROVE  Moves(t, a, b, p, out, <<>>, t, a, Tail(b), AddOp(out, Insert(Head(b).chars)), Head(b).chars)
<1> DEFINE s == Pair(a, b, out)
           c == Head(b).chars
           o == AddOp(out, Insert(c))
<1>1. /\ s \in Cursors
      /\ Normal(a) /\ Fits(t, a) /\ Normal(b) /\ Fits(Run(t, a), b) /\ Normal(out) /\ Fits(p, out)
      /\ s.a = a /\ s.b = b /\ s.out = out /\ p \in Text /\ t \in Text
  BY ComposesIs
<1>2. /\ c \in Text /\ c # <<>> /\ Normal(Tail(b)) /\ Fits(Run(t, a), Tail(b)) /\ Head(b) = Insert(c)
      /\ Run(Run(t, a), b) = c \o Run(Run(t, a), Tail(b))
  BY <1>1, FitsInsert
<1>3. ~ComposeDone(s)
  BY <1>1 DEF ComposeDone
<1>4. ComposeStep(s) = Pair(a, Tail(b), o)
  <2>1. ComposeStep(s) = [a |-> a, b |-> Tail(b), out |-> AddOp(out, Head(b))]
    <3> HIDE DEF s
    <3>. QED
      BY <1>1, ComposeStepIs
  <2>. QED
    BY <1>2, <2>1 DEF Pair
<1>5. ComposeLoop[s] = ComposeLoop[ComposeStep(s)]
  BY <1>1, <1>3, ComposeLoopIs
<1>6. /\ Insert(c) \in Plain /\ Insert(c) \in Op
      /\ Len(<<>>) = Consumes(Insert(c)) /\ ResultOf(<<>>, Insert(c)) = c
  <2>1. Insert(c) \in Plain /\ Insert(c) \in Op
    BY <1>2, PlainOps
  <2>2. Insert(c).op = "insert" /\ Insert(c).chars = c
    BY DEF Insert
  <2>. QED
    BY <2>1, <2>2, TextNil DEF Consumes, ResultOf
<1>7. Normal(o)
  BY <1>1, <1>6, AddOpNormal
<1>8. Fits(p \o <<>>, o) /\ Run(p \o <<>>, o) = Run(p, out) \o c
  <2> DEFINE r == Insert(c)
  <2>1. r \in Op /\ Len(<<>>) = Consumes(r) /\ ResultOf(<<>>, r) = c
    BY <1>6
  <2> HIDE DEF c, r
  <2>2. Fits(p \o <<>>, AddOp(out, r)) /\ Run(p \o <<>>, AddOp(out, r)) = Run(p, out) \o ResultOf(<<>>, r)
    <3>1. <<>> \in Text
      BY TextNil
    <3>2. Fits(p, out) /\ r \in Op /\ Len(<<>>) = Consumes(r)
      BY <1>1, <2>1
    <3>. QED
      BY ONLY <3>1, <3>2, AddOpRun
  <2>. QED
    BY <2>1, <2>2 DEF r
<1> HIDE DEF o, c
<1>9. Composes(p \o <<>>, t, Pair(a, Tail(b), o))
  BY <1>1, <1>2, <1>7, <1>8 DEF Composes, Pair
<1>10. <<>> \in Text /\ t = <<>> \o t
  BY <1>1, TextNil, TextConcatNil
<1>11. ComposeLoop[s] = ComposeLoop[Pair(a, Tail(b), o)]
  BY <1>4, <1>5
<1>12. Moves(t, a, b, p, out, <<>>, t, a, Tail(b), o, c)
  BY <1>1, <1>2, <1>8, <1>9, <1>10, <1>11 DEF Moves
<1>. QED
  BY <1>12 DEF o, c

\* Compose copies a deletion of A.
LEMMA ComposeA ==
    ASSUME NEW t, NEW a, NEW b, NEW p, NEW out, Composes(p, t, Pair(a, b, out)),
           ~At(b, "insert"), At(a, "delete"),
           NEW x, NEW y, x \in Text, y \in Text, Takes(t, a, x, y)
    PROVE  Moves(t, a, b, p, out, x, y, Tail(a), b, AddOp(out, Head(a)), <<>>)
<1> DEFINE s == Pair(a, b, out)
           h == Head(a)
           o == AddOp(out, h)
<1>1. /\ s \in Cursors
      /\ Normal(a) /\ Fits(t, a) /\ Normal(b) /\ Fits(Run(t, a), b) /\ Normal(out) /\ Fits(p, out)
      /\ s.a = a /\ s.b = b /\ s.out = out /\ p \in Text /\ t \in Text
  BY ComposesIs
<1>2. /\ a # <<>> /\ h.op = "delete" /\ h \in Plain /\ h \in Op /\ Normal(Tail(a))
  <2>1. a # <<>> /\ h.op = "delete"
    BY DEF At
  <2>. QED
    BY <1>1, <2>1, NormalTail
<1>3. /\ t = x \o y /\ Len(x) = Consumes(h) /\ Fits(y, Tail(a))
      /\ Run(t, a) = <<>> \o Run(y, Tail(a)) /\ ResultOf(x, h) = <<>>
  BY <1>2 DEF Takes, ResultOf
<1>4. Run(t, a) = Run(y, Tail(a)) /\ Run(Run(t, a), b) \in Text
  BY <1>1, <1>3, RunText, TextConcatNil
<1>5. ~ComposeDone(s)
  BY <1>1 DEF ComposeDone
<1>6. ComposeStep(s) = Pair(Tail(a), b, o)
  <2>1. ComposeStep(s) = [a |-> Tail(a), b |-> b, out |-> AddOp(out, Head(a))]
    <3> HIDE DEF s
    <3>. QED
      BY <1>1, ComposeStepIs
  <2>. QED
    BY <2>1 DEF Pair
<1>7. ComposeLoop[s] = ComposeLoop[Pair(Tail(a), b, o)]
  BY <1>1, <1>5, <1>6, ComposeLoopIs
<1>8. Normal(o)
  BY <1>1, <1>2, AddOpNormal
<1> HIDE DEF h
<1>9. Fits(p \o x, o) /\ Run(p \o x, o) = Run(p, out) \o <<>>
  <2>1. Fits(p, out) /\ h \in Op /\ x \in Text /\ Len(x) = Consumes(h)
    BY <1>1, <1>2, <1>3
  <2>2. Fits(p \o x, AddOp(out, h)) /\ Run(p \o x, AddOp(out, h)) = Run(p, out) \o ResultOf(x, h)
    BY ONLY <2>1, AddOpRun
  <2>. QED
    BY <1>3, <2>2
<1> HIDE DEF o
<1>10. Composes(p \o x, y, Pair(Tail(a), b, o))
  BY <1>1, <1>2, <1>3, <1>4, <1>8, <1>9 DEF Composes, Pair
<1>11. <<>> \in Text
  BY TextNil
<1>12. Run(Run(t, a), b) = <<>> \o Run(Run(y, Tail(a)), b)
  <2> DEFINE r == Run(Run(t, a), b)
  <2>1. r \in Text /\ r = Run(Run(y, Tail(a)), b)
    BY <1>4
  <2> HIDE DEF r
  <2>2. r = <<>> \o r
    BY <2>1, TextConcatNil
  <2>. QED
    BY <2>1, <2>2 DEF r
<1>13. Moves(t, a, b, p, out, x, y, Tail(a), b, o, <<>>)
  BY <1>3, <1>7, <1>9, <1>10, <1>11, <1>12 DEF Moves
<1>. QED
  BY <1>13 DEF o, h

\* Consuming the first k characters of an insertion.
LEMMA ConsumeInsert ==
    ASSUME NEW t, NEW ops, Fits(t, ops), Normal(ops), At(ops, "insert"),
           NEW k \in 0..Size(Head(ops))
    PROVE  /\ Fits(t, Consume(ops, k))
           /\ SubSeq(Head(ops).chars, 1, k) \in Text /\ Len(SubSeq(Head(ops).chars, 1, k)) = k
           /\ Run(t, ops) = SubSeq(Head(ops).chars, 1, k) \o Run(t, Consume(ops, k))
<1> DEFINE h == Head(ops)
           c == h.chars
           r == Tail(ops)
           w == SubSeq(c, 1, k)
           z == SubSeq(c, k + 1, Len(c))
<1>1. /\ ops # <<>> /\ h.op = "insert" /\ h = Insert(c) /\ c \in Text /\ Fits(t, r)
      /\ Run(t, ops) = c \o Run(t, r) /\ Size(h) = Len(c)
  BY FitsInsert DEF At, Size
<1>2. ops \in Seq(Op) /\ h \in Op /\ r \in Seq(Op) /\ t \in Text /\ Consumed(r) = Len(t)
  BY <1>1, HeadAndTail DEF Fits
<1>3. w \in Text /\ z \in Text /\ c = w \o z /\ Len(w) = k /\ Len(z) = Len(c) - k
  <2> HIDE DEF c
  <2>. QED
    BY <1>1, Cut, ZenonT(40) DEF Text
<1>4. CASE k = Size(h)
  <2>1. Consume(ops, k) = r
    BY <1>1, <1>2, <1>4, ConsumeIs
  <2>2. w = c
    BY <1>1, <1>4, SubSeqFull DEF Text
  <2>. QED
    BY <1>1, <1>3, <2>1, <2>2
<1>5. CASE k # Size(h)
  <2> DEFINE o == Rest(h, k)
  <2>1. Consume(ops, k) = <<o>> \o r
    BY <1>1, <1>2, <1>5, ConsumeIs
  <2>2. o \in Op /\ o.op = "insert" /\ o.chars = z
    BY <1>1, <1>2, <1>5, RestIs DEF Rest
  <2> HIDE DEF o, w, z
  <2>3. Consumes(o) = 0 /\ ResultOf(<<>>, o) = z
    BY <2>2 DEF Consumes, ResultOf
  <2>4. <<>> \in Text /\ <<>> \o t = t /\ Len(<<>>) = 0
    BY <1>2, TextNil, TextConcatNil
  <2>5. Run(<<>> \o t, <<o>> \o r) = ResultOf(<<>>, o) \o Run(t, r)
    BY <1>2, <2>2, <2>3, <2>4, RunCons
  <2>6. Fits(t, <<o>> \o r)
    <3>1. <<o>> \o r \in Seq(Op)
      BY <1>2, <2>2, ConsSeq
    <3>2. Consumed(<<o>> \o r) = Consumes(o) + Consumed(r)
      BY <1>2, <2>2, ConsumedCons
    <3>3. Consumed(r) \in Nat
      BY <1>2, TextNil
    <3>. QED
      BY <1>2, <2>3, <3>1, <3>2, <3>3 DEF Fits
  <2> DEFINE g == Run(t, r)
  <2>7. g \in Text
    BY <1>1, RunText
  <2>8. (w \o z) \o g = w \o (z \o g)
    <3> HIDE DEF g
    <3>. QED
      BY ONLY <1>3, <2>7, TextAssociative
  <2>9. Fits(t, Consume(ops, k)) /\ Run(t, Consume(ops, k)) = z \o g
    BY <2>1, <2>3, <2>4, <2>5, <2>6
  <2>10. Run(t, ops) = w \o (z \o g)
    BY <1>1, <1>3, <2>8
  <2>11. Run(t, ops) = w \o Run(t, Consume(ops, k))
    BY <2>9, <2>10
  <2>. QED
    BY <1>3, <2>9, <2>11 DEF w
<1>. QED
  BY <1>4, <1>5

\* Where A and B both address units, they are composed into one operation: for
\* w of A's output, made of the source characters x.
LEMMA ComposeBoth ==
    ASSUME NEW t, NEW a, NEW b, NEW p, NEW out, Composes(p, t, Pair(a, b, out)),
           ~At(b, "insert"), ~At(a, "delete"), a # <<>>, b # <<>>,
           NEW k, k = Shorter(Head(a), Head(b)),
           NEW x, NEW y, NEW w, NEW v, x \in Text, y \in Text, w \in Text, v \in Text,
           t = x \o y, Len(w) = k, Fits(y, Consume(a, k)),
           Run(t, a) = w \o v, v = Run(y, Consume(a, k)),
           Head(a).op = "retain" => x = w,
           Head(a).op = "insert" => x = <<>> /\ w = SubSeq(Head(a).chars, 1, k)
    PROVE  Moves(t, a, b, p, out, x, y, Consume(a, k), Consume(b, k),
                 ComposeOutput(Head(a), Head(b), k, out), ResultOf(w, Head(b)))
<1> DEFINE s == Pair(a, b, out)
           ha == Head(a)
           hb == Head(b)
           ca == Consume(a, k)
           cb == Consume(b, k)
           o == ComposeOutput(ha, hb, k, out)
           e == ResultOf(w, hb)
<1>1. /\ s \in Cursors
      /\ Normal(a) /\ Fits(t, a) /\ Normal(b) /\ Fits(Run(t, a), b) /\ Normal(out) /\ Fits(p, out)
      /\ s.a = a /\ s.b = b /\ s.out = out /\ p \in Text /\ t \in Text
      /\ a \in Seq(Op) /\ b \in Seq(Op)
  BY ONLY Composes(p, t, Pair(a, b, out)), ComposesIs
<1>2. /\ ha \in Plain /\ ha \in Op /\ ha.op \in {"retain", "insert"}
      /\ hb \in Plain /\ hb \in Op /\ hb.op \in {"retain", "delete"}
  <2>1. ha \in Plain /\ hb \in Plain
    BY <1>1, NormalTail
  <2>. QED
    BY <1>1, <2>1, ComposeHeads
<1>3. k \in 0..Size(ha) /\ k \in 0..Size(hb) /\ k \in Nat \ {0}
  <2>1. k \in 0..Size(ha) /\ k \in 0..Size(hb) /\ (k = Size(ha) \/ k = Size(hb))
    BY <1>2, ShorterIs
  <2>2. Size(ha) \in Nat \ {0} /\ Size(hb) \in Nat \ {0}
    BY <1>2, PlainOps
  <2>. QED
    BY <2>1, <2>2
<1>4. ComposeLoop[s] = ComposeLoop[Pair(ca, cb, o)]
  <2>1. ~ComposeDone(s)
    BY <1>1 DEF ComposeDone
  <2>2. ComposeStep(s) = Pair(ca, cb, o)
    <3> HIDE DEF s
    <3>. QED
      BY <1>1, <1>3, ComposeStepIs DEF Pair
  <2>. QED
    BY <1>1, <2>1, <2>2, ComposeLoopIs
<1>5. Normal(ca) /\ Normal(cb)
  BY <1>1, <1>3, NormalConsume
<1>6. Fits(v, cb) /\ Run(Run(t, a), b) = e \o Run(v, cb)
  <2> DEFINE m == Run(t, a)
  <2>1. Fits(m, b) /\ b # <<>> /\ Head(b).op # "insert" /\ m = w \o v
    BY <1>1, <1>2
  <2>2. Len(w) <= Size(Head(b))
    BY <1>3
  <2> HIDE DEF m
  <2>3. Advances(m, b, w, v)
    BY <2>1, <2>2, ConsumeSource
  <2>. QED
    BY <2>3 DEF Advances, m
<1>7. e \in Text
  <2>1. e = w \/ e = <<>>
    BY <1>2 DEF ResultOf
  <2>. QED
    BY <2>1, TextNil
<1>8. Normal(o) /\ Fits(p \o x, o) /\ Run(p \o x, o) = Run(p, out) \o e
  <2>1. ASSUME NEW q, q \in Plain, Consumes(q) = Len(x)
        PROVE  /\ Normal(AddOp(out, q)) /\ Fits(p \o x, AddOp(out, q))
               /\ Run(p \o x, AddOp(out, q)) = Run(p, out) \o ResultOf(x, q)
    <3>1. q \in Op /\ Fits(p, out) /\ Len(x) = Consumes(q) /\ Normal(out)
      BY <1>1, <2>1, PlainOps
    <3>2. Normal(AddOp(out, q))
      BY ONLY <2>1, <3>1, AddOpNormal
    <3>. QED
      BY ONLY x \in Text, <3>1, <3>2, AddOpRun
  <2>2. CASE ha.op = "retain" /\ hb.op = "retain"
    <3> DEFINE q == Retain(k)
    <3>1. o = AddOp(out, q)
      BY <2>2 DEF ComposeOutput
    <3>2. q \in Plain /\ Consumes(q) = Len(x)
      BY <1>3, <2>2, PlainOps DEF Consumes, Retain
    <3>3. ResultOf(x, q) = e
      BY <2>2 DEF ResultOf, Retain
    <3> HIDE DEF o, q, e
    <3>. QED
      BY <2>1, <3>1, <3>2, <3>3
  <2>3. CASE ha.op = "retain" /\ hb.op = "delete"
    <3> DEFINE q == Delete(k)
    <3>1. o = AddOp(out, q)
      BY <2>3 DEF ComposeOutput
    <3>2. q \in Plain /\ Consumes(q) = Len(x)
      BY <1>3, <2>3, PlainOps DEF Consumes, Delete
    <3>3. ResultOf(x, q) = e
      BY <2>3 DEF ResultOf, Delete
    <3> HIDE DEF o, q, e
    <3>. QED
      BY <2>1, <3>1, <3>2, <3>3
  <2>4. CASE ha.op = "insert" /\ hb.op = "retain"
    <3> DEFINE q == Insert(w)
    <3>1. o = AddOp(out, q)
      BY <2>4 DEF ComposeOutput
    <3>2. w # <<>>
      BY <1>3, TextNil
    <3>3. q \in Plain /\ Consumes(q) = Len(x)
      <4>1. q \in Plain
        BY <3>2, PlainOps
      <4>2. Consumes(q) = 0
        BY DEF Consumes, Insert
      <4>. QED
        BY <2>4, <4>1, <4>2, TextNil
    <3>4. ResultOf(x, q) = e
      BY <2>4 DEF ResultOf, Insert
    <3> HIDE DEF o, q, e
    <3>. QED
      BY <2>1, <3>1, <3>3, <3>4
  <2>5. CASE ha.op = "insert" /\ hb.op = "delete"
    <3>1. o = out /\ x = <<>> /\ e = <<>>
      BY <2>5 DEF ComposeOutput, ResultOf
    <3>2. p \o <<>> = p /\ Run(p, out) \o <<>> = Run(p, out)
      BY <1>1, RunText, TextConcatNil
    <3> HIDE DEF o, e
    <3>. QED
      BY <1>1, <3>1, <3>2
  <2>. QED
    BY <1>2, <2>2, <2>3, <2>4, <2>5
<1> HIDE DEF o, e, ca, cb
<1>9. Composes(p \o x, y, Pair(ca, cb, o))
  BY <1>5, <1>6, <1>8 DEF Composes, Pair, ca
<1>10. Moves(t, a, b, p, out, x, y, ca, cb, o, e)
  BY <1>4, <1>6, <1>7, <1>8, <1>9 DEF Moves, ca
<1>. QED
  BY <1>10 DEF o, e, ca, cb

\* Compose ends where the source ends.
LEMMA ComposeEnd ==
    ASSUME NEW t, NEW a, NEW b, NEW p, NEW out, Composes(p, t, Pair(a, b, out)),
           ~At(b, "insert"), ~At(a, "delete"), a = <<>> \/ b = <<>>
    PROVE  ComposesWell(t, a, b, p, out)
<1> DEFINE s == Pair(a, b, out)
           m == Run(t, a)
<1>1. /\ s \in Cursors
      /\ Normal(a) /\ Fits(t, a) /\ Normal(b) /\ Fits(m, b) /\ Normal(out) /\ Fits(p, out)
      /\ s.a = a /\ s.b = b /\ s.out = out /\ a \in Seq(Op) /\ b \in Seq(Op) /\ t \in Text /\ p \in Text
      /\ m \in Text
  <2> HIDE DEF s, m
  <2>. QED
    BY ComposesIs DEF s, m
<1>2. ComposeLoop[s] = out
  <2>1. ComposeDone(s)
    BY <1>1 DEF ComposeDone
  <2>. QED
    BY <1>1, <2>1, ComposeLoopIs
\* An operation at the head takes or gives some units.
<1>3. ASSUME NEW c, c \in Seq(Op), Normal(c), c # <<>>
      PROVE  /\ Size(Head(c)) \in Nat \ {0} /\ Head(c) \in Op
             /\ Consumed(c) = Consumes(Head(c)) + Consumed(Tail(c)) /\ Consumed(Tail(c)) \in Nat
             /\ Produced(c) = Produces(Head(c)) + Produced(Tail(c)) /\ Produced(Tail(c)) \in Nat
  <2>1. Head(c) \in Plain /\ Head(c) \in Op /\ Tail(c) \in Seq(Op)
    BY <1>3, NormalTail, HeadAndTail
  <2>. QED
    BY <1>3, <2>1, PlainOps, ConsumedIs, ProducedIs
<1>4. Produced(a) = Consumed(b)
  <2> HIDE DEF m
  <2>1. Len(m) = Consumed(b)
    BY <1>1 DEF Fits
  <2>2. Len(m) = Produced(a)
    BY <1>1, RunText DEF m
  <2>. QED
    BY <2>1, <2>2
<1> HIDE DEF m, s
<1>5. b = <<>>
  <2>1. SUFFICES ASSUME b # <<>> PROVE FALSE
    OBVIOUS
  <2>2. a = <<>>
    BY <2>1
  <2>3. Produced(a) = 0
    BY <2>2, ProducedIs
  <2>4. Head(b).op # "insert" /\ Size(Head(b)) \in Nat \ {0} /\ Consumed(Tail(b)) \in Nat
        /\ Consumed(b) = Consumes(Head(b)) + Consumed(Tail(b))
    BY <1>1, <1>3, <2>1 DEF At
  <2>5. Consumes(Head(b)) \in Nat \ {0}
    BY <2>4 DEF Consumes, Size
  <2>. QED
    <3> DEFINE u == Consumes(Head(b))
               v == Consumed(Tail(b))
    <3>1. u \in Nat \ {0} /\ v \in Nat /\ u + v = 0
      BY <1>4, <2>3, <2>4, <2>5
    <3> HIDE DEF u, v
    <3>. QED
      BY <3>1
<1>6. a = <<>>
  <2>1. SUFFICES ASSUME a # <<>> PROVE FALSE
    OBVIOUS
  <2>2. Consumed(b) = 0
    BY <1>5, ConsumedIs
  <2>3. Head(a).op # "delete" /\ Size(Head(a)) \in Nat \ {0} /\ Produced(Tail(a)) \in Nat
        /\ Produced(a) = Produces(Head(a)) + Produced(Tail(a)) /\ Head(a) \in Op
    BY <1>1, <1>3, <2>1 DEF At
  <2>4. Head(a).op \in {"retain", "insert"}
    BY <2>3 DEF Op
  <2>5. Produces(Head(a)) \in Nat \ {0}
    BY <2>3, <2>4 DEF Produces, Size
  <2>. QED
    BY <1>4, <2>2, <2>3, <2>5
<1>7. t = <<>>
  <2>1. Len(t) = 0
    BY <1>1, <1>6, ConsumedIs DEF Fits
  <2>. QED
    BY <1>1, <2>1, TextNil
<1>8. Run(t, a) = <<>> /\ Run(Run(t, a), b) = <<>>
  BY <1>5, <1>6, RunNil
<1>9. p \o <<>> = p /\ Run(p, out) \o <<>> = Run(p, out)
  BY <1>1, RunText, TextConcatNil
<1>. QED
  BY <1>1, <1>2, <1>7, <1>8, <1>9 DEF ComposesWell, s

\* The next k units that A puts out are w, made of the source characters x; v
\* is the rest of its output, made of y.
Feeds(t, a, k, x, y, w, v) ==
    /\ x \in Text /\ y \in Text /\ w \in Text /\ v \in Text
    /\ t = x \o y /\ Len(w) = k /\ Fits(y, Consume(a, k))
    /\ Run(t, a) = w \o v /\ v = Run(y, Consume(a, k))
    /\ Head(a).op = "retain" => x = w
    /\ Head(a).op = "insert" => x = <<>> /\ w = SubSeq(Head(a).chars, 1, k)

\* A first operation of A that deletes nothing produces text for B to read.
LEMMA ComposeSource ==
    ASSUME NEW t, NEW a, Normal(a), Fits(t, a), a # <<>>, ~At(a, "delete"),
           NEW k \in 0..Size(Head(a))
    PROVE  \E x, y, w, v : Feeds(t, a, k, x, y, w, v)
<1> DEFINE h == Head(a)
<1>1. a \in Seq(Op) /\ h \in Op /\ h.op \in {"retain", "insert"} /\ t \in Text /\ t \in Seq(Nat)
  <2>1. a \in Seq(Op) /\ h \in Op
    BY NormalTail
  <2>. QED
    BY <2>1 DEF At, Op, Fits, Text
<1>2. CASE h.op = "retain"
  <2>1. PICK X, Y \in Text : Takes(t, a, X, Y)
    BY FitsHead
  <2>2. Size(h) = Len(X)
    BY <1>2, <2>1 DEF Takes, Size, Consumes
  <2>3. Len(t) = Len(X) + Len(Y) /\ Len(X) \in Nat /\ Len(Y) \in Nat
    BY <2>1, TextConcat, TextNil DEF Takes
  <2>4. k \in 0..Len(t)
    BY <2>2, <2>3
  <2> DEFINE x == SubSeq(t, 1, k)
             y == SubSeq(t, k + 1, Len(t))
             v == Run(y, Consume(a, k))
  <2>5. x \in Text /\ y \in Text /\ t = x \o y /\ Len(x) = k
    BY <1>1, <2>4, Cut DEF Text
  <2> HIDE DEF x, y
  <2>6. Len(x) <= Size(Head(a)) /\ Head(a).op # "insert"
    BY <1>2, <2>5, <2>2, <2>3
  <2>7. Advances(t, a, x, y)
    BY <2>5, <2>6, ConsumeSource
  <2>8. Fits(y, Consume(a, k)) /\ Run(t, a) = x \o v
    BY <1>2, <2>5, <2>7 DEF Advances, ResultOf
  <2>9. v \in Text
    BY <2>8, RunText
  <2> HIDE DEF v
  <2>10. Feeds(t, a, k, x, y, x, v)
    BY <1>2, <2>5, <2>8, <2>9 DEF Feeds, v
  <2>. QED
    BY <2>10
<1>3. CASE h.op = "insert"
  <2> DEFINE w == SubSeq(Head(a).chars, 1, k)
             v == Run(t, Consume(a, k))
  <2>1. At(a, "insert")
    BY <1>3 DEF At
  <2>2. Fits(t, Consume(a, k)) /\ w \in Text /\ Len(w) = k /\ Run(t, a) = w \o v
    BY <2>1, ConsumeInsert
  <2>3. v \in Text /\ <<>> \in Text /\ t = <<>> \o t
    BY <1>1, <2>2, RunText, TextNil, TextConcatNil
  <2> HIDE DEF v
  <2>4. Feeds(t, a, k, <<>>, t, w, v)
    BY <1>1, <1>3, <2>2, <2>3 DEF Feeds, v
  <2>. QED
    BY <2>4
<1>. QED
  BY <1>1, <1>2, <1>3

\* The induction step: one turn of the loop shortens an operand.
LEMMA ComposedStep ==
    ASSUME NEW a \in Seq(Op), NEW b \in Seq(Op),
           \A c, d \in Seq(Op) : Len(c) + Len(d) < Len(a) + Len(b) => Composed(c, d)
    PROVE  Composed(a, b)
<1>1. SUFFICES ASSUME NEW t, NEW p, NEW out, Composes(p, t, Pair(a, b, out))
               PROVE  ComposesWell(t, a, b, p, out)
  BY DEF Composed
<1>2. Normal(a) /\ Fits(t, a) /\ Normal(b) /\ Fits(Run(t, a), b)
  BY <1>1, ComposesIs
<1>3. Len(a) \in Nat /\ Len(b) \in Nat
  OBVIOUS
<1>4. ASSUME NEW c \in Seq(Op), c # <<>>
      PROVE  Tail(c) \in Seq(Op) /\ Len(Tail(c)) \in Nat /\ Len(c) = Len(Tail(c)) + 1
  BY <1>4, HeadAndTail
<1>5. CASE At(b, "insert")
  <2>1. Composed(a, Tail(b))
    <3>1. Tail(b) \in Seq(Op) /\ Len(a) + Len(Tail(b)) < Len(a) + Len(b)
      BY <1>3, <1>4, <1>5 DEF At
    <3>. QED
      BY <3>1
  <2>2. Moves(t, a, b, p, out, <<>>, t, a, Tail(b), AddOp(out, Insert(Head(b).chars)), Head(b).chars)
    BY <1>1, <1>5, ComposeB
  <2>. QED
    BY <1>1, <2>1, <2>2, MovesWell
<1>6. CASE ~At(b, "insert") /\ At(a, "delete")
  <2>1. Composed(Tail(a), b)
    <3>1. Tail(a) \in Seq(Op) /\ Len(Tail(a)) + Len(b) < Len(a) + Len(b)
      BY <1>3, <1>4, <1>6 DEF At
    <3>. QED
      BY <3>1
  <2>2. PICK x, y \in Text : Takes(t, a, x, y)
    BY <1>2, <1>6, FitsHead DEF At
  <2>3. Moves(t, a, b, p, out, x, y, Tail(a), b, AddOp(out, Head(a)), <<>>)
    BY <1>1, <1>6, <2>2, ComposeA
  <2>. QED
    BY <1>1, <2>1, <2>3, MovesWell
<1>7. CASE ~At(b, "insert") /\ ~At(a, "delete") /\ a # <<>> /\ b # <<>>
  <2> DEFINE k == Shorter(Head(a), Head(b))
             c == Consume(a, k)
             d == Consume(b, k)
             o == ComposeOutput(Head(a), Head(b), k, out)
  <2>1. k \in 0..Size(Head(a)) /\ k \in Nat
    BY <1>7, ComposeHeads, ShorterIs, SMTT(40)
  <2>2. Composed(c, d)
    <3>1. c \in Seq(Op) /\ d \in Seq(Op) /\ Len(c) + Len(d) < Len(a) + Len(b)
      BY <1>7, <2>1, ConsumeShortens
    <3> HIDE DEF c, d
    <3>. QED
      BY <3>1
  <2>3. PICK x, y, w, v : Feeds(t, a, k, x, y, w, v)
    BY <1>2, <1>7, <2>1, ComposeSource
  <2> DEFINE e == ResultOf(w, Head(b))
  <2>4. Moves(t, a, b, p, out, x, y, c, d, o, e)
    <3> DEFINE j == k
    <3>1. j = Shorter(Head(a), Head(b))
      OBVIOUS
    <3>2. Moves(t, a, b, p, out, x, y, Consume(a, j), Consume(b, j),
                ComposeOutput(Head(a), Head(b), j, out), e)
      <4>1. Feeds(t, a, j, x, y, w, v)
        BY <2>3
      <4> HIDE DEF j
      <4>2. /\ x \in Text /\ y \in Text /\ w \in Text /\ v \in Text
            /\ t = x \o y /\ Len(w) = j /\ Fits(y, Consume(a, j))
            /\ Run(t, a) = w \o v /\ v = Run(y, Consume(a, j))
            /\ Head(a).op = "retain" => x = w
            /\ Head(a).op = "insert" => x = <<>> /\ w = SubSeq(Head(a).chars, 1, j)
        BY <4>1 DEF Feeds
      <4>. QED
        BY ONLY <1>1, <1>7, <3>1, <4>2, ComposeBoth
    <3>. QED
      BY <3>2
  <2> HIDE DEF c, d, o, e
  <2>. QED
    BY <1>1, <2>2, <2>4, MovesWell
<1>8. CASE ~At(b, "insert") /\ ~At(a, "delete") /\ (a = <<>> \/ b = <<>>)
  BY <1>1, <1>8, ComposeEnd
<1>. QED
  BY <1>5, <1>6, <1>7, <1>8

\* From every state the loop of Compose ends well.
LEMMA EveryPairComposes == \A a, b \in Seq(Op) : Composed(a, b)
<1> DEFINE T == {s \in Seq(Op) \X Seq(Op) : Composed(s[1], s[2])}
<1>1. ASSUME NEW a \in Seq(Op), NEW b \in Seq(Op) PROVE <<a, b>> \in T <=> Composed(a, b)
  OBVIOUS
<1> HIDE DEF T
<1>2. ASSUME NEW a \in Seq(Op), NEW b \in Seq(Op),
             \A c, d \in Seq(Op) : Len(c) + Len(d) < Len(a) + Len(b) => <<c, d>> \in T
      PROVE  <<a, b>> \in T
  <2>1. \A c, d \in Seq(Op) : Len(c) + Len(d) < Len(a) + Len(b) => Composed(c, d)
    BY <1>1, <1>2
  <2>2. Composed(a, b)
    BY <2>1, ComposedStep
  <2>. QED
    BY <1>1, <2>2
<1>3. \A a, b \in Seq(Op) : <<a, b>> \in T
  BY <1>2, PairInduction
<1>. QED
  BY <1>1, <1>3

\* Composition is sequential application: the composition of A and of a B made
\* for A's result is acceptable for A's source, and gives what B makes of A's
\* result (the comment of Compose, compose.go).
THEOREM ComposeSuits ==
    ASSUME NEW text, NEW A, NEW B, Suits(text, A), Suits(ApplyChangeset(text, A), B)
    PROVE  /\ Suits(text, Compose(A, B))
           /\ ApplyChangeset(text, Compose(A, B)) = ApplyChangeset(ApplyChangeset(text, A), B)
<1> DEFINE a == A.ops
           b == B.ops
           L == ComposeLoop[Pair(a, b, <<>>)]
<1>1. ApplyChangeset(text, A) = Run(text, a) /\ ApplyChangeset(ApplyChangeset(text, A), B) = Run(Run(text, a), b)
  BY ApplyIsRun
<1>2. /\ Normal(a) /\ Fits(text, a) /\ Normal(b) /\ Fits(Run(text, a), b)
      /\ A.old_len = Len(text) /\ B.new_len = Produced(b) /\ text \in Text /\ b \in Seq(Op) /\ a \in Seq(Op)
  BY <1>1 DEF Suits, Fits
<1>3. Compose(A, B) = [old_len |-> A.old_len, new_len |-> B.new_len, ops |-> L]
  BY DEF Compose, Pair
<1>4. Normal(<<>>) /\ Fits(<<>>, <<>>)
  BY TextNil, ConsumedIs DEF Normal, Fits
<1>5. Run(Run(text, a), b) \in Text /\ Len(Run(Run(text, a), b)) = B.new_len
  BY <1>2, RunText
<1> HIDE DEF a, b
<1>6. ComposesWell(text, a, b, <<>>, <<>>)
  <2>1. Composes(<<>>, text, Pair(a, b, <<>>))
    BY <1>2, <1>4 DEF Composes, Pair
  <2>. QED
    BY <1>2, <2>1, EveryPairComposes DEF Composed
<1> HIDE DEF L
<1>7. Normal(L) /\ Fits(text, L) /\ Run(text, L) = Run(Run(text, a), b)
  <2>1. /\ <<>> \o text = text /\ Run(<<>>, <<>>) = <<>>
        /\ <<>> \o Run(Run(text, a), b) = Run(Run(text, a), b)
    BY <1>2, <1>5, TextConcatNil, RunNil
  <2>. QED
    BY <1>6, <2>1 DEF ComposesWell, L
<1>8. L \in Seq(Op) /\ Produced(L) = B.new_len /\ B.new_len \in Nat
  <2>1. Produced(L) = Len(Run(text, L)) /\ L \in Seq(Op)
    BY <1>7, RunText DEF Fits
  <2>. QED
    BY <1>5, <1>7, <2>1, TextNil
<1>9. Suits(text, Compose(A, B))
  <2>1. Len(text) \in Nat
    BY <1>2, TextNil
  <2>. QED
    BY <1>2, <1>3, <1>7, <1>8, <2>1 DEF Suits, Changeset
<1>. QED
  BY <1>1, <1>3, <1>7, <1>9, ApplyIsRun

-------------------------------------------------------------------------------
(* The changesets of the constructors, and of the empty text.              *)

\* A retain of all of a text, left out where the text is empty.
Whole(k) == IF k > 0 THEN <<Retain(k)>> ELSE <<>>

\* They fit a text of k characters and keep it.
LEMMA WholeSuits ==
    ASSUME NEW C, NEW x \in Text
    PROVE  /\ Normal(Whole(Len(x))) /\ Fits(x, Whole(Len(x))) /\ Run(x, Whole(Len(x))) = x
           /\ Whole(Len(x)) \in Seq(OpsOver(C)) /\ ~At(Whole(Len(x)), "insert") /\ ~At(Whole(Len(x)), "delete")
<1> DEFINE n == Len(x)
           w == <<Retain(n)>>
<1>1. n \in Nat /\ (n = 0 => x = <<>>)
  BY TextNil
<1>2. CASE n = 0
  <2>1. Whole(n) = <<>>
    BY <1>2 DEF Whole
  <2>2. Normal(<<>>) /\ Fits(x, <<>>) /\ Run(x, <<>>) = x
    BY <1>1, <1>2, TextNil, ConsumedIs, RunNil DEF Normal, Fits
  <2>. QED
    BY <2>1, <2>2, EmptySeq DEF At
<1>3. CASE n # 0
  <2> HIDE DEF n
  <2>1. Whole(n) = w
    BY <1>1, <1>3 DEF Whole
  <2>2. Retain(n) \in Plain /\ Retain(n) \in Op
    BY <1>1, <1>3, PlainOps
  <2>3. Retain(n) \in OpsOver(C)
    BY <2>2, EmptySeq DEF OpsOver, Retain
  <2>4. w \in Seq(Plain) /\ Len(w) = 1 /\ w \in Seq(OpsOver(C)) /\ Head(w) = Retain(n)
    BY <2>2, <2>3
  <2>5. Consumes(Retain(n)) = n /\ ResultOf(x, Retain(n)) = x
    BY DEF Consumes, ResultOf, Retain
  <2>6. Fits(x, w) /\ Run(x, w) = x
    BY <1>1, <2>2, <2>5, RunOne DEF n
  <2>7. Normal(w)
    BY <2>4 DEF Normal
  <2>8. ~At(w, "insert") /\ ~At(w, "delete")
    BY <2>4 DEF At, Retain
  <2> HIDE DEF w
  <2>. QED
    BY <2>1, <2>4, <2>6, <2>7, <2>8 DEF n
<1>. QED
  BY <1>2, <1>3

\* One operation between two retains.
AroundIs(C, x, y, z, o) ==
    /\ Normal(Around(Len(x), o, Len(z)))
    /\ Fits((x \o y) \o z, Around(Len(x), o, Len(z)))
    /\ Run((x \o y) \o z, Around(Len(x), o, Len(z))) = (x \o ResultOf(y, o)) \o z
    /\ Around(Len(x), o, Len(z)) \in Seq(OpsOver(C))

\* This holds of every insert and delete in plain form.
LEMMA AroundSuits ==
    ASSUME NEW C, NEW x \in Text, NEW y \in Text, NEW z \in Text,
           NEW o \in Plain, o \in OpsOver(C), o.op \in {"insert", "delete"}, Len(y) = Consumes(o)
    PROVE  AroundIs(C, x, y, z, o)
<1> DEFINE u == Whole(Len(x))
           w == <<o>>
           v == Whole(Len(z))
<1>1. /\ Normal(u) /\ Fits(x, u) /\ Run(x, u) = x /\ u \in Seq(OpsOver(C))
      /\ ~At(u, "insert") /\ ~At(u, "delete")
  BY WholeSuits
<1>2. /\ Normal(v) /\ Fits(z, v) /\ Run(z, v) = z /\ v \in Seq(OpsOver(C))
      /\ ~At(v, "insert") /\ ~At(v, "delete")
  BY WholeSuits
<1>3. o \in Op /\ w \in Seq(OpsOver(C))
  BY PlainOps
<1>4. Fits(y, w) /\ Run(y, w) = ResultOf(y, o)
  BY <1>3, RunOne
<1>5. Around(Len(x), o, Len(z)) = (u \o w) \o v
  BY DEF Around, Whole
<1>6. u = <<>> \/ (Len(x) \in Nat /\ Len(x) > 0 /\ u = <<Retain(Len(x))>>)
  BY TextNil DEF Whole
<1> HIDE DEF u, v, w
<1>7. Fits(x \o y, u \o w) /\ Run(x \o y, u \o w) = x \o ResultOf(y, o)
  <2>1. Fits(x, u) /\ Fits(y, w)
    BY <1>1, <1>4
  <2>2. Fits(x \o y, u \o w) /\ Run(x \o y, u \o w) = Run(x, u) \o Run(y, w)
    BY ONLY <2>1, RunConcat
  <2>. QED
    BY <1>1, <1>4, <2>2
<1>8. Fits((x \o y) \o z, (u \o w) \o v) /\ Run((x \o y) \o z, (u \o w) \o v) = (x \o ResultOf(y, o)) \o z
  <2> DEFINE g == x \o y
             h == u \o w
  <2>1. Fits(g, h) /\ Run(g, h) = x \o ResultOf(y, o)
    BY <1>7
  <2> HIDE DEF g, h
  <2>2. Fits(g \o z, h \o v) /\ Run(g \o z, h \o v) = Run(g, h) \o Run(z, v)
    <3>1. Fits(g, h) /\ Fits(z, v)
      BY <1>2, <2>1
    <3>. QED
      BY ONLY <3>1, RunConcat
  <2>. QED
    BY <1>2, <2>1, <2>2 DEF g, h
<1>9. (u \o w) \o v \in Seq(OpsOver(C)) /\ (u \o w) \o v = u \o (w \o v)
  <2>1. u \o w \in Seq(OpsOver(C))
    BY <1>1, <1>3, ConcatProperties
  <2>. QED
    BY <1>1, <1>2, <1>3, <2>1, ConcatProperties, ConcatAssociative, SMTT(40)
<1>10. Normal(w \o v) /\ Head(w \o v) = o
  <2>1. Normal(<<o>> \o v)
    BY <1>2, NormalCons DEF At
  <2>2. v \in Seq(Plain)
    BY <1>2 DEF Normal
  <2>3. Head(<<o>> \o v) = o
    BY <2>2, ConsSeq
  <2>. QED
    BY <2>1, <2>3 DEF w
<1>11. Normal(u \o (w \o v))
  <2> DEFINE q == w \o v
  <2>1. Normal(q) /\ Head(q) = o
    BY <1>10
  <2> HIDE DEF q
  <2>2. CASE u = <<>>
    <3>1. <<>> \o q = q
      BY <2>1, ConcatEmptySeq DEF Normal
    <3>. QED
      BY <2>1, <2>2, <3>1 DEF q
  <2>3. CASE Len(x) \in Nat /\ Len(x) > 0 /\ u = <<Retain(Len(x))>>
    <3> DEFINE r == Retain(Len(x))
    <3>1. r \in Plain
      BY <2>3, PlainOps
    <3>2. Head(q).op # r.op
      BY <2>1 DEF Retain
    <3> HIDE DEF r
    <3>3. Normal(<<r>> \o q)
      BY <2>1, <3>1, <3>2, NormalCons
    <3>. QED
      BY <2>3, <3>3 DEF r, q
  <2>. QED
    BY <1>6, <2>2, <2>3
<1>. QED
  BY <1>5, <1>8, <1>9, <1>11 DEF AroundIs

\* MakeInsert and MakeDelete make changesets the server accepts.
LEMMA MakeInsertSuits ==
    ASSUME NEW C, C \subseteq Nat, NEW text \in Text, NEW pos \in 0..Len(text),
           NEW s \in Seq(C), s # <<>>
    PROVE  /\ Suits(text, MakeInsert(Len(text), pos, s))
           /\ MakeInsert(Len(text), pos, s).ops \in Seq(OpsOver(C))
<1> DEFINE x == SubSeq(text, 1, pos)
           z == SubSeq(text, pos + 1, Len(text))
           o == Insert(s)
           L == Around(pos, o, Len(text) - pos)
<1>1. x \in Text /\ z \in Text /\ text = x \o z /\ Len(x) = pos /\ Len(z) = Len(text) - pos
  BY Cut, ZenonT(40) DEF Text
<1>2. s \in Text /\ Len(s) \in Nat
  BY SeqMonotonic, TextNil DEF Text
<1>3. o \in Plain /\ o \in Op
  BY <1>2, PlainOps
<1>4. o.op = "insert" /\ o.chars = s
  BY DEF Insert
<1> HIDE DEF o, x, z
<1>5. o \in OpsOver(C) /\ Consumes(o) = 0 /\ ResultOf(<<>>, o) = s
  BY <1>3, <1>4 DEF OpsOver, Consumes, ResultOf
<1>6. <<>> \in Text /\ Len(<<>>) = 0 /\ x \o <<>> = x
  BY <1>1, TextNil, TextConcatNil
<1>7. AroundIs(C, x, <<>>, z, o)
  BY <1>1, <1>3, <1>4, <1>5, <1>6, AroundSuits
<1>8. Normal(L) /\ Fits(text, L) /\ L \in Seq(OpsOver(C)) /\ Run(text, L) = (x \o s) \o z
  BY <1>1, <1>5, <1>6, <1>7 DEF AroundIs
<1>9. Len((x \o s) \o z) = Len(text) + Len(s) /\ Len(text) \in Nat
  <2> DEFINE q == x \o s
  <2>1. q \in Text /\ Len(q) = pos + Len(s)
    BY <1>1, <1>2, TextConcat
  <2> HIDE DEF q
  <2>2. Len(q \o z) = Len(q) + Len(z)
    BY <1>1, <2>1, TextConcat
  <2>3. Len(text) \in Nat /\ pos \in Nat
    BY TextNil
  <2>. QED
    BY <1>1, <1>2, <2>1, <2>2, <2>3 DEF q
<1> HIDE DEF L
<1>10. Produced(L) = Len(text) + Len(s) /\ L \in Seq(Op)
  BY <1>8, <1>9, RunText DEF Fits
<1> DEFINE c == MakeInsert(Len(text), pos, s)
<1>11. c.ops = L /\ c.old_len = Len(text) /\ c.new_len = Len(text) + Len(s)
       /\ c = [old_len |-> Len(text), new_len |-> Len(text) + Len(s), ops |-> L]
  BY DEF MakeInsert, L, o
<1> HIDE DEF c
<1>12. c \in Changeset
  BY <1>2, <1>9, <1>10, <1>11 DEF Changeset
<1>13. Suits(text, c) /\ c.ops \in Seq(OpsOver(C))
  BY <1>8, <1>10, <1>11, <1>12 DEF Suits
<1>. QED
  BY <1>13 DEF c

\* MakeDelete (changeset.go) fits its text.
LEMMA MakeDeleteSuits ==
    ASSUME NEW C, NEW text \in Text, NEW pos \in Nat, NEW count \in Nat \ {0}, pos + count <= Len(text)
    PROVE  /\ Suits(text, MakeDelete(Len(text), pos, count))
           /\ MakeDelete(Len(text), pos, count).ops \in Seq(OpsOver(C))
<1> DEFINE r == SubSeq(text, pos + 1, Len(text))
           x == SubSeq(text, 1, pos)
           y == SubSeq(r, 1, count)
           z == SubSeq(r, count + 1, Len(r))
           n == Len(text)
           o == Delete(count)
           L == Around(pos, o, n - pos - count)
<1>1. n \in Nat
  BY TextNil
<1>2. x \in Text /\ r \in Text /\ text = x \o r /\ Len(x) = pos /\ Len(r) = n - pos
  <2>1. pos \in 0..Len(text)
    BY <1>1
  <2>. QED
    BY <2>1, Cut, ZenonT(40) DEF Text
<1> HIDE DEF r, x
<1>3. y \in Text /\ z \in Text /\ r = y \o z /\ Len(y) = count /\ Len(z) = Len(r) - count
  <2>1. count \in 0..Len(r)
    BY <1>1, <1>2
  <2>2. r \in Seq(Nat)
    BY <1>2 DEF Text
  <2>3. /\ y \in Seq(Nat) /\ z \in Seq(Nat) /\ r = y \o z
        /\ Len(y) = count /\ Len(z) = Len(r) - count
    <3> HIDE DEF n, o, L
    <3>1. r = SubSeq(r, 1, count) \o SubSeq(r, count + 1, Len(r))
      BY <2>1, <2>2, Cut
    <3>2. /\ SubSeq(r, 1, count) \in Seq(Nat) /\ Len(SubSeq(r, 1, count)) = count
          /\ SubSeq(r, count + 1, Len(r)) \in Seq(Nat)
          /\ Len(SubSeq(r, count + 1, Len(r))) = Len(r) - count
      BY <2>1, <2>2, Cut
    <3>. QED
      BY <3>1, <3>2
  <2>. QED
    BY <2>3 DEF Text
<1> HIDE DEF y, z
<1>4. o \in Plain /\ o \in Op
  BY PlainOps
<1>5. o.op = "delete" /\ o.chars = <<>> /\ o.n = count
  BY DEF Delete
<1> HIDE DEF o
<1>6. o \in OpsOver(C) /\ Consumes(o) = Len(y) /\ ResultOf(y, o) = <<>>
  BY <1>3, <1>4, <1>5, EmptySeq DEF OpsOver, Consumes, ResultOf
<1>7. AroundIs(C, x, y, z, o)
  BY <1>2, <1>3, <1>4, <1>5, <1>6, AroundSuits
<1>8. Len(z) = n - pos - count /\ (x \o y) \o z = text /\ x \o <<>> = x
  <2>1. (x \o y) \o z = x \o (y \o z)
    <3>1. x \in Text /\ y \in Text /\ z \in Text
      BY <1>2, <1>3
    <3>. QED
      BY ONLY <3>1, TextAssociative
  <2>. QED
    BY <1>1, <1>2, <1>3, <2>1, TextConcatNil
<1>9. Normal(L) /\ Fits(text, L) /\ L \in Seq(OpsOver(C)) /\ Run(text, L) = x \o z
  BY <1>2, <1>6, <1>7, <1>8 DEF AroundIs
<1>10. Len(x \o z) = n - count
  <2>1. Len(x \o z) = Len(x) + Len(z)
    BY <1>2, <1>3, TextConcat
  <2>. QED
    BY <1>1, <1>2, <1>8, <2>1
<1> HIDE DEF L
<1>11. Produced(L) = n - count /\ L \in Seq(Op) /\ n - count \in Nat
  BY <1>1, <1>9, <1>10, RunText DEF Fits
<1> DEFINE c == MakeDelete(Len(text), pos, count)
<1>12. c.ops = L /\ c.old_len = Len(text) /\ c.new_len = n - count
       /\ c = [old_len |-> n, new_len |-> n - count, ops |-> L]
  BY DEF MakeDelete, L, o
<1> HIDE DEF c
<1>13. c \in Changeset
  BY <1>1, <1>11, <1>12 DEF Changeset
<1>14. Suits(text, c) /\ c.ops \in Seq(OpsOver(C))
  BY <1>9, <1>11, <1>12, <1>13 DEF Suits
<1>. QED
  BY <1>14 DEF c

\* The A that handleConnectAck builds is the change from the empty text.
LEMMA TextSuits ==
    ASSUME NEW t \in Text
    PROVE  /\ Suits(<<>>, TextToChangeset(t))
           /\ ApplyChangeset(<<>>, TextToChangeset(t)) = t
<1> DEFINE c == TextToChangeset(t)
           w == <<Insert(t)>>
<1>1. <<>> \in Text /\ Len(<<>>) = 0 /\ Len(t) \in Nat
  BY TextNil
<1>2. CASE t = <<>>
  <2>1. c = [old_len |-> 0, new_len |-> 0, ops |-> <<>>]
    BY <1>1, <1>2 DEF TextToChangeset
  <2>2. Normal(<<>>) /\ Fits(<<>>, <<>>) /\ Run(<<>>, <<>>) = <<>> /\ <<>> \in Seq(Op)
    BY <1>1, ConsumedIs, RunNil DEF Normal, Fits
  <2>3. c.ops = <<>> /\ c.old_len = 0 /\ c.new_len = 0 /\ c \in Changeset
    BY <2>1, <2>2 DEF Changeset
  <2> HIDE DEF c
  <2>4. Suits(<<>>, c) /\ ApplyChangeset(<<>>, c) = t
    BY <1>1, <1>2, <2>2, <2>3, ProducedIs, ApplyIsRun DEF Suits
  <2>. QED
    BY <2>4 DEF c
<1>3. CASE t # <<>>
  <2>1. c = [old_len |-> 0, new_len |-> Len(t), ops |-> w]
    BY <1>3 DEF TextToChangeset
  <2>2. Insert(t) \in Plain /\ Insert(t) \in Op
    BY <1>3, PlainOps
  <2>3. w \in Seq(Plain) /\ Len(w) = 1 /\ w \in Seq(Op)
    BY <2>2
  <2>4. Normal(w)
    BY <2>3 DEF Normal
  <2>5. Consumes(Insert(t)) = 0 /\ Produces(Insert(t)) = Len(t) /\ ResultOf(<<>>, Insert(t)) = t
    BY DEF Consumes, Produces, ResultOf, Insert
  <2>6. Fits(<<>>, w) /\ Run(<<>>, w) = t /\ Produced(w) = Len(t)
    BY <1>1, <2>2, <2>5, RunOne, OneProduces
  <2>7. c.ops = w /\ c.old_len = 0 /\ c.new_len = Len(t) /\ c \in Changeset
    BY <1>1, <2>1, <2>3 DEF Changeset
  <2> HIDE DEF c, w
  <2>8. Suits(<<>>, c) /\ ApplyChangeset(<<>>, c) = t
    BY <1>1, <2>4, <2>6, <2>7, ApplyIsRun DEF Suits
  <2>. QED
    BY <2>8 DEF c
<1>. QED
  BY <1>2, <1>3

\* The change from the empty text is one insertion, of the whole result.
THEOREM OneInsert ==
    ASSUME NEW c, Suits(<<>>, c)
    PROVE  c = TextToChangeset(ApplyChangeset(<<>>, c))
<1> DEFINE ops == c.ops
           h == Head(ops)
           text == Run(<<>>, ops)
<1>1. /\ Normal(ops) /\ Fits(<<>>, ops) /\ c.old_len = 0 /\ c.new_len = Produced(ops)
      /\ c \in Changeset
  BY TextNil DEF Suits
<1>2. text \in Text /\ Len(text) = c.new_len /\ ApplyChangeset(<<>>, c) = text
  BY <1>1, RunText, ApplyIsRun
<1>3. c = [old_len |-> 0, new_len |-> c.new_len, ops |-> ops]
  BY <1>1 DEF Changeset
<1>4. ASSUME NEW q, Normal(q), Fits(<<>>, q), q # <<>> PROVE At(q, "insert")
  <2>1. Head(q) \in Plain /\ Head(q) \in Op /\ q \in Seq(Op)
    BY <1>4, NormalTail
  <2>2. Consumed(q) = Consumes(Head(q)) + Consumed(Tail(q)) /\ Consumed(Tail(q)) \in Nat
    BY <1>4, <2>1, ConsumedIs, HeadAndTail
  <2>3. Consumed(q) = 0
    BY <1>4, TextNil DEF Fits
  <2>4. Size(Head(q)) \in Nat \ {0} /\ Consumes(Head(q)) \in Nat
    BY <2>1, PlainOps, OpTypes
  <2>5. Consumes(Head(q)) = 0
    <3> DEFINE u == Consumes(Head(q))
               v == Consumed(Tail(q))
    <3>1. u \in Nat /\ v \in Nat /\ u + v = 0
      BY <2>2, <2>3, <2>4
    <3> HIDE DEF u, v
    <3>2. u = 0
      BY <3>1
    <3>. QED
      BY <3>2 DEF u
  <2>6. Head(q).op = "insert"
    BY <2>4, <2>5 DEF Consumes, Size
  <2>. QED
    BY <1>4, <2>6 DEF At
<1>5. CASE ops = <<>>
  <2>1. text = <<>>
    BY <1>5, RunNil
  <2>2. Len(text) = 0
    BY <2>1, TextNil
  <2> HIDE DEF ops, text
  <2>3. TextToChangeset(text) = [old_len |-> 0, new_len |-> Len(text), ops |-> <<>>]
    BY <2>1 DEF TextToChangeset
  <2>. QED
    BY <1>2, <1>3, <1>5, <2>3
<1>6. CASE ops # <<>>
  <2>1. At(ops, "insert")
    BY <1>1, <1>4, <1>6
  <2>2. /\ h = Insert(h.chars) /\ h.chars \in Text /\ h.chars # <<>>
        /\ Normal(Tail(ops)) /\ Fits(<<>>, Tail(ops)) /\ ~At(Tail(ops), "insert")
        /\ text = h.chars \o Run(<<>>, Tail(ops))
    BY <1>1, <2>1, FitsInsert
  <2>3. Tail(ops) = <<>>
    BY <1>4, <2>2
  <2>4. text = h.chars
    BY <2>2, <2>3, RunNil, TextConcatNil
  <2>5. ops = <<Insert(text)>>
    <3>1. h \in Op /\ ops = <<h>> \o <<>>
      <4>1. ops \in Seq(Op)
        BY <1>1 DEF Fits
      <4>. QED
        BY <1>6, <2>3, <4>1, HeadAndTail
    <3>2. <<h>> \o <<>> = <<h>>
      BY <3>1, ConcatEmptySeq
    <3> HIDE DEF text
    <3>. QED
      BY <2>2, <2>4, <3>1, <3>2
  <2> HIDE DEF ops, text
  <2>6. TextToChangeset(text) = [old_len |-> 0, new_len |-> Len(text), ops |-> <<Insert(text)>>]
    BY <2>2, <2>4 DEF TextToChangeset
  <2>. QED
    BY <1>2, <1>3, <2>5, <2>6
<1>. QED
  BY <1>5, <1>6

-------------------------------------------------------------------------------
(* A changeset of one insertion stays one: the text it inserts is never    *)
(* split, nor is any text deleted.                                         *)

\* Retains, and insertions of at least m characters.
LongInserts(m) ==
    {o \in Op : /\ o.op # "delete"
                /\ o.op = "retain" => o.chars = <<>>
                /\ o.op = "insert" => Len(o.chars) >= m}

\* Follow does not leave them.
LEMMA LongInsertsClosed ==
    ASSUME NEW m \in Nat
    PROVE  Closed(LongInserts(m))
<1>1. \A k \in Nat : Retain(k) \in LongInserts(m)
  BY OpsOf DEF LongInserts, Retain
<1>2. ASSUME NEW l \in LongInserts(m), NEW o \in LongInserts(m), l.op = o.op
      PROVE  Merge(l, o) \in LongInserts(m)
  <2> DEFINE x == l.chars
             y == o.chars
  <2>1. l \in Op /\ o \in Op /\ x \in Text /\ y \in Text
    BY DEF LongInserts, Op
  <2>2. Merge(l, o) \in Op /\ Merge(l, o).chars = x \o y /\ Merge(l, o).op = l.op
    BY <1>2, <2>1, MergeIs DEF Merge
  <2>3. /\ l.op # "delete"
        /\ l.op = "retain" => x = <<>> /\ y = <<>>
        /\ l.op = "insert" => Len(x) >= m
    BY <1>2 DEF LongInserts
  <2> HIDE DEF x, y
  <2>4. x \o y \in Text /\ Len(x \o y) = Len(x) + Len(y) /\ Len(x) \in Nat /\ Len(y) \in Nat
    BY <2>1, TextConcat, TextNil
  <2>5. l.op = "insert" => Len(x \o y) >= m
    BY <2>3, <2>4
  <2>6. l.op = "retain" => x \o y = <<>>
    BY <2>3, TextConcatNil, TextNil
  <2>. QED
    BY <2>2, <2>3, <2>5, <2>6 DEF LongInserts
<1>3. ASSUME NEW o \in LongInserts(m), o.op = "insert" PROVE Insert(o.chars) \in LongInserts(m)
  <2>1. o.chars \in Text /\ Len(o.chars) >= m
    BY <1>3 DEF LongInserts, Op
  <2>2. Insert(o.chars) \in Op /\ Insert(o.chars).chars = o.chars /\ Insert(o.chars).op = "insert"
    BY <2>1, OpsOf DEF Insert
  <2>. QED
    BY <2>1, <2>2 DEF LongInserts
<1>4. ASSUME NEW o \in LongInserts(m), o.op # "insert", NEW k \in 0..Size(o), k # Size(o)
      PROVE  Rest(o, k) \in LongInserts(m)
  <2>1. o \in Op /\ o.op = "retain" /\ o.chars = <<>>
    BY <1>4 DEF LongInserts, Op
  <2>2. Rest(o, k) \in Op /\ k \in Nat
    BY <1>4, <2>1, RestIs, OpTypes
  <2>3. Rest(o, k).op = "retain" /\ Rest(o, k).chars = <<>>
    BY <2>1, <2>2, TextNil DEF Rest
  <2>. QED
    BY <2>2, <2>3 DEF LongInserts
<1>. QED
  BY <1>1, <1>2, <1>3, <1>4 DEF Closed, LongInserts

\* What operations on the text p do that insert as little as they can: nothing,
\* or one insertion, of m characters.
InsertsAt(p, ops, m) ==
    /\ Inserted(ops) = <<>> => Run(p, ops) = p
    /\ Len(Inserted(ops)) = m =>
          \E x, y \in Text : p = x \o y /\ Run(p, ops) = (x \o Inserted(ops)) \o y

\* A retain in front moves the place.
LEMMA InsertsAtRetain ==
    ASSUME NEW m \in Nat, NEW p, NEW q, Fits(p, q), q # <<>>, Head(q).op = "retain",
           Head(q) \in LongInserts(m),
           \A y \in Text : Fits(y, Tail(q)) => InsertsAt(y, Tail(q), m)
    PROVE  InsertsAt(p, q, m)
<1> DEFINE h == Head(q)
           r == Tail(q)
           w == Inserted(q)
<1>1. PICK x \in Text, y \in Text : Takes(p, q, x, y)
  BY FitsHead
<1>2. p = x \o y /\ Fits(y, r) /\ Run(p, q) = x \o Run(y, r)
  BY <1>1 DEF Takes, ResultOf
<1>3. w = Inserted(r) /\ w \in Text
  <2>1. q \in Seq(Op) /\ r \in Seq(Op) /\ h.chars = <<>>
    BY HeadTailProperties DEF Fits, LongInserts
  <2> DEFINE z == Inserted(r)
  <2>2. z \in Text /\ w = <<>> \o z /\ w \in Text
    BY <2>1, InsertedIs
  <2> HIDE DEF z, w
  <2>3. w = z
    BY <2>2, TextConcatNil
  <2>. QED
    BY <2>2, <2>3 DEF z
<1>4. InsertsAt(y, r, m)
  BY <1>2
<1> HIDE DEF h, r, w
<1>5. w = <<>> => Run(p, q) = p
  BY <1>2, <1>3, <1>4 DEF InsertsAt
<1>6. ASSUME Len(w) = m
      PROVE  \E u, v \in Text : p = u \o v /\ Run(p, q) = (u \o w) \o v
  <2>1. PICK c \in Text, d \in Text : y = c \o d /\ Run(y, r) = (c \o w) \o d
    BY <1>3, <1>4, <1>6 DEF InsertsAt
  <2>2. x \o (c \o d) = (x \o c) \o d /\ x \o c \in Text /\ c \o w \in Text
    BY <1>3, TextAssociative, TextConcat, SMTT(40)
  <2>3. x \o ((c \o w) \o d) = (x \o (c \o w)) \o d
    <3> DEFINE cw == c \o w
    <3>1. cw \in Text
      BY <2>2
    <3> HIDE DEF cw
    <3>2. x \o (cw \o d) = (x \o cw) \o d
      BY <3>1, TextAssociative, SMTT(40)
    <3>. QED
      BY <3>2 DEF cw
  <2>4. x \o (c \o w) = (x \o c) \o w
    BY <1>3, TextAssociative, SMTT(40)
  <2> DEFINE u == x \o c
  <2>5. u \in Text /\ p = u \o d /\ Run(p, q) = (u \o w) \o d
    BY <1>2, <2>1, <2>2, <2>3, <2>4
  <2>. QED
    BY <2>5
<1>. QED
  BY <1>5, <1>6 DEF InsertsAt, w

\* An insert in front is the one place.
LEMMA InsertsAtInsert ==
    ASSUME NEW m \in Nat \ {0}, NEW p, NEW q, Fits(p, q), q # <<>>, Head(q).op = "insert",
           Head(q) \in LongInserts(m),
           \A y \in Text : Fits(y, Tail(q)) => InsertsAt(y, Tail(q), m)
    PROVE  InsertsAt(p, q, m)
<1> DEFINE h == Head(q)
           r == Tail(q)
           s == h.chars
           z == Inserted(r)
           w == Inserted(q)
<1>1. PICK x \in Text, y \in Text : Takes(p, q, x, y)
  BY FitsHead
<1>2. p = x \o y /\ Len(x) = 0 /\ Fits(y, r) /\ Run(p, q) = s \o Run(y, r)
  BY <1>1 DEF Takes, ResultOf, Consumes
<1>3. x = <<>> /\ p = y
  BY <1>2, TextNil, TextConcatNil
<1>4. s \in Text /\ Len(s) >= m /\ z \in Text /\ w = s \o z /\ Len(w) = Len(s) + Len(z)
  <2>1. q \in Seq(Op) /\ r \in Seq(Op) /\ s \in Text /\ Len(s) >= m
    BY HeadTailProperties DEF Fits, LongInserts, Op
  <2>2. z \in Text /\ w = s \o z
    BY <2>1, InsertedIs
  <2> HIDE DEF s, z, w
  <2>. QED
    BY <2>1, <2>2, TextConcat
<1>5. InsertsAt(y, r, m)
  BY <1>2
<1> HIDE DEF h, r, s, w
<1>6. Len(s) \in Nat /\ Len(z) \in Nat /\ Len(w) >= m /\ w # <<>>
  BY <1>4, TextNil
<1>7. ASSUME Len(w) = m
      PROVE  \E u, v \in Text : p = u \o v /\ Run(p, q) = (u \o w) \o v
  <2>1. Len(z) = 0
    BY <1>4, <1>6, <1>7
  <2>2. z = <<>>
    BY <1>4, <2>1, TextNil
  <2>3. Run(y, r) = y
    BY <1>5, <2>2 DEF InsertsAt, z
  <2>4. w = s
    BY <1>4, <2>2, TextConcatNil
  <2>5. p = <<>> \o y /\ <<>> \o w = w /\ <<>> \in Text /\ y \in Text
    BY <1>3, <1>4, <2>4, TextConcatNil, TextNil
  <2>6. Run(p, q) = (<<>> \o w) \o y
    BY <1>2, <2>3, <2>4, <2>5
  <2>. QED
    BY <2>5, <2>6
<1>. QED
  BY <1>6, <1>7 DEF InsertsAt, w

\* A changeset that inserts a text, in pieces no shorter than it, inserts it at
\* one place.
LEMMA OneInsertion ==
    ASSUME NEW text, NEW c, Suits(text, c), Inserted(c.ops) # <<>>,
           c.ops \in Seq(LongInserts(Len(Inserted(c.ops))))
    PROVE  \E i \in 0..Len(text) :
              ApplyChangeset(text, c)
                  = (SubSeq(text, 1, i) \o Inserted(c.ops)) \o SubSeq(text, i + 1, Len(text))
<1> DEFINE w == Inserted(c.ops)
           m == Len(w)
           S == LongInserts(m)
           T == {q \in Seq(S) : \A p \in Text : Fits(p, q) => InsertsAt(p, q, m)}
<1>1. c.ops \in Seq(Op) /\ Fits(text, c.ops) /\ text \in Text
  BY DEF Suits, Fits
<1>2. w \in Text /\ m \in Nat \ {0}
  <2>1. w \in Text
    BY <1>1, InsertedIs
  <2> HIDE DEF w
  <2>. QED
    BY <2>1, TextNil DEF w
<1>3. <<>> \in T
  <2>1. \A p \in Text : Run(p, <<>>) = <<>>
    BY RunNil
  <2>2. \A p \in Text : Fits(p, <<>>) => p = <<>>
    BY ConsumedIs, TextNil DEF Fits
  <2>3. Inserted(<<>>) = <<>> /\ Len(<<>>) # m
    BY <1>2, InsertedIs, TextNil
  <2>4. <<>> \in Seq(S)
    BY EmptySeq
  <2> HIDE DEF m
  <2>5. \A p \in Text : Fits(p, <<>>) => InsertsAt(p, <<>>, m)
    BY <2>1, <2>2, <2>3 DEF InsertsAt
  <2>. QED
    BY <2>4, <2>5
<1>4. ASSUME NEW q \in Seq(S), q # <<>>, Tail(q) \in T PROVE q \in T
  <2>1. SUFFICES ASSUME NEW p \in Text, Fits(p, q) PROVE InsertsAt(p, q, m)
    OBVIOUS
  <2>2. Head(q) \in S
    BY <1>4, HeadAndTail
  <2>3. Head(q).op \in {"retain", "insert"}
    BY <2>2 DEF LongInserts, Op
  <2>4. \A y \in Text : Fits(y, Tail(q)) => InsertsAt(y, Tail(q), m)
    BY <1>4
  <2> HIDE DEF T, m
  <2>5. CASE Head(q).op = "retain"
    BY <1>2, <1>4, <2>1, <2>2, <2>4, <2>5, InsertsAtRetain
  <2>6. CASE Head(q).op = "insert"
    BY <1>2, <1>4, <2>1, <2>2, <2>4, <2>6, InsertsAtInsert
  <2>. QED
    BY <2>3, <2>5, <2>6
<1>5. \A q \in Seq(S) : q \in T
  <2> HIDE DEF S, T
  <2>. QED
    BY <1>3, <1>4, ListInduction
<1>6. InsertsAt(text, c.ops, m)
  BY <1>1, <1>5
<1>7. PICK x \in Text, y \in Text : text = x \o y /\ Run(text, c.ops) = (x \o w) \o y
  BY <1>6 DEF InsertsAt
<1>8. /\ Len(x) \in 0..Len(text)
      /\ x = SubSeq(text, 1, Len(x)) /\ y = SubSeq(text, Len(x) + 1, Len(text))
  <2>1. x \in Seq(Nat) /\ y \in Seq(Nat)
    BY DEF Text
  <2> HIDE DEF w
  <2>. QED
    BY <1>7, <2>1, Cut
<1> HIDE DEF w
<1>9. ApplyChangeset(text, c) = (x \o w) \o y
  BY <1>7, ApplyIsRun
<1>. QED
  BY <1>8, <1>9 DEF w

-------------------------------------------------------------------------------
(* applyChangeset of the browser.                                          *)

ClientPiece(text, pos, o) ==
    CASE o.op = "retain" -> Slice(text, pos, o.n)
      [] o.op = "insert" -> o.chars
      [] o.op = "delete" -> <<>>

\* f is the loop of applyChangeset on this text.
IsClientResult(f, text) ==
    \A s \in Readers :
        f[s] = IF s.ops = <<>> THEN <<>>
               ELSE ClientPiece(text, s.srcPos, Head(s.ops))
                       \o f[[srcPos |-> s.srcPos + Consumes(Head(s.ops)), ops |-> Tail(s.ops)]]

\* A slice is of the text's characters, and is all of the part that is asked for
\* if that ends in the text.
LEMMA SliceIs ==
    ASSUME NEW C, C \subseteq Nat, NEW text \in Seq(C), NEW pos \in Nat, NEW o \in Op,
           o.chars \in Seq(C)
    PROVE  /\ ClientPiece(text, pos, o) \in Seq(C)
           /\ pos + Consumes(o) <= Len(text) => ClientPiece(text, pos, o) = Piece(text, pos, o)
<1>1. /\ o.n \in Nat /\ o.op \in {"retain", "insert", "delete"}
      /\ Len(text) \in Nat
      /\ \A i \in 1..Len(text) : text[i] \in C
  BY ElementOfSeq DEF Op
<1>2. Slice(text, pos, o.n) \in Seq(C)
  <2> DEFINE m == IF pos + o.n < Len(text) THEN pos + o.n ELSE Len(text)
  <2>1. /\ pos + 1 \in Int /\ m \in Int
        /\ \A i \in pos + 1 .. m : text[i] \in C
    BY <1>1
  <2>2. Slice(text, pos, o.n) = SubSeq(text, pos + 1, m)
    BY DEF Slice
  <2> HIDE DEF m
  <2>. QED
    BY <2>1, <2>2, SubSeqProperties
<1>3. ASSUME pos + o.n <= Len(text) PROVE Slice(text, pos, o.n) = SubSeq(text, pos + 1, pos + o.n)
  BY <1>1, <1>3 DEF Slice
<1>. QED
  BY <1>1, <1>2, <1>3, EmptySeq DEF ClientPiece, Piece, Consumes

\* applyChangeset (client.js) is the loop over its operations from position 0.
LEMMA ClientApplyIs ==
    ASSUME NEW text \in Text
    PROVE  \E f : /\ IsClientResult(f, text)
                  /\ \A c : applyChangeset(text, c) = f[[srcPos |-> 0, ops |-> c.ops]]
<1> DEFINE V == Seq(Nat)
           D == Readers
           rest(s) == [srcPos |-> s.srcPos + Consumes(Head(s.ops)), ops |-> Tail(s.ops)]
           next(f, s) == IF s.ops = <<>> THEN <<>>
                         ELSE ClientPiece(text, s.srcPos, Head(s.ops)) \o f[rest(s)]
           result == CHOOSE f : f = [s \in D |-> next(f, s)]
           mu == [s \in D |-> Len(s.ops)]
           Phi == [f \in [D -> V] |-> [s \in D |-> next(f, s)]]
<1>1. ASSUME NEW srcPos \in Nat, NEW o \in Op
      PROVE  ClientPiece(text, srcPos, o) \in V
  BY SliceIs DEF Op, Text
<1>2. ASSUME NEW s \in D, s.ops # <<>>
      PROVE  Head(s.ops) \in Op /\ rest(s) \in D /\ mu[rest(s)] < mu[s]
  <2>1. s.ops \in Seq(Op) /\ s.srcPos \in Nat
    BY DEF Readers
  <2>2. Head(s.ops) \in Op /\ Tail(s.ops) \in Seq(Op) /\ Len(Tail(s.ops)) < Len(s.ops)
    BY <1>2, <2>1, HeadTailProperties, LenProperties
  <2>3. s.srcPos + Consumes(Head(s.ops)) \in Nat
    BY <2>1, <2>2, OpTypes
  <2>4. rest(s) \in D
    BY <2>2, <2>3 DEF Readers
  <2>. QED
    BY <2>2, <2>4
<1>3. ASSUME NEW f \in [D -> V], NEW s \in D
      PROVE  next(f, s) \in V
  <2>1. CASE s.ops = <<>>
    BY <2>1, EmptySeq
  <2>2. CASE s.ops # <<>>
    <3>1. rest(s) \in D /\ Head(s.ops) \in Op /\ s.srcPos \in Nat
      BY <1>2, <2>2 DEF Readers
    <3> HIDE DEF V, rest, D
    <3>2. ClientPiece(text, s.srcPos, Head(s.ops)) \in V /\ f[rest(s)] \in V
      BY <1>1, <3>1
    <3>. QED
      BY <2>2, <3>2, ConcatProperties DEF V
  <2>. QED
    BY <2>1, <2>2
<1>4. PICK f \in [D -> V] : Phi[f] = f
  <2>1. V # {}
    BY EmptySeq
  <2>2. mu \in [D -> Nat]
    BY LenProperties DEF Readers
  <2>3. Phi \in [[D -> V] -> [D -> V]]
    <3> HIDE DEF D, V, next
    <3>. QED
      BY <1>3
  <2>4. ASSUME NEW f \in [D -> V], NEW h \in [D -> V], NEW s \in D,
               \A x \in D : mu[x] < mu[s] => f[x] = h[x]
        PROVE  Phi[f][s] = Phi[h][s]
    <3>1. next(f, s) = next(h, s)
      <4> HIDE DEF D, V, mu, rest
      <4>. QED
        BY <1>2, <2>4
    <3> HIDE DEF D, V, next
    <3>. QED
      BY <3>1
  <2>5. Descends(D, V, mu, Phi)
    <3> HIDE DEF D, V, mu, Phi
    <3>. QED
      BY <2>1, <2>2, <2>3, <2>4 DEF Descends
  <2> HIDE DEF D, V, mu, Phi
  <2>. QED
    BY <2>5, Recursion
<1>5. f = [s \in D |-> next(f, s)]
  <2> HIDE DEF V, next
  <2>. QED
    BY <1>4
<1>6. result = [s \in D |-> next(result, s)]
  <2> HIDE DEF next
  <2>. QED
    BY <1>5
<1>7. \A c : applyChangeset(text, c) = result[[srcPos |-> 0, ops |-> c.ops]]
  BY DEF applyChangeset, ClientPiece, Readers
<1>8. \A s \in D : result[s] = next(result, s)
  <2> HIDE DEF next
  <2>. QED
    BY <1>6
<1> HIDE DEF result
<1>. QED
  BY <1>7, <1>8 DEF IsClientResult

\* Whatever its operations, applyChangeset makes a text of the characters that it
\* is given.
LEMMA ClientApplyOver ==
    ASSUME NEW C, C \subseteq Nat, NEW text \in Seq(C), NEW c, c.ops \in Seq(OpsOver(C))
    PROVE  applyChangeset(text, c) \in Seq(C)
<1>0. text \in Text
  BY SeqMonotonic DEF Text
<1>1. PICK f : /\ IsClientResult(f, text)
               /\ \A d : applyChangeset(text, d) = f[[srcPos |-> 0, ops |-> d.ops]]
  BY <1>0, ClientApplyIs
<1> DEFINE at(j, q) == [srcPos |-> j, ops |-> q]
           T == {q \in Seq(OpsOver(C)) : \A j \in Nat : f[at(j, q)] \in Seq(C)}
<1>2. OpsOver(C) \subseteq Op
  BY DEF OpsOver
<1>3. \A j \in Nat, q \in Seq(OpsOver(C)) : at(j, q) \in Readers
  <2>1. Seq(OpsOver(C)) \subseteq Seq(Op)
    BY <1>2, SeqMonotonic
  <2>. QED
    BY <2>1 DEF Readers
<1>4. <<>> \in T
  <2>1. <<>> \in Seq(OpsOver(C)) /\ <<>> \in Seq(C)
    BY EmptySeq
  <2>2. ASSUME NEW j \in Nat PROVE f[at(j, <<>>)] = <<>>
    BY <1>1, <1>3, <2>1, Zenon DEF IsClientResult
  <2>. QED
    BY <2>1, <2>2
<1>5. ASSUME NEW q \in Seq(OpsOver(C)), q # <<>>, Tail(q) \in T PROVE q \in T
  <2>1. SUFFICES ASSUME NEW j \in Nat PROVE f[at(j, q)] \in Seq(C)
    OBVIOUS
  <2> DEFINE h == Head(q)
             k == Consumes(h)
  <2>2. h \in OpsOver(C) /\ h \in Op
    BY <1>2, <1>5, HeadTailProperties
  <2>3. k \in Nat
    BY <2>2, OpTypes
  <2>4. f[at(j, q)] = ClientPiece(text, j, h) \o f[at(j + k, Tail(q))]
    BY <1>1, <1>3, <1>5 DEF IsClientResult
  <2>5. ClientPiece(text, j, h) \in Seq(C)
    BY <2>2, SliceIs DEF OpsOver
  <2>6. f[at(j + k, Tail(q))] \in Seq(C)
    <3>1. j + k \in Nat
      BY <2>3
    <3> HIDE DEF k, at
    <3>. QED
      BY <1>5, <3>1
  <2> HIDE DEF at, h, k
  <2>. QED
    BY <2>4, <2>5, <2>6, ConcatProperties
<1> HIDE DEF T
<1>6. \A q \in Seq(OpsOver(C)) : q \in T
  BY <1>4, <1>5, ListInduction
<1>7. f[at(0, c.ops)] \in Seq(C)
  BY <1>6 DEF T
<1>. QED
  BY <1>1, <1>7

\* On a changeset that fits, both implementations make the same text.
LEMMA ClientApplySame ==
    ASSUME NEW text, NEW c, Fits(text, c.ops)
    PROVE  applyChangeset(text, c) = ApplyChangeset(text, c)
<1>0. text \in Text /\ c.ops \in Seq(Op) /\ Consumed(c.ops) = Len(text) /\ Len(text) \in Nat
  BY LenProperties DEF Fits, Text
<1>1. PICK f : /\ IsClientResult(f, text)
               /\ \A d : applyChangeset(text, d) = f[[srcPos |-> 0, ops |-> d.ops]]
  BY <1>0, ClientApplyIs
<1>2. PICK g : /\ IsResult(g, text)
               /\ \A d : ApplyChangeset(text, d) = g[[srcPos |-> 0, ops |-> d.ops]]
  BY ApplyIs
<1> DEFINE at(j, q) == [srcPos |-> j, ops |-> q]
           T == {q \in Seq(Op) : \A j \in Nat : j + Consumed(q) = Len(text) => f[at(j, q)] = g[at(j, q)]}
<1>3. \A j \in Nat, q \in Seq(Op) : at(j, q) \in Readers
  BY DEF Readers
<1>4. <<>> \in T
  <2>1. <<>> \in Seq(Op)
    BY EmptySeq
  <2>2. ASSUME NEW j \in Nat PROVE f[at(j, <<>>)] = g[at(j, <<>>)]
    <3>1. f[at(j, <<>>)] = <<>>
      BY <1>1, <1>3, <2>1, Zenon DEF IsClientResult
    <3>2. g[at(j, <<>>)] = <<>>
      BY <1>2, <1>3, <2>1, Zenon DEF IsResult
    <3>. QED
      BY <3>1, <3>2
  <2>. QED
    BY <2>1, <2>2
<1>5. ASSUME NEW q \in Seq(Op), q # <<>>, Tail(q) \in T PROVE q \in T
  <2>1. SUFFICES ASSUME NEW j \in Nat, j + Consumed(q) = Len(text) PROVE f[at(j, q)] = g[at(j, q)]
    OBVIOUS
  <2> DEFINE h == Head(q)
             k == Consumes(h)
  <2>2. h \in Op /\ Tail(q) \in Seq(Op)
    BY <1>5, HeadTailProperties
  <2>3. k \in Nat /\ Consumed(q) = k + Consumed(Tail(q)) /\ Consumed(Tail(q)) \in Nat
    BY <1>5, <2>2, OpTypes, ConsumedIs
  <2>4. f[at(j, q)] = ClientPiece(text, j, h) \o f[at(j + k, Tail(q))]
    BY <1>1, <1>3, <1>5 DEF IsClientResult
  <2>5. g[at(j, q)] = Piece(text, j, h) \o g[at(j + k, Tail(q))]
    BY <1>2, <1>3, <1>5 DEF IsResult
  <2>6. f[at(j + k, Tail(q))] = g[at(j + k, Tail(q))]
    <3>1. j + k \in Nat /\ j + k + Consumed(Tail(q)) = Len(text)
      BY <1>0, <2>1, <2>3
    <3> HIDE DEF k, at
    <3>. QED
      BY <1>5, <3>1
  <2>7. ClientPiece(text, j, h) = Piece(text, j, h)
    <3>1. j + k <= Len(text)
      BY <1>0, <2>1, <2>3
    <3>2. h.chars \in Seq(Nat) /\ text \in Seq(Nat)
      BY <1>0, <2>2 DEF Op, Text
    <3>. QED
      BY <2>2, <3>1, <3>2, SliceIs
  <2>. QED
    BY <2>4, <2>5, <2>6, <2>7
<1> HIDE DEF T
<1>6. \A q \in Seq(Op) : q \in T
  BY <1>4, <1>5, ListInduction
<1>7. f[at(0, c.ops)] = g[at(0, c.ops)]
  BY <1>0, <1>6 DEF T
<1>. QED
  BY <1>1, <1>2, <1>7

-------------------------------------------------------------------------------
(* How often a character occurs in what changesets make.                   *)

\* How often the character l is in a text.
Times(l, t) == Cardinality({i \in DOMAIN t : t[i] = l})

\* The places of a character in a text.
LEMMA TimesIs ==
    ASSUME NEW l, NEW t \in Text
    PROVE  /\ IsFiniteSet({i \in DOMAIN t : t[i] = l})
           /\ Times(l, t) \in Nat /\ Times(l, t) <= Len(t)
<1> DEFINE P == {i \in DOMAIN t : t[i] = l}
           D == 1..Len(t)
<1>1. Len(t) \in Nat /\ DOMAIN t = 1..Len(t)
  BY DEF Text
<1>2. IsFiniteSet(D) /\ Cardinality(D) = Len(t)
  <2>1. 1 \in Int /\ Len(t) \in Int /\ (1 > Len(t) => Len(t) = 0) /\ Len(t) - 1 + 1 = Len(t)
    BY <1>1
  <2>2. IsFiniteSet(D) /\ Cardinality(D) = IF 1 > Len(t) THEN 0 ELSE Len(t) - 1 + 1
    BY <2>1, FS_Interval
  <2>. QED
    BY <2>1, <2>2
<1>3. P \in SUBSET D
  BY <1>1
<1> HIDE DEF P, D
<1>4. IsFiniteSet(P) /\ Cardinality(P) <= Cardinality(D)
  BY <1>2, <1>3, FS_Subset
<1>5. Cardinality(P) \in Nat
  BY <1>4, FS_CardinalityType
<1>. QED
  BY <1>2, <1>4, <1>5 DEF Times, P

\* Of a text put together, it has as many as its parts.
LEMMA TimesConcat ==
    ASSUME NEW l, NEW u \in Text, NEW v \in Text
    PROVE  Times(l, u \o v) = Times(l, u) + Times(l, v)
<1> DEFINE n == Len(u)
           m == Len(v)
           w == u \o v
           P == {i \in DOMAIN u : u[i] = l}
           Q == {i \in DOMAIN v : v[i] = l}
           R == {i \in n + 1..n + m : w[i] = l}
           W == {i \in DOMAIN w : w[i] = l}
<1>1. /\ n \in Nat /\ m \in Nat /\ DOMAIN u = 1..n /\ DOMAIN v = 1..m /\ DOMAIN w = 1..n + m
      /\ \A i \in 1..n : w[i] = u[i]
      /\ \A i \in 1..m : w[n + i] = v[i]
  <2>1. n \in Nat /\ m \in Nat /\ DOMAIN u = 1..n /\ DOMAIN v = 1..m /\ w \in Text /\ Len(w) = n + m
    BY DEF Text
  <2>2. DOMAIN w = 1..n + m
    BY <2>1 DEF Text
  <2>. QED
    BY <2>1, <2>2, ConcatProperties DEF Text
<1> HIDE DEF n, m, w
<1>2. W = P \cup R
  <2>1. \A i : i \in 1..n + m <=> i \in 1..n \/ i \in n + 1..n + m
    BY <1>1
  <2>. QED
    BY <1>1, <2>1
<1>3. P \cap R = {}
  <2>1. \A i : ~(i \in 1..n /\ i \in n + 1..n + m)
    BY <1>1
  <2>. QED
    BY <1>1, <2>1
<1>4. IsFiniteSet(P) /\ IsFiniteSet(Q) /\ Cardinality(P) \in Nat /\ Cardinality(Q) \in Nat
  BY TimesIs DEF Times
<1>5. IsFiniteSet(R) /\ Cardinality(R) = Cardinality(Q)
  <2> DEFINE f == [i \in Q |-> n + i]
  <2>1. \A i \in Q : i \in 1..m /\ n + i \in n + 1..n + m /\ w[n + i] = l
    BY <1>1
  <2>2. \A j \in R : j \in n + 1..n + m /\ j - n \in 1..m /\ v[j - n] = l /\ n + (j - n) = j
    <3>1. ASSUME NEW j \in R PROVE j \in n + 1..n + m /\ j - n \in 1..m /\ n + (j - n) = j
      BY <1>1
    <3>. QED
      BY <1>1, <3>1
  <2>3. f \in [Q -> R]
    BY <2>1
  <2>4. \A i, j \in Q : f[i] = f[j] => i = j
    BY <1>1, <2>1
  <2>5. \A j \in R : \E i \in Q : f[i] = j
    <3>1. ASSUME NEW j \in R PROVE j - n \in Q /\ f[j - n] = j
      BY <1>1, <2>2
    <3>. QED
      BY <3>1
  <2> HIDE DEF f, Q, R
  <2>6. f \in Bijection(Q, R)
    BY <2>3, <2>4, <2>5 DEF Bijection, Injection, Surjection, IsInjective
  <2>7. ExistsBijection(Q, R)
    BY <2>6 DEF ExistsBijection
  <2>. QED
    BY <1>4, <2>7, FS_Bijection
<1> HIDE DEF P, Q, R, W
<1>6. Cardinality(P \cup R) = Cardinality(P) + Cardinality(R) - Cardinality({})
  BY <1>3, <1>4, <1>5, FS_Union
<1>7. Cardinality({}) = 0
  BY FS_EmptySet
<1>8. Cardinality(W) = Cardinality(P) + Cardinality(Q)
  BY <1>2, <1>4, <1>5, <1>6, <1>7
<1>. QED
  BY <1>8 DEF Times, W, P, Q, w

\* The empty text has none, and a character has itself.
LEMMA TimesOne ==
    ASSUME NEW l
    PROVE  /\ Times(l, <<>>) = 0
           /\ \A e \in Nat : Times(l, <<e>>) = IF e = l THEN 1 ELSE 0
<1>1. {i \in DOMAIN <<>> : (<<>>)[i] = l} = {}
  <2>1. DOMAIN <<>> = {}
    OBVIOUS
  <2>. QED
    BY <2>1
<1>2. ASSUME NEW e \in Nat
      PROVE  {i \in DOMAIN <<e>> : (<<e>>)[i] = l} = IF e = l THEN {1} ELSE {}
  <2>1. DOMAIN <<e>> = {1} /\ (<<e>>)[1] = e
    OBVIOUS
  <2>. QED
    BY <2>1
<1>3. Cardinality({}) = 0 /\ Cardinality({1}) = 1
  BY FS_EmptySet, FS_Singleton
<1>. QED
  BY <1>1, <1>2, <1>3 DEF Times

\* What an operation makes of the characters it consumes has no more of any
\* character than these have, and it inserts.
LEMMA TimesResult ==
    ASSUME NEW l, NEW x \in Text, NEW o \in Op, Len(x) = Consumes(o)
    PROVE  /\ ResultOf(x, o) \in Text /\ Times(l, ResultOf(x, o)) \in Nat
           /\ Times(l, ResultOf(x, o)) <= Times(l, x) + Len(o.chars)
<1>1. /\ o.op \in {"retain", "insert", "delete"} /\ o.chars \in Text
      /\ Len(o.chars) \in Nat /\ Times(l, x) \in Nat /\ <<>> \in Text
      /\ Times(l, o.chars) \in Nat /\ Times(l, o.chars) <= Len(o.chars) /\ Times(l, <<>>) = 0
  BY TimesIs, TimesOne, TextNil DEF Op
<1>2. CASE o.op = "retain"
  <2>1. ResultOf(x, o) = x
    BY <1>2 DEF ResultOf
  <2>. QED
    BY <1>1, <2>1
<1>3. CASE o.op = "insert"
  <2>1. ResultOf(x, o) = o.chars
    BY <1>3 DEF ResultOf
  <2>. QED
    BY <1>1, <2>1
<1>4. CASE o.op = "delete"
  <2>1. ResultOf(x, o) = <<>>
    BY <1>4 DEF ResultOf
  <2>. QED
    BY <1>1, <2>1
<1>. QED
  BY <1>1, <1>2, <1>3, <1>4

\* Operations bring a character no more often into a text than they insert
\* characters.
LEMMA TimesRun ==
    ASSUME NEW l, NEW p, NEW ops, Fits(p, ops)
    PROVE  Times(l, Run(p, ops)) <= Times(l, p) + Len(Inserted(ops))
<1> DEFINE few(t, q) == Times(l, Run(t, q)) <= Times(l, t) + Len(Inserted(q))
           T == {q \in Seq(Op) : \A t \in Text : Fits(t, q) => few(t, q)}
<1>1. <<>> \in T
  <2>1. ASSUME NEW t \in Text, Fits(t, <<>>) PROVE few(t, <<>>)
    <3>1. Run(t, <<>>) = <<>> /\ Inserted(<<>>) = <<>> /\ Times(l, t) \in Nat /\ Times(l, <<>>) = 0
      BY RunNil, InsertedIs, TimesIs, TimesOne
    <3>. QED
      BY <3>1
  <2>. QED
    BY <2>1, EmptySeq
<1>2. ASSUME NEW q \in Seq(Op), q # <<>>, Tail(q) \in T PROVE q \in T
  <2>1. ASSUME NEW t \in Text, Fits(t, q) PROVE few(t, q)
    <3> DEFINE h == Head(q)
               r == Tail(q)
    <3>1. PICK x, y \in Text : Takes(t, q, x, y)
      BY <1>2, <2>1, FitsHead
    <3>2. /\ t = x \o y /\ Len(x) = Consumes(h) /\ h \in Op /\ Fits(y, r)
          /\ Run(t, q) = ResultOf(x, h) \o Run(y, r)
      BY <3>1 DEF Takes
    <3>3. few(y, r)
      BY <1>2, <3>2
    <3>4. Inserted(q) = h.chars \o Inserted(r) /\ h.chars \in Text /\ Inserted(r) \in Text
      <4>1. r \in Seq(Op)
        BY <1>2, HeadAndTail
      <4>. QED
        BY <1>2, <3>2, <4>1, InsertedIs DEF Op
    <3> HIDE DEF h, r
    <3> DEFINE u == ResultOf(x, h)
               v == Run(y, r)
               w == Inserted(r)
    <3>5. u \in Text /\ Times(l, u) \in Nat /\ Times(l, u) <= Times(l, x) + Len(h.chars)
      BY <3>2, TimesResult
    <3>6. v \in Text
      BY <3>2, RunText
    <3>7. Times(l, v) <= Times(l, y) + Len(w)
      BY <3>3
    <3>8. Len(h.chars \o w) = Len(h.chars) + Len(w) /\ Len(h.chars) \in Nat /\ Len(w) \in Nat
      BY <3>4 DEF Text
    <3> HIDE DEF u, v, w
    <3>9. Times(l, u \o v) = Times(l, u) + Times(l, v) /\ Times(l, x \o y) = Times(l, x) + Times(l, y)
      BY <3>5, <3>6, TimesConcat
    <3>10. Times(l, x) \in Nat /\ Times(l, y) \in Nat /\ Times(l, v) \in Nat
      BY <3>6, TimesIs
    <3>11. Times(l, u \o v) <= Times(l, x \o y) + Len(h.chars \o w)
      BY <3>5, <3>7, <3>8, <3>9, <3>10
    <3>. QED
      BY <3>2, <3>4, <3>11 DEF u, v, w
  <2>. QED
    BY <1>2, <2>1
<1>3. \A q \in Seq(Op) : q \in T
  <2> HIDE DEF T
  <2>. QED
    BY <1>1, <1>2, ListInduction
<1>. QED
  BY <1>3 DEF Fits

\* What the loop of Follow ends with has all that is left of what each side makes,
\* less what both have from the base.
HasBoth(l, t, a, b, p, out) ==
    Times(l, Run(p, out)) + Times(l, Run(t, a)) + Times(l, Run(t, b))
        <= Times(l, Run(p \o Run(t, a), FollowLoop[Pair(a, b, out)])) + Times(l, t)

Having(l, a, b) ==
    \A t, p, out : Rebases(p, t, Pair(a, b, out)) => HasBoth(l, t, a, b, p, out)

\* The texts of a state of the loop, and what is in them.
LEMMA TimesOfState ==
    ASSUME NEW l, NEW t, NEW a, NEW b, NEW p, NEW out, Rebases(p, t, Pair(a, b, out))
    PROVE  /\ p \in Text /\ t \in Text
           /\ Run(t, a) \in Text /\ Run(t, b) \in Text /\ Run(p, out) \in Text
           /\ Times(l, t) \in Nat /\ Times(l, Run(t, a)) \in Nat
           /\ Times(l, Run(t, b)) \in Nat /\ Times(l, Run(p, out)) \in Nat
           /\ Times(l, Run(p \o Run(t, a), FollowLoop[Pair(a, b, out)])) \in Nat
<1>1. /\ Fits(t, a) /\ Fits(t, b) /\ Fits(p, out) /\ p \in Text /\ t \in Text
      /\ a \in Seq(Op) /\ b \in Seq(Op)
  BY PairIs
<1>2. Run(t, a) \in Text /\ Run(t, b) \in Text /\ Run(p, out) \in Text
  BY <1>1, RunText
<1>3. Run(p \o Run(t, a), FollowLoop[Pair(a, b, out)]) \in Text
  <2>1. EndsWell(t, a, b, p, out)
    BY <1>1, EveryFollowEnds DEF Ends
  <2>. QED
    BY <2>1, RunText DEF EndsWell
<1>. QED
  BY <1>1, <1>2, <1>3, TimesIs

\* A step that skips an insert of A.
LEMMA HasBothA ==
    ASSUME NEW l, NEW t, NEW a, NEW b, NEW p, NEW out, Rebases(p, t, Pair(a, b, out)), At(a, "insert"),
           At(b, "insert") => LexLeq(Head(a).chars, Head(b).chars), Having(l, Tail(a), b)
    PROVE  HasBoth(l, t, a, b, p, out)
<1> DEFINE c == Head(a).chars
           r == Tail(a)
<1>1. PICK o : /\ FollowLoop[Pair(a, b, out)] = FollowLoop[Pair(r, b, o)]
               /\ Rebases(p \o c, t, Pair(r, b, o))
               /\ Run(p \o c, o) = Run(p, out) \o c
  BY FollowA
<1>2. /\ Normal(a) /\ Fits(t, a) /\ p \in Text
  BY PairIs
<1>3. c \in Text /\ Run(t, a) = c \o Run(t, r)
  BY <1>2, FitsInsert
<1>4. HasBoth(l, t, r, b, p \o c, o)
  BY <1>1 DEF Having
<1> HIDE DEF c, r
<1>5. Run(t, r) \in Text /\ Run(p, out) \in Text
  BY <1>1, TimesOfState
<1>6. (p \o c) \o Run(t, r) = p \o Run(t, a)
  <2> DEFINE v == Run(t, r)
  <2>1. v \in Text /\ Run(t, a) = c \o v
    BY <1>3, <1>5
  <2> HIDE DEF v
  <2>2. (p \o c) \o v = p \o (c \o v)
    BY ONLY <1>2, <1>3, <2>1, TextAssociative
  <2>. QED
    BY <2>1, <2>2 DEF v
<1> DEFINE u == Run(p, out)
           v == Run(t, r)
           w == Run(p \o Run(t, a), FollowLoop[Pair(a, b, out)])
           z == Run(t, b)
<1>7. Times(l, u \o c) + Times(l, v) + Times(l, z) <= Times(l, w) + Times(l, t)
  BY <1>1, <1>4, <1>6 DEF HasBoth
<1>8. u \in Text /\ v \in Text /\ Run(t, a) = c \o v
  BY <1>3, <1>5
<1>9. Times(l, z) \in Nat /\ Times(l, w) \in Nat /\ Times(l, t) \in Nat
  BY TimesOfState
<1> HIDE DEF u, v, w, z
<1>10. /\ Times(l, u \o c) = Times(l, u) + Times(l, c) /\ Times(l, c \o v) = Times(l, c) + Times(l, v)
       /\ Times(l, u) \in Nat /\ Times(l, c) \in Nat /\ Times(l, v) \in Nat
  BY <1>3, <1>8, TimesConcat, TimesIs
<1>11. Times(l, u) + Times(l, c \o v) + Times(l, z) <= Times(l, w) + Times(l, t)
  BY <1>7, <1>9, <1>10
<1>. QED
  BY <1>8, <1>11 DEF HasBoth, u, w, z

\* A step that outputs an insert of B.
LEMMA HasBothB ==
    ASSUME NEW l, NEW t, NEW a, NEW b, NEW p, NEW out, Rebases(p, t, Pair(a, b, out)), At(b, "insert"),
           At(a, "insert") => ~LexLeq(Head(a).chars, Head(b).chars), Having(l, a, Tail(b))
    PROVE  HasBoth(l, t, a, b, p, out)
<1> DEFINE c == Head(b).chars
           r == Tail(b)
<1>1. PICK o : /\ FollowLoop[Pair(a, b, out)] = FollowLoop[Pair(a, r, o)]
               /\ Rebases(p, t, Pair(a, r, o))
               /\ Run(p, o) = Run(p, out) \o c
  BY FollowB
<1>2. /\ Normal(b) /\ Fits(t, b)
  BY PairIs
<1>3. c \in Text /\ Run(t, b) = c \o Run(t, r)
  BY <1>2, FitsInsert
<1>4. HasBoth(l, t, a, r, p, o)
  BY <1>1 DEF Having
<1> HIDE DEF c, r
<1>5. Run(t, r) \in Text /\ Run(p, out) \in Text
  BY <1>1, TimesOfState
<1> DEFINE u == Run(p, out)
           v == Run(t, r)
           w == Run(p \o Run(t, a), FollowLoop[Pair(a, b, out)])
           z == Run(t, a)
<1>7. Times(l, u \o c) + Times(l, z) + Times(l, v) <= Times(l, w) + Times(l, t)
  BY <1>1, <1>4 DEF HasBoth
<1>8. u \in Text /\ v \in Text /\ Run(t, b) = c \o v
  BY <1>3, <1>5
<1>9. Times(l, z) \in Nat /\ Times(l, w) \in Nat /\ Times(l, t) \in Nat
  BY TimesOfState
<1> HIDE DEF u, v, w, z
<1>10. /\ Times(l, u \o c) = Times(l, u) + Times(l, c) /\ Times(l, c \o v) = Times(l, c) + Times(l, v)
       /\ Times(l, u) \in Nat /\ Times(l, c) \in Nat /\ Times(l, v) \in Nat
  BY <1>3, <1>8, TimesConcat, TimesIs
<1>11. Times(l, u) + Times(l, z) + Times(l, c \o v) <= Times(l, w) + Times(l, t)
  BY <1>7, <1>9, <1>10
<1>. QED
  BY <1>8, <1>11 DEF HasBoth, u, w, z

\* A step in which neither side inserts.
LEMMA HasBothBoth ==
    ASSUME NEW l, NEW t, NEW a, NEW b, NEW p, NEW out, Rebases(p, t, Pair(a, b, out)),
           ~At(a, "insert"), ~At(b, "insert"), a # <<>>, b # <<>>,
           \A k \in Nat : k = Shorter(Head(a), Head(b)) => Having(l, Consume(a, k), Consume(b, k))
    PROVE  HasBoth(l, t, a, b, p, out)
<1> DEFINE ha == Head(a)
           hb == Head(b)
<1>1. Normal(a) /\ Fits(t, a) /\ Normal(b) /\ Fits(t, b) /\ p \in Text
  BY PairIs
<1>2. PICK x, y \in Text : t = x \o y /\ Len(x) = Shorter(ha, hb)
  <2> HIDE DEF ha, hb
  <2>1. Splits(t, a, b)
    BY <1>1, SourceNext
  <2>. QED
    BY <2>1, Zenon DEF Splits, ha, hb
<1> DEFINE k == Len(x)
           ca == Consume(a, k)
           cb == Consume(b, k)
           ra == ResultOf(x, ha)
           rb == ResultOf(x, hb)
           bk == BothKeep(x, ha, hb)
<1>3. PICK o : /\ FollowLoop[Pair(a, b, out)] = FollowLoop[Pair(ca, cb, o)]
               /\ Rebases(p \o ra, y, Pair(ca, cb, o))
               /\ Run(p \o ra, o) = Run(p, out) \o bk
               /\ Run(t, a) = ra \o Run(y, ca)
               /\ Run(t, b) = rb \o Run(y, cb)
  <2>1. RebasesBoth(p, t, a, b, out, x, y)
    <3>1. Len(x) = Shorter(Head(a), Head(b))
      BY <1>2
    <3> HIDE DEF ha, hb, k, ca, cb, ra, rb, bk
    <3>. QED
      BY <1>1, <1>2, <3>1, FollowBoth
  <2>. QED
    BY <2>1, Zenon DEF RebasesBoth
<1>4. ha.op \in {"retain", "delete"} /\ hb.op \in {"retain", "delete"}
  BY <1>1, NormalTail DEF At, Op, Plain
<1>5. k \in Nat /\ k = Shorter(ha, hb)
  BY <1>2, TextNil
<1>6. Having(l, ca, cb)
  BY <1>5
<1>7. /\ ra \in Text /\ rb \in Text /\ bk \in Text
      /\ Times(l, ra) + Times(l, rb) <= Times(l, bk) + Times(l, x)
  <2>1. Times(l, <<>>) = 0 /\ Times(l, x) \in Nat /\ <<>> \in Text
    BY TimesOne, TimesIs, TextNil
  <2>2. /\ ra = IF ha.op = "retain" THEN x ELSE <<>>
        /\ rb = IF hb.op = "retain" THEN x ELSE <<>>
        /\ bk = IF ha.op = "retain" /\ hb.op = "retain" THEN x ELSE <<>>
    BY <1>4 DEF ResultOf, BothKeep
  <2> HIDE DEF ra, rb, bk, ha, hb
  <2>. QED
    BY <1>4, <2>1, <2>2
<1> HIDE DEF ca, cb, ra, rb, bk, ha, hb, k
<1>8. HasBoth(l, y, ca, cb, p \o ra, o)
  BY <1>3, <1>6 DEF Having
<1>9. Run(y, ca) \in Text /\ Run(y, cb) \in Text /\ Run(p, out) \in Text
  BY <1>3, TimesOfState
<1>10. (p \o ra) \o Run(y, ca) = p \o Run(t, a)
  <2> DEFINE v == Run(y, ca)
  <2>1. v \in Text /\ Run(t, a) = ra \o v
    BY <1>3, <1>9
  <2> HIDE DEF v
  <2>2. (p \o ra) \o v = p \o (ra \o v)
    BY ONLY <1>1, <1>7, <2>1, TextAssociative
  <2>. QED
    BY <2>1, <2>2 DEF v
<1> DEFINE u == Run(p, out)
           v == Run(y, ca)
           z == Run(y, cb)
           w == Run(p \o Run(t, a), FollowLoop[Pair(a, b, out)])
<1>11. Times(l, u \o bk) + Times(l, v) + Times(l, z) <= Times(l, w) + Times(l, y)
  BY <1>3, <1>8, <1>10 DEF HasBoth
<1>12. u \in Text /\ v \in Text /\ z \in Text /\ Run(t, a) = ra \o v /\ Run(t, b) = rb \o z
  BY <1>3, <1>9
<1>13. Times(l, w) \in Nat
  BY TimesOfState
<1> HIDE DEF u, v, w, z
<1>14. /\ Times(l, u \o bk) = Times(l, u) + Times(l, bk)
       /\ Times(l, ra \o v) = Times(l, ra) + Times(l, v)
       /\ Times(l, rb \o z) = Times(l, rb) + Times(l, z)
       /\ Times(l, x \o y) = Times(l, x) + Times(l, y)
  BY <1>7, <1>12, TimesConcat
<1>15. /\ Times(l, u) \in Nat /\ Times(l, bk) \in Nat /\ Times(l, ra) \in Nat /\ Times(l, rb) \in Nat
       /\ Times(l, v) \in Nat /\ Times(l, z) \in Nat /\ Times(l, x) \in Nat /\ Times(l, y) \in Nat
  BY <1>7, <1>12, TimesIs
<1>16. Times(l, u) + Times(l, ra \o v) + Times(l, rb \o z) <= Times(l, w) + Times(l, x \o y)
  BY <1>7, <1>11, <1>13, <1>14, <1>15
<1>. QED
  BY <1>2, <1>12, <1>16 DEF HasBoth, u, w

\* The end of the loop.
LEMMA HasBothEnd ==
    ASSUME NEW l, NEW t, NEW a, NEW b, NEW p, NEW out, Rebases(p, t, Pair(a, b, out)),
           ~At(a, "insert"), ~At(b, "insert"), a = <<>> \/ b = <<>>
    PROVE  HasBoth(l, t, a, b, p, out)
<1>1. a = <<>> /\ b = <<>> /\ t = <<>> /\ FollowLoop[Pair(a, b, out)] = out
  BY FollowEnd
<1>2. p \in Text /\ Times(l, Run(p, out)) \in Nat
  BY TimesOfState
<1>3. Run(t, a) = <<>> /\ Run(t, b) = <<>> /\ p \o <<>> = p /\ Times(l, <<>>) = 0
  BY <1>1, <1>2, RunNil, TextConcatNil, TimesOne
<1>4. Run(p \o Run(t, a), FollowLoop[Pair(a, b, out)]) = Run(p, out)
  BY <1>1, <1>3
<1> HIDE DEF Run
<1>. QED
  BY <1>1, <1>2, <1>3, <1>4 DEF HasBoth

\* The induction step: one turn of the loop shortens an operand.
LEMMA HavingStep ==
    ASSUME NEW l, NEW a \in Seq(Op), NEW b \in Seq(Op),
           \A c, d \in Seq(Op) : Len(c) + Len(d) < Len(a) + Len(b) => Having(l, c, d)
    PROVE  Having(l, a, b)
<1>1. SUFFICES ASSUME NEW t, NEW p, NEW out, Rebases(p, t, Pair(a, b, out))
               PROVE  HasBoth(l, t, a, b, p, out)
  BY DEF Having
<1>3. Len(a) \in Nat /\ Len(b) \in Nat
  OBVIOUS
<1>4. ASSUME NEW c \in Seq(Op), c # <<>>
      PROVE  Tail(c) \in Seq(Op) /\ Len(Tail(c)) \in Nat /\ Len(c) = Len(Tail(c)) + 1
  BY <1>4, HeadAndTail
<1>5. CASE At(a, "insert") /\ (At(b, "insert") => LexLeq(Head(a).chars, Head(b).chars))
  <2>1. Having(l, Tail(a), b)
    <3>1. Tail(a) \in Seq(Op) /\ Len(Tail(a)) + Len(b) < Len(a) + Len(b)
      BY <1>3, <1>4, <1>5 DEF At
    <3>. QED
      BY <3>1
  <2>. QED
    BY <1>1, <1>5, <2>1, HasBothA
<1>6. CASE At(b, "insert") /\ (At(a, "insert") => ~LexLeq(Head(a).chars, Head(b).chars))
  <2>1. Having(l, a, Tail(b))
    <3>1. Tail(b) \in Seq(Op) /\ Len(a) + Len(Tail(b)) < Len(a) + Len(b)
      BY <1>3, <1>4, <1>6 DEF At
    <3>. QED
      BY <3>1
  <2>. QED
    BY <1>1, <1>6, <2>1, HasBothB
<1>7. CASE ~At(a, "insert") /\ ~At(b, "insert") /\ a # <<>> /\ b # <<>>
  <2>1. ASSUME NEW k \in Nat, k = Shorter(Head(a), Head(b))
        PROVE  Having(l, Consume(a, k), Consume(b, k))
    <3>1. Consume(a, k) \in Seq(Op) /\ Consume(b, k) \in Seq(Op)
          /\ Len(Consume(a, k)) + Len(Consume(b, k)) < Len(a) + Len(b)
      BY <1>7, <2>1, ConsumeShortens
    <3> DEFINE c == Consume(a, k)
               d == Consume(b, k)
    <3>2. c \in Seq(Op) /\ d \in Seq(Op) /\ Len(c) + Len(d) < Len(a) + Len(b)
      BY <3>1
    <3> HIDE DEF c, d
    <3>3. Having(l, c, d)
      BY <3>2
    <3>. QED
      BY <3>3 DEF c, d
  <2>. QED
    BY <1>1, <1>7, <2>1, HasBothBoth
<1>8. CASE ~At(a, "insert") /\ ~At(b, "insert") /\ (a = <<>> \/ b = <<>>)
  BY <1>1, <1>8, HasBothEnd
<1>. QED
  BY <1>5, <1>6, <1>7, <1>8

\* From every state.
LEMMA EveryFollowHasBoth ==
    ASSUME NEW l
    PROVE  \A a, b \in Seq(Op) : Having(l, a, b)
<1> DEFINE T == {s \in Seq(Op) \X Seq(Op) : Having(l, s[1], s[2])}
<1>1. ASSUME NEW a \in Seq(Op), NEW b \in Seq(Op) PROVE <<a, b>> \in T <=> Having(l, a, b)
  OBVIOUS
<1> HIDE DEF T
<1>2. ASSUME NEW a \in Seq(Op), NEW b \in Seq(Op),
             \A c, d \in Seq(Op) : Len(c) + Len(d) < Len(a) + Len(b) => <<c, d>> \in T
      PROVE  <<a, b>> \in T
  <2>1. \A c, d \in Seq(Op) : Len(c) + Len(d) < Len(a) + Len(b) => Having(l, c, d)
    BY <1>1, <1>2
  <2>2. Having(l, a, b)
    BY <2>1, HavingStep
  <2>. QED
    BY <1>1, <2>2
<1>3. \A a, b \in Seq(Op) : <<a, b>> \in T
  BY <1>2, PairInduction
<1>. QED
  BY <1>1, <1>3

\* Of any character, a change brings at least as many more after a concurrent change
\* as it brought before it: what it deletes may have gone already, what it inserts is
\* inserted.
THEOREM FollowKeepsCount ==
    ASSUME NEW l, NEW text, NEW A, NEW B, Suits(text, A), Suits(text, B)
    PROVE  Times(l, ApplyChangeset(text, A)) + Times(l, ApplyChangeset(text, B))
              <= Times(l, ApplyChangeset(ApplyChangeset(text, A), Follow(A, B))) + Times(l, text)
<1> DEFINE a == A.ops
           b == B.ops
           nil == <<>>
<1>1. Normal(a) /\ Fits(text, a) /\ Normal(b) /\ Fits(text, b)
  BY DEF Suits
<1>2. a \in Seq(Op) /\ b \in Seq(Op)
  BY <1>1 DEF Fits
<1>3. Follow(A, B).ops = FollowLoop[Pair(a, b, nil)]
  BY DEF Follow, Pair
<1>4. Normal(nil) /\ Fits(nil, nil)
  BY TextNil, ConsumedIs DEF Normal, Fits
<1>5. Run(text, a) \in Text /\ Run(text, b) \in Text
  BY <1>1, RunText
<1>6. /\ ApplyChangeset(ApplyChangeset(text, A), Follow(A, B)) = Run(Run(text, a), FollowLoop[Pair(a, b, nil)])
      /\ ApplyChangeset(text, A) = Run(text, a) /\ ApplyChangeset(text, B) = Run(text, b)
  BY <1>3, ApplyIsRun
<1>7. nil \o Run(text, a) = Run(text, a) /\ Run(nil, nil) = <<>> /\ Times(l, <<>>) = 0
  BY <1>5, TextConcatNil, RunNil, TimesOne
<1> HIDE DEF a, b, nil
<1>8. Rebases(nil, text, Pair(a, b, nil))
  BY <1>1, <1>4 DEF Rebases, Pair
<1>9. HasBoth(l, text, a, b, nil, nil)
  BY <1>2, <1>8, EveryFollowHasBoth DEF Having
<1>10. Times(l, Run(text, a)) \in Nat /\ Times(l, Run(text, b)) \in Nat
  BY <1>8, TimesOfState
<1>. QED
  BY <1>6, <1>7, <1>9, <1>10 DEF HasBoth

-------------------------------------------------------------------------------
(* The table of diff.go.                                                   *)

\* What the table of diff.go has in a cell.
Longest(dp, old, new, i, j) ==
    /\ dp[<<i, j>>] \in Nat
    /\ i = 0 \/ j = 0 => dp[<<i, j>>] = 0
    /\ i > 0 /\ j > 0 /\ old[i] = new[j] => dp[<<i, j>>] = dp[<<i - 1, j - 1>>] + 1
    /\ i > 0 /\ j > 0 /\ old[i] # new[j] =>
          dp[<<i, j>>] = IF dp[<<i - 1, j>>] > dp[<<i, j - 1>>]
                         THEN dp[<<i - 1, j>>] ELSE dp[<<i, j - 1>>]

\* The table exists: every cell is computed from smaller cells.
LEMMA TableIs ==
    ASSUME NEW old \in Text, NEW new \in Text
    PROVE  \A i \in 0..Len(old), j \in 0..Len(new) : Longest(LCS(old, new), old, new, i, j)
<1> DEFINE S == Cells(old, new)
           larger(x, y) == IF x > y THEN x ELSE y
           at(f, i, j) == CASE i = 0 \/ j = 0 -> 0
                            [] i > 0 /\ j > 0 /\ old[i] = new[j] -> f[<<i - 1, j - 1>>] + 1
                            [] OTHER -> larger(f[<<i - 1, j>>], f[<<i, j - 1>>])
           next(f, c) == at(f, c[1], c[2])
           dp == CHOOSE f : f = [c \in S |-> next(f, c)]
           mu == [c \in S |-> c[1] + c[2]]
           Phi == [f \in [S -> Nat] |-> [c \in S |-> next(f, c)]]
<1>1. ASSUME NEW f, NEW i \in 0..Len(old), NEW j \in 0..Len(new)
      PROVE  /\ i = 0 \/ j = 0 => at(f, i, j) = 0
             /\ i > 0 /\ j > 0 /\ old[i] = new[j] => at(f, i, j) = f[<<i - 1, j - 1>>] + 1
             /\ i > 0 /\ j > 0 /\ old[i] # new[j] =>
                   at(f, i, j) = larger(f[<<i - 1, j>>], f[<<i, j - 1>>])
  <2>1. i \in Nat /\ j \in Nat
    BY CellsAre
  <2> HIDE DEF larger
  <2>. QED
    BY <2>1
<1>2. ASSUME NEW i \in 0..Len(old), NEW j \in 0..Len(new)
      PROVE  /\ i \in Nat /\ j \in Nat
             /\ i = 0 \/ j = 0 \/ (i > 0 /\ j > 0)
             /\ i > 0 /\ j > 0 =>
                   /\ <<i - 1, j - 1>> \in S /\ mu[<<i - 1, j - 1>>] < mu[<<i, j>>]
                   /\ <<i, j - 1>> \in S /\ mu[<<i, j - 1>>] < mu[<<i, j>>]
                   /\ <<i - 1, j>> \in S /\ mu[<<i - 1, j>>] < mu[<<i, j>>]
  <2>1. i \in Nat /\ j \in Nat
    BY CellsAre
  <2>2. i > 0 => i - 1 \in 0..Len(old)
    BY CellsAre
  <2>3. j > 0 => j - 1 \in 0..Len(new)
    BY CellsAre
  <2>4. <<i, j>> \in S /\ (i > 0 /\ j > 0 => <<i - 1, j - 1>> \in S /\ <<i, j - 1>> \in S /\ <<i - 1, j>> \in S)
    <3> HIDE DEF S
    <3>. QED
      BY <2>1, <2>2, <2>3, CellsAre DEF S
  <2>5. \A x, y : <<x, y>> \in S => mu[<<x, y>>] = x + y
    OBVIOUS
  <2> HIDE DEF mu, S
  <2>. QED
    BY <2>1, <2>4, <2>5
<1>3. ASSUME NEW c \in S
      PROVE  c[1] \in 0..Len(old) /\ c[2] \in 0..Len(new) /\ c = <<c[1], c[2]>>
  BY CellsAre
<1>4. ASSUME NEW f \in [S -> Nat], NEW c \in S
      PROVE  next(f, c) \in Nat
  <2> DEFINE i == c[1]
             j == c[2]
  <2>1. i \in 0..Len(old) /\ j \in 0..Len(new)
    BY <1>3
  <2>2. i > 0 /\ j > 0 => f[<<i - 1, j - 1>>] \in Nat /\ f[<<i, j - 1>>] \in Nat /\ f[<<i - 1, j>>] \in Nat
    <3> HIDE DEF S, mu, i, j
    <3>. QED
      BY <1>2, <2>1
  <2> HIDE DEF S, mu, i, j, at
  <2>3. at(f, i, j) \in Nat
    BY <1>1, <1>2, <2>1, <2>2, SMTT(40)
  <2>. QED
    BY <2>3 DEF i, j
<1>5. ASSUME NEW f \in [S -> Nat], NEW h \in [S -> Nat], NEW c \in S,
             \A x \in S : mu[x] < mu[c] => f[x] = h[x]
      PROVE  next(f, c) = next(h, c)
  <2> DEFINE i == c[1]
             j == c[2]
  <2>1. i \in 0..Len(old) /\ j \in 0..Len(new) /\ c = <<i, j>>
    BY <1>3
  <2>2. i > 0 /\ j > 0 => /\ f[<<i - 1, j - 1>>] = h[<<i - 1, j - 1>>]
                          /\ f[<<i, j - 1>>] = h[<<i, j - 1>>]
                          /\ f[<<i - 1, j>>] = h[<<i - 1, j>>]
    <3> HIDE DEF S, mu, i, j
    <3>. QED
      BY <1>2, <1>5, <2>1
  <2> HIDE DEF S, mu, i, j, at, larger
  <2>3. at(f, i, j) = at(h, i, j)
    BY <1>1, <1>2, <2>1, <2>2
  <2>. QED
    BY <2>3 DEF i, j
<1> HIDE DEF at
<1>6. PICK f \in [S -> Nat] : Phi[f] = f
  <2>1. mu \in [S -> Nat]
    <3>1. \A c \in S : c[1] + c[2] \in Nat
      BY <1>2, <1>3
    <3> HIDE DEF S
    <3>. QED
      BY <3>1
  <2>2. Phi \in [[S -> Nat] -> [S -> Nat]]
    <3> HIDE DEF S, next
    <3>. QED
      BY <1>4
  <2>3. ASSUME NEW f \in [S -> Nat], NEW h \in [S -> Nat], NEW c \in S,
               \A x \in S : mu[x] < mu[c] => f[x] = h[x]
        PROVE  Phi[f][c] = Phi[h][c]
    <3>1. next(f, c) = next(h, c)
      BY <1>5, <2>3
    <3> HIDE DEF S, next
    <3>. QED
      BY <3>1
  <2> HIDE DEF S, mu, Phi
  <2>4. Descends(S, Nat, mu, Phi)
    BY <2>1, <2>2, <2>3 DEF Descends
  <2>. QED
    BY <2>4, Recursion
<1>7. f = [c \in S |-> next(f, c)]
  <2> HIDE DEF next, S
  <2>. QED
    BY <1>6
<1>8. dp = [c \in S |-> next(dp, c)]
  <2> HIDE DEF next
  <2>. QED
    BY <1>7
<1>9. LCS(old, new) = [c \in S |-> dp[c]]
  BY DEF LCS, at
<1>10. LCS(old, new) = dp
  <2> HIDE DEF dp, next, S
  <2>. QED
    BY <1>8, <1>9
<1>11. \A c \in S : dp[c] = next(dp, c)
  <2> HIDE DEF next
  <2>. QED
    BY <1>8
<1> HIDE DEF dp
<1>12. \A c \in S : dp[c] \in Nat
  <2> DEFINE T == {c \in S : dp[c] \in Nat}
  <2>1. ASSUME NEW c \in S, \A x \in S : mu[x] < mu[c] => x \in T PROVE c \in T
    <3> DEFINE i == c[1]
               j == c[2]
    <3>1. i \in 0..Len(old) /\ j \in 0..Len(new) /\ c = <<i, j>>
      BY <1>3
    <3>2. i > 0 /\ j > 0 => dp[<<i - 1, j - 1>>] \in Nat /\ dp[<<i, j - 1>>] \in Nat /\ dp[<<i - 1, j>>] \in Nat
      <4> HIDE DEF S, mu, i, j
      <4>. QED
        BY <1>2, <2>1, <3>1
    <3>3. dp[c] = at(dp, i, j)
      BY <1>11
    <3> HIDE DEF S, mu, i, j
    <3>4. /\ i \in Nat /\ j \in Nat
          /\ i = 0 \/ j = 0 => at(dp, i, j) = 0
          /\ i > 0 /\ j > 0 /\ old[i] = new[j] => at(dp, i, j) = dp[<<i - 1, j - 1>>] + 1
          /\ i > 0 /\ j > 0 /\ old[i] # new[j] =>
                at(dp, i, j) = larger(dp[<<i - 1, j>>], dp[<<i, j - 1>>])
      <4> HIDE DEF larger
      <4>. QED
        BY <1>1, <1>2, <3>1
    <3>5. at(dp, i, j) \in Nat
      BY <3>2, <3>4
    <3>. QED
      BY <3>3, <3>5
  <2>2. mu \in [S -> Nat]
    <3>1. \A c \in S : c[1] + c[2] \in Nat
      BY <1>2, <1>3
    <3> HIDE DEF S
    <3>. QED
      BY <3>1
  <2> HIDE DEF S, mu, T
  <2>3. \A c \in S : c \in T
    BY <2>1, <2>2, MeasureInduction
  <2>. QED
    BY <2>3 DEF T
<1>13. ASSUME NEW i \in 0..Len(old), NEW j \in 0..Len(new)
       PROVE  Longest(dp, old, new, i, j)
  <2>1. <<i, j>> \in S
    BY CellsAre
  <2> HIDE DEF S
  <2>2. dp[<<i, j>>] = at(dp, i, j) /\ dp[<<i, j>>] \in Nat
    BY <1>11, <1>12, <2>1
  <2>. QED
    BY <1>1, <2>2 DEF Longest
<1>. QED
  BY <1>10, <1>13

\* A property of the cells that holds of a cell whenever it holds of those above
\* and to the left.
LEMMA CellInduction ==
    ASSUME NEW old \in Text, NEW new \in Text, NEW T,
           \A i \in 0..Len(old), j \in 0..Len(new) :
              /\ i > 0 /\ j > 0 => <<i - 1, j - 1>> \in T
              /\ i > 0 => <<i - 1, j>> \in T
              /\ j > 0 => <<i, j - 1>> \in T
              => <<i, j>> \in T
    PROVE  \A i \in 0..Len(old), j \in 0..Len(new) : <<i, j>> \in T
<1> DEFINE S == Cells(old, new)
           mu == [c \in S |-> c[1] + c[2]]
<1>1. mu \in [S -> Nat]
  <2>1. \A c \in S : c[1] + c[2] \in Nat
    BY CellsAre
  <2> HIDE DEF S
  <2>. QED
    BY <2>1
<1>2. \A x, y : <<x, y>> \in S => mu[<<x, y>>] = x + y
  OBVIOUS
<1>3. ASSUME NEW c \in S, \A x \in S : mu[x] < mu[c] => x \in T PROVE c \in T
  <2> DEFINE i == c[1]
             j == c[2]
  <2>1. i \in 0..Len(old) /\ j \in 0..Len(new) /\ c = <<i, j>> /\ i \in Nat /\ j \in Nat
    BY CellsAre
  <2> HIDE DEF i, j, S, mu
  <2>2. /\ i > 0 => i - 1 \in 0..Len(old)
        /\ j > 0 => j - 1 \in 0..Len(new)
    BY <2>1, CellsAre
  <2>3. <<i, j>> \in S /\ mu[c] = i + j
    BY <1>2, <2>1
  <2>4. i > 0 /\ j > 0 => <<i - 1, j - 1>> \in T
    <3>1. SUFFICES ASSUME i > 0, j > 0 PROVE <<i - 1, j - 1>> \in T
      OBVIOUS
    <3>2. <<i - 1, j - 1>> \in S
      BY <2>2, <3>1, CellsAre DEF S
    <3>3. mu[<<i - 1, j - 1>>] < mu[c]
      BY <1>2, <2>1, <2>3, <3>2
    <3>. QED
      BY <1>3, <3>2, <3>3
  <2>5. i > 0 => <<i - 1, j>> \in T
    <3>1. SUFFICES ASSUME i > 0 PROVE <<i - 1, j>> \in T
      OBVIOUS
    <3>2. <<i - 1, j>> \in S
      BY <2>1, <2>2, <3>1, CellsAre DEF S
    <3>3. mu[<<i - 1, j>>] < mu[c]
      BY <1>2, <2>1, <2>3, <3>2
    <3>. QED
      BY <1>3, <3>2, <3>3
  <2>6. j > 0 => <<i, j - 1>> \in T
    <3>1. SUFFICES ASSUME j > 0 PROVE <<i, j - 1>> \in T
      OBVIOUS
    <3>2. <<i, j - 1>> \in S
      BY <2>1, <2>2, <3>1, CellsAre DEF S
    <3>3. mu[<<i, j - 1>>] < mu[c]
      BY <1>2, <2>1, <2>3, <3>2
    <3>. QED
      BY <1>3, <3>2, <3>3
  <2>. QED
    BY <2>1, <2>4, <2>5, <2>6
<1>4. \A c \in S : c \in T
  <2> HIDE DEF mu, S
  <2>. QED
    BY <1>1, <1>3, MeasureInduction
<1>. QED
  BY <1>4, CellsAre

\* Neighbouring cells of the table differ by one at most, and it grows downwards and
\* to the right.
Smooth(dp, i, j) ==
    /\ i > 0 => dp[<<i - 1, j>>] <= dp[<<i, j>>] /\ dp[<<i, j>>] <= dp[<<i - 1, j>>] + 1
    /\ j > 0 => dp[<<i, j - 1>>] <= dp[<<i, j>>] /\ dp[<<i, j>>] <= dp[<<i, j - 1>>] + 1

LEMMA TableIsSmooth ==
    ASSUME NEW old \in Text, NEW new \in Text
    PROVE  \A i \in 0..Len(old), j \in 0..Len(new) : Smooth(LCS(old, new), i, j)
<1> DEFINE dp == LCS(old, new)
           T == {c \in Cells(old, new) : Smooth(dp, c[1], c[2])}
<1>1. \A i \in 0..Len(old), j \in 0..Len(new) : <<i, j>> \in T <=> Smooth(dp, i, j)
  <2> HIDE DEF dp
  <2>. QED
    BY CellsAre
<1>2. \A i \in 0..Len(old), j \in 0..Len(new) : Longest(dp, old, new, i, j)
  BY TableIs
<1> HIDE DEF T, dp
<1>3. ASSUME NEW i \in 0..Len(old), NEW j \in 0..Len(new),
             i > 0 /\ j > 0 => <<i - 1, j - 1>> \in T,
             i > 0 => <<i - 1, j>> \in T,
             j > 0 => <<i, j - 1>> \in T
      PROVE  <<i, j>> \in T
  <2>1. /\ i \in Nat /\ j \in Nat
        /\ i > 0 => i - 1 \in 0..Len(old)
        /\ j > 0 => j - 1 \in 0..Len(new)
    BY CellsAre
  <2>2. /\ i > 0 /\ j > 0 => Smooth(dp, i - 1, j) /\ Smooth(dp, i, j - 1)
        /\ i > 0 => dp[<<i - 1, j>>] \in Nat
        /\ j > 0 => dp[<<i, j - 1>>] \in Nat
        /\ i > 0 /\ j > 0 => dp[<<i - 1, j - 1>>] \in Nat
        /\ dp[<<i, j>>] \in Nat
    BY <1>1, <1>2, <1>3, <2>1 DEF Longest
  <2>3. Longest(dp, old, new, i, j)
    BY <1>2
  <2>4. CASE i = 0 \/ j = 0
    <3>1. dp[<<i, j>>] = 0
      BY <2>3, <2>4 DEF Longest
    <3>2. /\ i > 0 => j = 0 /\ dp[<<i - 1, j>>] = 0
          /\ j > 0 => i = 0 /\ dp[<<i, j - 1>>] = 0
      <4>1. CASE i = 0
        <5>1. j > 0 => Longest(dp, old, new, i, j - 1)
          BY <1>2, <2>1
        <5>. QED
          BY <4>1, <5>1 DEF Longest
      <4>2. CASE j = 0
        <5>1. i > 0 => Longest(dp, old, new, i - 1, j)
          BY <1>2, <2>1
        <5>. QED
          BY <4>2, <5>1 DEF Longest
      <4>. QED
        BY <2>4, <4>1, <4>2
    <3>3. Smooth(dp, i, j)
      BY <3>1, <3>2 DEF Smooth
    <3>. QED
      BY <1>1, <3>3
  <2>5. CASE i > 0 /\ j > 0
    <3> DEFINE a == dp[<<i - 1, j>>]
               b == dp[<<i, j - 1>>]
               c == dp[<<i - 1, j - 1>>]
               d == dp[<<i, j>>]
    <3>1. a \in Nat /\ b \in Nat /\ c \in Nat /\ d \in Nat
      BY <2>2, <2>5
    <3>2. c <= a /\ a <= c + 1 /\ c <= b /\ b <= c + 1
      BY <2>2, <2>5 DEF Smooth
    <3>3. /\ old[i] = new[j] => d = c + 1
          /\ old[i] # new[j] => d = IF a > b THEN a ELSE b
      BY <2>3, <2>5 DEF Longest
    <3> HIDE DEF a, b, c, d
    <3>4. a <= d /\ d <= a + 1 /\ b <= d /\ d <= b + 1
      BY <3>1, <3>2, <3>3
    <3>5. Smooth(dp, i, j)
      BY <3>4 DEF Smooth, a, b, d
    <3>. QED
      BY <1>1, <3>5
  <2>. QED
    BY <2>1, <2>4, <2>5
<1>4. \A i \in 0..Len(old), j \in 0..Len(new) : <<i, j>> \in T
  BY <1>3, CellInduction
<1>. QED
  BY <1>1, <1>4 DEF dp

\* From one cell to another, some rows down, some columns to the right, or along
\* equal characters.
LEMMA TableMoves ==
    ASSUME NEW old \in Text, NEW new \in Text,
           NEW i \in 0..Len(old), NEW j \in 0..Len(new)
    PROVE  /\ \A k \in Nat : i + k <= Len(old) =>
                 LCS(old, new)[<<i, j>>] <= LCS(old, new)[<<i + k, j>>]
           /\ \A k \in Nat : j + k <= Len(new) =>
                 LCS(old, new)[<<i, j>>] <= LCS(old, new)[<<i, j + k>>]
           /\ \A k \in Nat :
                 i + k <= Len(old) /\ j + k <= Len(new) /\ (\A h \in 1..k : old[i + h] = new[j + h])
                 => LCS(old, new)[<<i + k, j + k>>] = LCS(old, new)[<<i, j>>] + k
<1> DEFINE dp == LCS(old, new)
           n == Len(old)
           m == Len(new)
           at == dp[<<i, j>>]
           D == {k \in Nat : i + k <= n => at <= dp[<<i + k, j>>]}
           R == {k \in Nat : j + k <= m => at <= dp[<<i, j + k>>]}
           same(k) == \A h \in 1..k : old[i + h] = new[j + h]
           E == {k \in Nat : i + k <= n /\ j + k <= m /\ same(k) => dp[<<i + k, j + k>>] = at + k}
<1>1. /\ n \in Nat /\ m \in Nat /\ i \in Nat /\ j \in Nat
      /\ \A x \in 0..n, y \in 0..m :
            /\ dp[<<x, y>>] \in Nat /\ Smooth(dp, x, y) /\ Longest(dp, old, new, x, y)
  BY TextNil, CellsAre, TableIs, TableIsSmooth DEF Longest
<1> HIDE DEF dp, n, m
<1>2. at \in Nat
  BY <1>1 DEF n, m
<1> HIDE DEF at
<1>3. ASSUME NEW k \in Nat, i + k + 1 <= n
      PROVE  dp[<<i + k, j>>] <= dp[<<i + k + 1, j>>]
  <2> DEFINE x == i + k + 1
  <2>1. x \in 0..n /\ x > 0 /\ x - 1 = i + k /\ j \in 0..m
    BY <1>1, <1>3 DEF m
  <2> HIDE DEF x
  <2>2. dp[<<x - 1, j>>] <= dp[<<x, j>>]
    BY <1>1, <2>1 DEF Smooth
  <2>. QED
    BY <2>1, <2>2 DEF x
<1>4. ASSUME NEW k \in Nat, j + k + 1 <= m
      PROVE  dp[<<i, j + k>>] <= dp[<<i, j + k + 1>>]
  <2> DEFINE x == j + k + 1
  <2>1. x \in 0..m /\ x > 0 /\ x - 1 = j + k /\ i \in 0..n
    BY <1>1, <1>4 DEF n
  <2> HIDE DEF x
  <2>2. dp[<<i, x - 1>>] <= dp[<<i, x>>]
    BY <1>1, <2>1 DEF Smooth
  <2>. QED
    BY <2>1, <2>2 DEF x
<1>5. ASSUME NEW k \in Nat, i + k + 1 <= n, j + k + 1 <= m, old[i + k + 1] = new[j + k + 1]
      PROVE  dp[<<i + k + 1, j + k + 1>>] = dp[<<i + k, j + k>>] + 1
  <2> DEFINE x == i + k + 1
             y == j + k + 1
  <2>1. x \in 0..n /\ x > 0 /\ x - 1 = i + k /\ y \in 0..m /\ y > 0 /\ y - 1 = j + k /\ old[x] = new[y]
    BY <1>1, <1>5
  <2> HIDE DEF x, y
  <2>2. dp[<<x, y>>] = dp[<<x - 1, y - 1>>] + 1
    BY <1>1, <2>1 DEF Longest
  <2>. QED
    BY <2>1, <2>2 DEF x, y
<1>6. /\ \A k \in Nat : i + k <= n => dp[<<i + k, j>>] \in Nat
      /\ \A k \in Nat : j + k <= m => dp[<<i, j + k>>] \in Nat
      /\ \A k \in Nat : i + k <= n /\ j + k <= m => dp[<<i + k, j + k>>] \in Nat
  <2>1. i \in 0..n /\ j \in 0..m
    BY DEF n, m
  <2>. QED
    BY <1>1, <2>1
<1>7. \A k \in Nat : k \in D
  <2>1. 0 \in D
    BY <1>1, <1>2 DEF at
  <2>2. ASSUME NEW k \in D PROVE k + 1 \in D
    <3>1. k \in Nat /\ k + 1 \in Nat /\ i + (k + 1) = i + k + 1
      BY <1>1
    <3>2. ASSUME i + k + 1 <= n PROVE at <= dp[<<i + k + 1, j>>]
      <4>1. i + k <= n /\ i + (k + 1) <= n
        BY <1>1, <3>1, <3>2
      <4>2. at <= dp[<<i + k, j>>] /\ dp[<<i + k, j>>] \in Nat /\ dp[<<i + (k + 1), j>>] \in Nat
        BY <1>6, <3>1, <4>1
      <4>3. dp[<<i + k, j>>] <= dp[<<i + k + 1, j>>]
        BY <1>3, <3>1, <3>2
      <4>. QED
        BY <1>2, <3>1, <4>2, <4>3
    <3>. QED
      BY <3>1, <3>2
  <2> HIDE DEF D
  <2>3. D \subseteq Nat
    BY DEF D
  <2>. QED
    BY <2>1, <2>2, <2>3, SetInduction
<1>8. \A k \in Nat : k \in R
  <2>1. 0 \in R
    BY <1>1, <1>2 DEF at
  <2>2. ASSUME NEW k \in R PROVE k + 1 \in R
    <3>1. k \in Nat /\ k + 1 \in Nat /\ j + (k + 1) = j + k + 1
      BY <1>1
    <3>2. ASSUME j + k + 1 <= m PROVE at <= dp[<<i, j + k + 1>>]
      <4>1. j + k <= m /\ j + (k + 1) <= m
        BY <1>1, <3>1, <3>2
      <4>2. at <= dp[<<i, j + k>>] /\ dp[<<i, j + k>>] \in Nat /\ dp[<<i, j + (k + 1)>>] \in Nat
        BY <1>6, <3>1, <4>1
      <4>3. dp[<<i, j + k>>] <= dp[<<i, j + k + 1>>]
        BY <1>4, <3>1, <3>2
      <4>. QED
        BY <1>2, <3>1, <4>2, <4>3
    <3>. QED
      BY <3>1, <3>2
  <2> HIDE DEF R
  <2>3. R \subseteq Nat
    BY DEF R
  <2>. QED
    BY <2>1, <2>2, <2>3, SetInduction
<1>9. \A k \in Nat : k \in E
  <2>1. 0 \in E
    BY <1>1, <1>2 DEF at
  <2>2. ASSUME NEW k \in E PROVE k + 1 \in E
    <3>1. k \in Nat /\ k + 1 \in Nat /\ j + (k + 1) = j + k + 1 /\ i + (k + 1) = i + k + 1
      BY <1>1
    <3>2. ASSUME i + k + 1 <= n, j + k + 1 <= m, same(k + 1)
          PROVE  dp[<<i + k + 1, j + k + 1>>] = at + (k + 1)
      <4>1. i + k <= n /\ j + k <= m
        BY <1>1, <3>1, <3>2
      <4>2. same(k) /\ old[i + k + 1] = new[j + k + 1]
        <5>1. k + 1 \in 1..k + 1 /\ \A h \in 1..k : h \in 1..k + 1
          BY <3>1
        <5>2. old[i + (k + 1)] = new[j + (k + 1)]
          BY <3>2, <5>1
        <5>. QED
          BY <3>1, <3>2, <5>1, <5>2
      <4> HIDE DEF same
      <4>3. dp[<<i + k, j + k>>] = at + k
        BY <3>1, <4>1, <4>2
      <4>4. dp[<<i + k + 1, j + k + 1>>] = dp[<<i + k, j + k>>] + 1
        BY <1>5, <3>1, <3>2, <4>2
      <4>. QED
        BY <1>2, <3>1, <4>3, <4>4
    <3> HIDE DEF same
    <3>. QED
      BY <3>1, <3>2
  <2> HIDE DEF E
  <2>3. E \subseteq Nat
    BY DEF E
  <2>. QED
    BY <2>1, <2>2, <2>3, SetInduction
<1>. QED
  BY <1>7, <1>8, <1>9 DEF n, m, dp, at

-------------------------------------------------------------------------------
(* The difference of two texts inserts no more than it must.               *)

\* How many characters a changeset inserts, and how many the difference of two
\* texts does.
NewChars(c) == Len(Inserted(c.ops))
Fewest(old, new) == NewChars(DiffToChangeset(old, new))

\* The operations of a cell insert what the table says is not in common.
LEMMA CellInserts ==
    ASSUME NEW old \in Text, NEW new \in Text
    PROVE  \A i \in 0..Len(old), j \in 0..Len(new) :
              Len(Inserted(Segments(old, new)[<<i, j>>])) = j - LCS(old, new)[<<i, j>>]
<1> DEFINE dp == LCS(old, new)
           f == Segments(old, new)
           has(i, j) == Len(Inserted(f[<<i, j>>])) = j - dp[<<i, j>>]
           T == {c \in Cells(old, new) : has(c[1], c[2])}
<1>1. \A i \in 0..Len(old), j \in 0..Len(new) : <<i, j>> \in T <=> has(i, j)
  <2> HIDE DEF dp, f
  <2>. QED
    BY CellsAre
<1>2. \A i \in 0..Len(old), j \in 0..Len(new) :
         /\ Longest(dp, old, new, i, j) /\ Continues(f, old, new, i, j)
         /\ f[<<i, j>>] \in Seq(Op)
  BY TableIs, SegmentsAre, EveryCellReaches DEF Reaches, Fits
<1>3. ASSUME NEW u \in Seq(Op), NEW o \in Op
      PROVE  Len(Inserted(AddOp(u, o))) = Len(Inserted(u)) + Len(o.chars)
  <2>1. Inserted(u) \in Text /\ o.chars \in Text /\ Inserted(AddOp(u, o)) = Inserted(u) \o o.chars
    BY InsertedIs, AddOpInserted DEF Op
  <2>. QED
    BY <2>1 DEF Text
<1>4. /\ Retain(1) \in Op /\ Len(Retain(1).chars) = 0
      /\ Delete(1) \in Op /\ Len(Delete(1).chars) = 0
      /\ \A e \in Nat : Insert(<<e>>) \in Op /\ Len(Insert(<<e>>).chars) = 1
  <2>1. \A e \in Nat : <<e>> \in Text /\ Len(<<e>>) = 1
    BY DEF Text
  <2>. QED
    BY <2>1, OpsOf DEF Retain, Delete, Insert
<1> HIDE DEF T, dp, f
<1>5. ASSUME NEW i \in 0..Len(old), NEW j \in 0..Len(new),
             i > 0 /\ j > 0 => <<i - 1, j - 1>> \in T,
             i > 0 => <<i - 1, j>> \in T,
             j > 0 => <<i, j - 1>> \in T
      PROVE  <<i, j>> \in T
  <2>1. /\ i \in Nat /\ j \in Nat
        /\ i > 0 => i - 1 \in 0..Len(old)
        /\ j > 0 => j - 1 \in 0..Len(new) /\ new[j] \in Nat
    BY CellsAre
  <2>2. /\ i > 0 /\ j > 0 => has(i - 1, j - 1) /\ dp[<<i - 1, j - 1>>] \in Nat
        /\ i > 0 => has(i - 1, j) /\ dp[<<i - 1, j>>] \in Nat
        /\ j > 0 => has(i, j - 1) /\ dp[<<i, j - 1>>] \in Nat
    BY <1>1, <1>2, <1>5, <2>1 DEF Longest
  <2>3. Longest(dp, old, new, i, j) /\ Continues(f, old, new, i, j)
    BY <1>2
  <2>4. CASE i = 0 /\ j = 0 /\ f[<<i, j>>] = <<>>
    <3>1. dp[<<i, j>>] = 0 /\ Inserted(<<>>) = <<>>
      BY <2>3, <2>4, InsertedIs DEF Longest
    <3>2. has(i, j)
      BY <2>4, <3>1
    <3>. QED
      BY <1>1, <3>2
  <2>5. CASE /\ i > 0 /\ j > 0 /\ old[i] = new[j]
             /\ f[<<i, j>>] = AddOp(f[<<i - 1, j - 1>>], Retain(1))
    <3>1. f[<<i - 1, j - 1>>] \in Seq(Op)
      BY <1>2, <2>1, <2>5
    <3>2. Len(Inserted(f[<<i, j>>])) = Len(Inserted(f[<<i - 1, j - 1>>])) + 0
      BY <1>3, <1>4, <2>5, <3>1
    <3>3. dp[<<i, j>>] = dp[<<i - 1, j - 1>>] + 1
      BY <2>3, <2>5 DEF Longest
    <3>4. has(i, j)
      <4> DEFINE a == Len(Inserted(f[<<i - 1, j - 1>>]))
                 b == dp[<<i - 1, j - 1>>]
                 c == Len(Inserted(f[<<i, j>>]))
                 d == dp[<<i, j>>]
      <4>1. a = j - 1 - b /\ b \in Nat /\ c = a + 0 /\ d = b + 1
        BY <2>2, <2>5, <3>2, <3>3
      <4> HIDE DEF a, b, c, d
      <4>2. c = j - d
        BY <2>1, <4>1
      <4>. QED
        BY <4>2 DEF c, d
    <3>. QED
      BY <1>1, <3>4
  <2>6. CASE /\ j > 0 /\ ~(i > 0 /\ j > 0 /\ old[i] = new[j]) /\ BacktrackInserts(dp, i, j)
             /\ f[<<i, j>>] = AddOp(f[<<i, j - 1>>], Insert(<<new[j]>>))
    <3>1. f[<<i, j - 1>>] \in Seq(Op)
      BY <1>2, <2>1, <2>6
    <3>2. Len(Inserted(f[<<i, j>>])) = Len(Inserted(f[<<i, j - 1>>])) + 1
      BY <1>3, <1>4, <2>1, <2>6, <3>1
    <3>3. dp[<<i, j>>] = dp[<<i, j - 1>>]
      <4>1. CASE i = 0
        <5>1. Longest(dp, old, new, i, j - 1)
          BY <1>2, <2>1, <2>6
        <5>. QED
          BY <2>3, <4>1, <5>1 DEF Longest
      <4>2. CASE i > 0
        <5>1. dp[<<i, j>>] = IF dp[<<i - 1, j>>] > dp[<<i, j - 1>>]
                             THEN dp[<<i - 1, j>>] ELSE dp[<<i, j - 1>>]
          BY <2>3, <2>6, <4>2 DEF Longest
        <5>2. dp[<<i, j - 1>>] >= dp[<<i - 1, j>>]
          BY <2>1, <2>6, <4>2 DEF BacktrackInserts
        <5>. QED
          BY <2>2, <2>6, <4>2, <5>1, <5>2
      <4>. QED
        BY <2>1, <4>1, <4>2
    <3>4. has(i, j)
      <4> DEFINE a == Len(Inserted(f[<<i, j - 1>>]))
                 b == dp[<<i, j - 1>>]
                 c == Len(Inserted(f[<<i, j>>]))
                 d == dp[<<i, j>>]
      <4>1. a = j - 1 - b /\ b \in Nat /\ c = a + 1 /\ d = b
        BY <2>2, <2>6, <3>2, <3>3
      <4> HIDE DEF a, b, c, d
      <4>2. c = j - d
        BY <2>1, <4>1
      <4>. QED
        BY <4>2 DEF c, d
    <3>. QED
      BY <1>1, <3>4
  <2>7. CASE /\ i > 0 /\ ~(i > 0 /\ j > 0 /\ old[i] = new[j]) /\ ~BacktrackInserts(dp, i, j)
             /\ f[<<i, j>>] = AddOp(f[<<i - 1, j>>], Delete(1))
    <3>1. f[<<i - 1, j>>] \in Seq(Op)
      BY <1>2, <2>1, <2>7
    <3>2. Len(Inserted(f[<<i, j>>])) = Len(Inserted(f[<<i - 1, j>>])) + 0
      BY <1>3, <1>4, <2>7, <3>1
    <3>3. dp[<<i, j>>] = dp[<<i - 1, j>>]
      <4>1. CASE j = 0
        <5>1. Longest(dp, old, new, i - 1, j)
          BY <1>2, <2>1, <2>7
        <5>. QED
          BY <2>3, <4>1, <5>1 DEF Longest
      <4>2. CASE j > 0
        <5>1. dp[<<i, j>>] = IF dp[<<i - 1, j>>] > dp[<<i, j - 1>>]
                             THEN dp[<<i - 1, j>>] ELSE dp[<<i, j - 1>>]
          BY <2>3, <2>7, <4>2 DEF Longest
        <5>2. ~(dp[<<i, j - 1>>] >= dp[<<i - 1, j>>])
          BY <2>1, <2>7, <4>2 DEF BacktrackInserts
        <5>. QED
          BY <2>2, <2>7, <4>2, <5>1, <5>2
      <4>. QED
        BY <2>1, <4>1, <4>2
    <3>4. has(i, j)
      BY <2>1, <2>2, <2>7, <3>2, <3>3
    <3>. QED
      BY <1>1, <3>4
  <2>. QED
    BY <2>3, <2>4, <2>5, <2>6, <2>7 DEF Continues, dp
<1>6. \A i \in 0..Len(old), j \in 0..Len(new) : <<i, j>> \in T
  BY <1>5, CellInduction
<1>. QED
  BY <1>1, <1>6 DEF f, dp

\* The difference inserts the characters of the new text that are not in common.
LEMMA FewestIs ==
    ASSUME NEW old \in Text, NEW new \in Text
    PROVE  /\ LCS(old, new)[<<Len(old), Len(new)>>] \in Nat
           /\ Fewest(old, new) = Len(new) - LCS(old, new)[<<Len(old), Len(new)>>]
           /\ Fewest(old, new) \in Nat
<1>1. Len(old) \in 0..Len(old) /\ Len(new) \in 0..Len(new)
  BY TextNil
<1>2. LCS(old, new)[<<Len(old), Len(new)>>] \in Nat
  BY <1>1, TableIs DEF Longest
<1>3. DiffToChangeset(old, new).ops = Segments(old, new)[<<Len(old), Len(new)>>]
  BY DEF DiffToChangeset
<1>4. Fewest(old, new) = Len(new) - LCS(old, new)[<<Len(old), Len(new)>>]
  BY <1>1, <1>3, CellInserts DEF Fewest, NewChars
<1>5. Fewest(old, new) \in Nat
  <2>1. DiffToChangeset(old, new).ops \in Seq(Op)
    BY DiffSuits DEF Suits, Fits
  <2>2. Inserted(DiffToChangeset(old, new).ops) \in Text
    BY <2>1, InsertedIs
  <2>. QED
    BY <2>2, TextNil DEF Fewest, NewChars
<1>. QED
  BY <1>2, <1>4, <1>5

\* Operations from the cell of x and y on: what they keep of the old text, the
\* table has in common.
Scripts(x, y, t, q) ==
    LET old == x \o t
        new == y \o Run(t, q)
    IN  LCS(old, new)[<<Len(x), Len(y)>>] + Len(Run(t, q))
            <= LCS(old, new)[<<Len(old), Len(new)>>] + Len(Inserted(q))

\* One operation moves on by what it consumes and makes.
LEMMA ScriptsCons ==
    ASSUME NEW x \in Text, NEW y \in Text, NEW u \in Text, NEW v \in Text,
           NEW o \in Op, Len(u) = Consumes(o), NEW r, Fits(v, r),
           Scripts(x \o u, y \o ResultOf(u, o), v, r), NEW q, NEW t, t = u \o v,
           Run(t, q) = ResultOf(u, o) \o Run(v, r), Inserted(q) = o.chars \o Inserted(r)
    PROVE  Scripts(x, y, t, q)
<1> DEFINE w == ResultOf(u, o)
           z == Run(v, r)
           old == x \o t
           new == y \o Run(t, q)
           i == Len(x)
           j == Len(y)
           dp == LCS(old, new)
<1>1. /\ w \in Text /\ z \in Text /\ o.chars \in Text /\ Inserted(r) \in Text
      /\ o.op \in {"retain", "insert", "delete"} /\ r \in Seq(Op) /\ t \in Text
  BY ResultText, RunText, InsertedIs, TextConcat DEF Op, Fits
<1>2. Run(t, q) = w \o z
  OBVIOUS
<1> HIDE DEF w, z
<1>3. /\ old = (x \o u) \o v /\ new = (y \o w) \o z
      /\ old \in Text /\ new \in Text /\ x \o u \in Text /\ y \o w \in Text /\ w \o z \in Text
  <2>1. x \o u \in Text /\ y \o w \in Text /\ w \o z \in Text
    BY <1>1, TextConcat
  <2>2. (x \o u) \o v \in Text /\ (y \o w) \o z \in Text
    BY <1>1, <2>1, TextConcat
  <2>3. x \o (u \o v) = (x \o u) \o v
    BY TextAssociative
  <2>4. w \in Text /\ z \in Text
    BY <1>1
  <2>5. y \o (w \o z) = (y \o w) \o z
    BY <2>4, TextAssociative
  <2>. QED
    BY <1>2, <2>1, <2>2, <2>3, <2>5
<1> HIDE DEF old, new
<1>4. /\ Len(x \o u) = i + Len(u) /\ Len(y \o w) = j + Len(w) /\ Len(w \o z) = Len(w) + Len(z)
      /\ Len(old) = i + Len(u) + Len(v) /\ Len(new) = j + Len(w) + Len(z)
      /\ i \in Nat /\ j \in Nat /\ Len(u) \in Nat /\ Len(v) \in Nat /\ Len(w) \in Nat /\ Len(z) \in Nat
  <2>1. /\ Len(x \o u) = i + Len(u) /\ Len(y \o w) = j + Len(w) /\ Len(w \o z) = Len(w) + Len(z)
        /\ i \in Nat /\ j \in Nat /\ Len(u) \in Nat /\ Len(v) \in Nat /\ Len(w) \in Nat /\ Len(z) \in Nat
    BY <1>1 DEF Text
  <2>2. Len((x \o u) \o v) = Len(x \o u) + Len(v) /\ Len((y \o w) \o z) = Len(y \o w) + Len(z)
    BY <1>1, <1>3 DEF Text
  <2>. QED
    BY <1>3, <2>1, <2>2
<1>5. /\ \A h \in 1..Len(u) : old[i + h] = u[h]
      /\ \A h \in 1..Len(w) : new[j + h] = w[h]
  <2>1. \A a, b, c \in Text : \A h \in 1..Len(b) : ((a \o b) \o c)[Len(a) + h] = b[h]
    <3>1. SUFFICES ASSUME NEW a \in Text, NEW b \in Text, NEW c \in Text, NEW h \in 1..Len(b)
                   PROVE  ((a \o b) \o c)[Len(a) + h] = b[h]
      OBVIOUS
    <3>2. a \o b \in Text /\ Len(a \o b) = Len(a) + Len(b) /\ Len(a) \in Nat /\ Len(b) \in Nat
      BY DEF Text
    <3>3. Len(a) + h \in 1..Len(a \o b) /\ ~(Len(a) + h <= Len(a)) /\ Len(a) + h - Len(a) = h
      BY <3>2
    <3>4. (a \o b)[Len(a) + h] = b[h]
      BY <3>2, <3>3, ConcatProperties DEF Text
    <3>5. ((a \o b) \o c)[Len(a) + h] = (a \o b)[Len(a) + h]
      BY <3>2, <3>3, ConcatProperties DEF Text
    <3>. QED
      BY <3>4, <3>5
  <2>2. /\ \A h \in 1..Len(u) : ((x \o u) \o v)[Len(x) + h] = u[h]
        /\ \A h \in 1..Len(w) : ((y \o w) \o z)[Len(y) + h] = w[h]
    <3>1. w \in Text /\ z \in Text
      BY <1>1
    <3>2. \A h \in 1..Len(u) : ((x \o u) \o v)[Len(x) + h] = u[h]
      BY <2>1
    <3>3. \A h \in 1..Len(w) : ((y \o w) \o z)[Len(y) + h] = w[h]
      BY <2>1, <3>1
    <3>. QED
      BY <3>2, <3>3
  <2>. QED
    BY <1>3, <2>2
<1>6. Len(o.chars \o Inserted(r)) = Len(o.chars) + Len(Inserted(r))
      /\ Len(o.chars) \in Nat /\ Len(Inserted(r)) \in Nat
  BY <1>1 DEF Text
<1>7. dp[<<i + Len(u), j + Len(w)>>] + Len(z) <= dp[<<Len(old), Len(new)>>] + Len(Inserted(r))
  <2>1. Scripts(x \o u, y \o w, v, r)
    BY DEF w
  <2>. QED
    BY <1>3, <1>4, <2>1 DEF Scripts, z, old, new
<1>8. /\ i \in 0..Len(old) /\ j \in 0..Len(new)
      /\ i + Len(u) \in 0..Len(old) /\ j + Len(w) \in 0..Len(new)
      /\ i + Len(u) <= Len(old) /\ j + Len(w) <= Len(new)
      /\ Len(old) \in 0..Len(old) /\ Len(new) \in 0..Len(new)
  BY <1>4
<1>9. /\ dp[<<i, j>>] \in Nat /\ dp[<<i + Len(u), j + Len(w)>>] \in Nat
      /\ dp[<<Len(old), Len(new)>>] \in Nat
  <2> HIDE DEF i, j
  <2>. QED
    BY <1>3, <1>8, TableIs DEF Longest
<1> DEFINE here == dp[<<i, j>>]
           next == dp[<<i + Len(u), j + Len(w)>>]
           last == dp[<<Len(old), Len(new)>>]
<1>10. here + Len(w) <= next + Len(o.chars)
  <2>1. /\ \A k \in Nat : i + k <= Len(old) => dp[<<i, j>>] <= dp[<<i + k, j>>]
        /\ \A k \in Nat : j + k <= Len(new) => dp[<<i, j>>] <= dp[<<i, j + k>>]
        /\ \A k \in Nat :
              i + k <= Len(old) /\ j + k <= Len(new) /\ (\A h \in 1..k : old[i + h] = new[j + h])
              => dp[<<i + k, j + k>>] = dp[<<i, j>>] + k
    <3>1. i \in 0..Len(old) /\ j \in 0..Len(new) /\ old \in Text /\ new \in Text
      BY <1>3, <1>8
    <3> HIDE DEF i, j
    <3>2. \A k \in Nat : i + k <= Len(old) => LCS(old, new)[<<i, j>>] <= LCS(old, new)[<<i + k, j>>]
      BY <3>1, TableMoves
    <3>3. \A k \in Nat : j + k <= Len(new) => LCS(old, new)[<<i, j>>] <= LCS(old, new)[<<i, j + k>>]
      BY <3>1, TableMoves
    <3>4. \A k \in Nat :
              i + k <= Len(old) /\ j + k <= Len(new) /\ (\A h \in 1..k : old[i + h] = new[j + h])
              => LCS(old, new)[<<i + k, j + k>>] = LCS(old, new)[<<i, j>>] + k
      BY <3>1, TableMoves
    <3>. QED
      BY <3>2, <3>3, <3>4
  <2> HIDE DEF i, j, dp
  <2>2. CASE o.op = "retain"
    <3>1. w = u
      BY <2>2 DEF ResultOf, w
    <3>2. next = here + Len(u)
      BY <1>4, <1>5, <1>8, <2>1, <3>1
    <3>3. here \in Nat
      BY <1>9
    <3> HIDE DEF here, next
    <3>4. Len(w) = Len(u) /\ Len(u) \in Nat /\ Len(o.chars) \in Nat
      BY <1>4, <1>6, <3>1
    <3>. QED
      BY <3>2, <3>3, <3>4
  <2>3. CASE o.op = "insert"
    <3>1. w = o.chars /\ Len(u) = 0
      BY <2>3 DEF ResultOf, Consumes, w
    <3>2. i + Len(u) = i
      BY <1>4, <3>1
    <3>3. here <= next
      BY <1>4, <1>8, <2>1, <3>2
    <3>4. here \in Nat /\ next \in Nat
      BY <1>9
    <3> HIDE DEF here, next
    <3>. QED
      BY <1>4, <1>6, <3>1, <3>3, <3>4
  <2>4. CASE o.op = "delete"
    <3>1. Len(w) = 0
      BY <2>4, TextNil DEF ResultOf, w
    <3>2. j + Len(w) = j
      BY <1>4, <3>1
    <3>3. here <= next
      BY <1>4, <1>8, <2>1, <3>2
    <3>4. here \in Nat /\ next \in Nat
      BY <1>9
    <3> HIDE DEF here, next
    <3>. QED
      BY <1>4, <1>6, <3>1, <3>3, <3>4
  <2>. QED
    BY <1>1, <2>2, <2>3, <2>4
<1> DEFINE n == Len(o.chars)
           m == Len(Inserted(r))
           a == Len(w)
           b == Len(z)
<1>11. here + (a + b) <= last + (n + m)
  <2>1. /\ here \in Nat /\ next \in Nat /\ last \in Nat
        /\ a \in Nat /\ b \in Nat /\ n \in Nat /\ m \in Nat
        /\ here + a <= next + n /\ next + b <= last + m
    BY <1>4, <1>6, <1>7, <1>9, <1>10
  <2> HIDE DEF here, next, last, a, b, n, m
  <2>. QED
    BY <2>1
<1>12. here + Len(w \o z) <= last + Len(o.chars \o Inserted(r))
  BY <1>4, <1>6, <1>11
<1>. QED
  BY <1>2, <1>12 DEF Scripts, dp, i, j, old, new

\* No operations that make one text of another insert fewer characters than the
\* difference of the two.
THEOREM DiffInsertsFewest ==
    ASSUME NEW old, NEW ops, Fits(old, ops)
    PROVE  Fewest(old, Run(old, ops)) <= Len(Inserted(ops))
<1> DEFINE T == {q \in Seq(Op) : \A x, y, t \in Text : Fits(t, q) => Scripts(x, y, t, q)}
<1>1. <<>> \in T
  <2>1. ASSUME NEW x \in Text, NEW y \in Text, NEW t \in Text, Fits(t, <<>>)
        PROVE  Scripts(x, y, t, <<>>)
    <3>1. t = <<>>
      <4>1. Len(t) = 0
        BY <2>1, ConsumedIs DEF Fits
      <4>. QED
        BY <4>1, TextNil
    <3>2. Run(t, <<>>) = <<>> /\ Inserted(<<>>) = <<>> /\ x \o t = x /\ y \o <<>> = y
      BY <3>1, RunNil, InsertedIs, TextConcatNil
    <3>3. Len(x) \in 0..Len(x) /\ Len(y) \in 0..Len(y) /\ LCS(x, y)[<<Len(x), Len(y)>>] \in Nat
      BY TextNil, FewestIs
    <3>4. LCS(x, y)[<<Len(x), Len(y)>>] + Len(<<>>) <= LCS(x, y)[<<Len(x), Len(y)>>] + Len(<<>>)
      BY <3>3, TextNil
    <3>. QED
      BY <3>2, <3>4 DEF Scripts
  <2>. QED
    BY <2>1, EmptySeq
<1>2. ASSUME NEW q \in Seq(Op), q # <<>>, Tail(q) \in T PROVE q \in T
  <2>1. ASSUME NEW x \in Text, NEW y \in Text, NEW t \in Text, Fits(t, q)
        PROVE  Scripts(x, y, t, q)
    <3> DEFINE h == Head(q)
               r == Tail(q)
    <3>1. PICK u, v \in Text : Takes(t, q, u, v)
      BY <1>2, <2>1, FitsHead
    <3>2. /\ t = u \o v /\ Len(u) = Consumes(h) /\ h \in Op /\ Fits(v, r)
          /\ Run(t, q) = ResultOf(u, h) \o Run(v, r)
      BY <3>1 DEF Takes
    <3>3. x \o u \in Text /\ y \o ResultOf(u, h) \in Text
      BY <3>2, TimesResult, TextConcat
    <3>4. Scripts(x \o u, y \o ResultOf(u, h), v, r)
      BY <1>2, <3>2, <3>3
    <3>5. Inserted(q) = h.chars \o Inserted(r)
      BY <1>2, InsertedIs
    <3> HIDE DEF h, r
    <3>. QED
      BY <3>2, <3>4, <3>5, ScriptsCons
  <2>. QED
    BY <1>2, <2>1
<1>3. \A q \in Seq(Op) : q \in T
  <2> HIDE DEF T
  <2>. QED
    BY <1>1, <1>2, ListInduction
<1> DEFINE nil == <<>>
           new == Run(old, ops)
<1>4. old \in Text /\ ops \in Seq(Op) /\ new \in Text /\ nil \in Text
  BY RunText, TextNil DEF Fits
<1>5. Scripts(nil, nil, old, ops)
  BY <1>3, <1>4
<1>6. nil \o old = old /\ nil \o new = new /\ Len(nil) = 0
  BY <1>4, TextConcatNil
<1> HIDE DEF nil
<1>7. LCS(old, new)[<<0, 0>>] + Len(new) <= LCS(old, new)[<<Len(old), Len(new)>>] + Len(Inserted(ops))
  BY <1>5, <1>6 DEF Scripts
<1> HIDE DEF new
<1>8. LCS(old, new)[<<0, 0>>] = 0
  <2>1. 0 \in 0..Len(old) /\ 0 \in 0..Len(new)
    BY <1>4, TextNil
  <2>. QED
    BY <1>4, <2>1, TableIs DEF Longest
<1>9. Len(Inserted(ops)) \in Nat /\ Len(new) \in Nat
  BY <1>4, InsertedIs, TextNil
<1>10. Fewest(old, new) <= Len(Inserted(ops))
  BY <1>4, <1>7, <1>8, <1>9, FewestIs
<1>. QED
  BY <1>10 DEF new

\* One character more: the table of the longer text is that of the shorter up to it,
\* and has one more at most after it.
Beside(d, e, p, i, j) ==
    IF j <= p THEN d[<<i, j>>] = e[<<i, j>>]
    ELSE e[<<i, j - 1>>] <= d[<<i, j>>] /\ d[<<i, j>>] <= e[<<i, j - 1>>] + 1

LEMMA TablesBeside ==
    ASSUME NEW old \in Text, NEW u \in Text, NEW v \in Text, NEW x \in Nat,
           NEW new, new = (u \o <<x>>) \o v, NEW less, less = u \o v
    PROVE  /\ new \in Text /\ less \in Text /\ Len(new) = Len(less) + 1 /\ Len(u) <= Len(less)
           /\ \A i \in 0..Len(old), j \in 0..Len(new) :
                 Beside(LCS(old, new), LCS(old, less), Len(u), i, j)
<1> DEFINE d == LCS(old, new)
           e == LCS(old, less)
           p == Len(u)
           one == <<x>>
           T == {c \in Cells(old, new) : Beside(d, e, p, c[1], c[2])}
<1>1. one \in Text /\ Len(one) = 1 /\ one[1] = x /\ u \o one \in Text /\ new = (u \o one) \o v
  <2>1. one \in Text /\ Len(one) = 1 /\ one[1] = x
    BY DEF Text
  <2>. QED
    BY <2>1, TextConcat
<1> HIDE DEF one
<1>2. /\ new \in Text /\ less \in Text /\ p \in Nat /\ Len(v) \in Nat /\ Len(old) \in Nat
      /\ Len(u \o one) = p + 1 /\ Len(new) = p + 1 + Len(v) /\ Len(less) = p + Len(v)
  <2>1. p \in Nat /\ Len(v) \in Nat /\ Len(old) \in Nat /\ Len(u \o one) = p + 1
    BY <1>1, TextConcat, TextNil
  <2>2. new \in Text /\ less \in Text /\ Len(new) = Len(u \o one) + Len(v) /\ Len(less) = p + Len(v)
    BY <1>1, TextConcat
  <2>. QED
    BY <2>1, <2>2
<1>3. \A j \in 1..p : new[j] = less[j]
  <2>1. SUFFICES ASSUME NEW j \in 1..p PROVE new[j] = less[j]
    OBVIOUS
  <2>2. j \in 1..Len(u \o one) + Len(v) /\ j <= Len(u \o one) /\ j \in 1..Len(u) + Len(one) /\ j <= Len(u)
        /\ j \in 1..Len(u) + Len(v)
    BY <1>1, <1>2
  <2>3. new[j] = (u \o one)[j]
    BY <1>1, <2>2, ConcatProperties DEF Text
  <2>4. (u \o one)[j] = u[j]
    BY <1>1, <2>2, ConcatProperties DEF Text
  <2>5. less[j] = u[j]
    BY <2>2, ConcatProperties DEF Text
  <2>. QED
    BY <2>3, <2>4, <2>5
<1>4. \A j \in p + 2..Len(new) : new[j] = less[j - 1]
  <2>1. SUFFICES ASSUME NEW j \in p + 2..Len(new) PROVE new[j] = less[j - 1]
    OBVIOUS
  <2>2. /\ j \in 1..Len(u \o one) + Len(v) /\ ~(j <= Len(u \o one))
        /\ j - Len(u \o one) = j - 1 - Len(u)
        /\ j - 1 \in 1..Len(u) + Len(v) /\ ~(j - 1 <= Len(u))
    BY <1>1, <1>2
  <2>3. new[j] = v[j - Len(u \o one)]
    BY <1>1, <2>2, ConcatProperties DEF Text
  <2>4. less[j - 1] = v[j - 1 - Len(u)]
    BY <2>2, ConcatProperties DEF Text
  <2>. QED
    BY <2>2, <2>3, <2>4
<1>5. \A i \in 0..Len(old), j \in 0..Len(new) : <<i, j>> \in T <=> Beside(d, e, p, i, j)
  <2> HIDE DEF d, e, p
  <2>. QED
    BY <1>2, CellsAre
<1>6. /\ \A i \in 0..Len(old), j \in 0..Len(new) : Longest(d, old, new, i, j) /\ Smooth(d, i, j)
      /\ \A i \in 0..Len(old), j \in 0..Len(less) : Longest(e, old, less, i, j)
  BY <1>2, TableIs, TableIsSmooth
<1> HIDE DEF T, d, e, p
<1>7. ASSUME NEW i \in 0..Len(old), NEW j \in 0..Len(new),
             i > 0 /\ j > 0 => <<i - 1, j - 1>> \in T,
             i > 0 => <<i - 1, j>> \in T,
             j > 0 => <<i, j - 1>> \in T
      PROVE  <<i, j>> \in T
  <2>1. /\ i \in Nat /\ j \in Nat
        /\ i > 0 => i - 1 \in 0..Len(old)
        /\ j > 0 => j - 1 \in 0..Len(new) /\ j - 1 \in 0..Len(less)
        /\ j <= p => j \in 0..Len(less)
        /\ j > p + 1 => j - 1 > p /\ j - 1 > 0 /\ j - 2 \in 0..Len(less)
    BY <1>2
  <2>2. /\ i > 0 /\ j > 0 => Beside(d, e, p, i - 1, j - 1)
        /\ i > 0 => Beside(d, e, p, i - 1, j)
        /\ j > 0 => Beside(d, e, p, i, j - 1)
    BY <1>5, <1>7, <2>1
  <2>3. Longest(d, old, new, i, j)
    BY <1>6
  <2>4. /\ d[<<i, j>>] \in Nat
        /\ i > 0 => d[<<i - 1, j>>] \in Nat
        /\ j > 0 => d[<<i, j - 1>>] \in Nat /\ e[<<i, j - 1>>] \in Nat
        /\ i > 0 /\ j > 0 => d[<<i - 1, j - 1>>] \in Nat /\ e[<<i - 1, j - 1>>] \in Nat
        /\ j > p + 1 => e[<<i, j - 2>>] \in Nat
        /\ i > 0 /\ j > p + 1 => e[<<i - 1, j - 2>>] \in Nat
    BY <1>6, <2>1 DEF Longest
  <2>5. CASE j <= p
    <3>1. Longest(e, old, less, i, j)
      BY <1>6, <2>1, <2>5
    <3>2. j > 0 => new[j] = less[j]
      BY <1>2, <1>3, <2>1, <2>5
    <3>3. /\ i > 0 /\ j > 0 => d[<<i - 1, j - 1>>] = e[<<i - 1, j - 1>>]
          /\ i > 0 => d[<<i - 1, j>>] = e[<<i - 1, j>>]
          /\ j > 0 => d[<<i, j - 1>>] = e[<<i, j - 1>>]
      BY <1>2, <2>1, <2>2, <2>5 DEF Beside
    <3>4. d[<<i, j>>] = e[<<i, j>>]
      <4>1. CASE i = 0 \/ j = 0
        BY <2>3, <3>1, <4>1 DEF Longest
      <4>2. CASE i > 0 /\ j > 0 /\ old[i] = new[j]
        <5>1. d[<<i, j>>] = d[<<i - 1, j - 1>>] + 1 /\ e[<<i, j>>] = e[<<i - 1, j - 1>>] + 1
          BY <2>3, <3>1, <3>2, <4>2 DEF Longest
        <5>. QED
          BY <3>3, <4>2, <5>1
      <4>3. CASE i > 0 /\ j > 0 /\ old[i] # new[j]
        <5>1. /\ d[<<i, j>>] = IF d[<<i - 1, j>>] > d[<<i, j - 1>>]
                               THEN d[<<i - 1, j>>] ELSE d[<<i, j - 1>>]
              /\ e[<<i, j>>] = IF e[<<i - 1, j>>] > e[<<i, j - 1>>]
                               THEN e[<<i - 1, j>>] ELSE e[<<i, j - 1>>]
          BY <2>3, <3>1, <3>2, <4>3 DEF Longest
        <5>. QED
          BY <3>3, <4>3, <5>1
      <4>. QED
        BY <2>1, <4>1, <4>2, <4>3
    <3>. QED
      BY <1>5, <2>5, <3>4 DEF Beside
  <2>6. CASE j = p + 1
    <3>1. j > 0 /\ j - 1 <= p /\ ~(j <= p)
      BY <1>2, <2>6
    <3>2. d[<<i, j - 1>>] = e[<<i, j - 1>>]
      BY <2>2, <3>1 DEF Beside
    <3>3. d[<<i, j - 1>>] <= d[<<i, j>>] /\ d[<<i, j>>] <= d[<<i, j - 1>>] + 1
      BY <1>6, <3>1 DEF Smooth
    <3>. QED
      BY <1>5, <3>1, <3>2, <3>3 DEF Beside
  <2>7. CASE j > p + 1
    <3>1. /\ ~(j <= p) /\ ~(j - 1 <= p) /\ j > 0 /\ j - 1 > 0 /\ (j - 1) - 1 = j - 2
          /\ new[j] = less[j - 1]
      BY <1>2, <1>4, <2>1, <2>7
    <3>2. Longest(e, old, less, i, j - 1)
      BY <1>6, <2>1, <3>1
    <3> DEFINE a == d[<<i, j>>]
               b == e[<<i, j - 1>>]
    <3>3. a \in Nat /\ b \in Nat
      BY <2>4, <3>1
    <3>4. b <= a /\ a <= b + 1
      <4>1. CASE i = 0
        <5>1. a = 0 /\ b = 0
          BY <2>3, <3>2, <4>1 DEF Longest
        <5>. QED
          BY <5>1
      <4>2. CASE i > 0 /\ old[i] = new[j]
        <5> DEFINE f == d[<<i - 1, j - 1>>]
                   g == e[<<i - 1, j - 2>>]
        <5>1. a = f + 1 /\ b = g + 1
          BY <2>3, <3>1, <3>2, <4>2 DEF Longest
        <5>2. f \in Nat /\ g \in Nat /\ g <= f /\ f <= g + 1
          BY <2>2, <2>4, <2>7, <3>1, <4>2 DEF Beside
        <5> HIDE DEF a, b, f, g
        <5>. QED
          BY <5>1, <5>2
      <4>3. CASE i > 0 /\ old[i] # new[j]
        <5> DEFINE f == d[<<i - 1, j>>]
                   g == e[<<i - 1, j - 1>>]
                   h == d[<<i, j - 1>>]
                   k == e[<<i, j - 2>>]
        <5>1. a = (IF f > h THEN f ELSE h) /\ b = IF g > k THEN g ELSE k
          BY <2>3, <3>1, <3>2, <4>3 DEF Longest
        <5>2. /\ f \in Nat /\ g \in Nat /\ h \in Nat /\ k \in Nat
              /\ g <= f /\ f <= g + 1 /\ k <= h /\ h <= k + 1
          BY <2>2, <2>4, <2>7, <3>1, <4>3 DEF Beside
        <5> HIDE DEF a, b, f, g, h, k
        <5>. QED
          BY <5>1, <5>2
      <4>4. i \in Nat
        BY <2>1
      <4>5. i = 0 \/ i > 0
        BY <4>4
      <4> HIDE DEF a, b
      <4>. QED
        BY <4>1, <4>2, <4>3, <4>5
    <3>. QED
      BY <1>5, <3>1, <3>4 DEF Beside
  <2>. QED
    BY <1>2, <2>1, <2>5, <2>6, <2>7
<1>8. \A i \in 0..Len(old), j \in 0..Len(new) : <<i, j>> \in T
  BY <1>2, <1>7, CellInduction
<1>9. \A i \in 0..Len(old), j \in 0..Len(new) : Beside(d, e, p, i, j)
  BY <1>5, <1>8
<1>10. Len(new) = Len(less) + 1 /\ p <= Len(less)
  BY <1>2
<1>. QED
  BY <1>2, <1>9, <1>10 DEF d, e, p

\* A character that is typed makes the difference at most one longer, one that is
\* erased makes it no longer.
LEMMA FewestBeside ==
    ASSUME NEW old \in Text, NEW u \in Text, NEW v \in Text, NEW x \in Nat
    PROVE  /\ (u \o <<x>>) \o v \in Text /\ u \o v \in Text
           /\ Fewest(old, (u \o <<x>>) \o v) <= Fewest(old, u \o v) + 1
           /\ Fewest(old, u \o v) <= Fewest(old, (u \o <<x>>) \o v)
<1> DEFINE new == (u \o <<x>>) \o v
           less == u \o v
           n == Len(old)
           m == Len(new)
<1>1. /\ new \in Text /\ less \in Text /\ m = Len(less) + 1 /\ Len(u) <= Len(less)
      /\ \A i \in 0..n, j \in 0..m : Beside(LCS(old, new), LCS(old, less), Len(u), i, j)
  BY TablesBeside
<1> HIDE DEF new, less
<1>2. n \in 0..n /\ m \in 0..m /\ m - 1 = Len(less) /\ ~(m <= Len(u)) /\ Len(less) \in Nat
  <2>1. n \in Nat /\ m \in Nat /\ Len(less) \in Nat /\ Len(u) \in Nat
    BY <1>1, TextNil
  <2> HIDE DEF n, m
  <2>. QED
    BY <1>1, <2>1
<1> HIDE DEF n, m
<1>3. /\ LCS(old, less)[<<n, Len(less)>>] <= LCS(old, new)[<<n, m>>]
      /\ LCS(old, new)[<<n, m>>] <= LCS(old, less)[<<n, Len(less)>>] + 1
  BY <1>1, <1>2 DEF Beside
<1> DEFINE a == LCS(old, new)[<<n, m>>]
           b == LCS(old, less)[<<n, Len(less)>>]
<1>4. /\ Fewest(old, new) = m - a /\ Fewest(old, less) = Len(less) - b
      /\ a \in Nat /\ b \in Nat
  BY <1>1, FewestIs DEF n, m
<1> HIDE DEF a, b
<1>5. a <= b + 1 /\ b <= a
  BY <1>3 DEF a, b
<1>6. m - a <= Len(less) - b + 1 /\ Len(less) - b <= m - a
  BY <1>1, <1>2, <1>4, <1>5
<1>7. Fewest(old, new) <= Fewest(old, less) + 1 /\ Fewest(old, less) <= Fewest(old, new)
  BY <1>4, <1>6
<1>. QED
  BY <1>1, <1>7 DEF new, less

\* A text does not differ from itself.
LEMMA FewestNone ==
    ASSUME NEW t \in Text
    PROVE  Fewest(t, t) = 0
<1> DEFINE ops == Identity(Len(t)).ops
<1>1. Fits(t, ops) /\ Run(t, ops) = t /\ Len(Inserted(ops)) = 0
  <2>1. Fits(t, ops) /\ Len(t) \in Nat /\ Inserted(<<>>) = <<>>
    BY IdentitySuits, InsertedIs, TextNil DEF Suits
  <2>2. CASE Len(t) = 0
    <3>1. ops = <<>> /\ t = <<>>
      BY <2>2, TextNil DEF Identity
    <3> HIDE DEF ops
    <3>. QED
      BY <2>1, <3>1, RunNil
  <2>3. CASE Len(t) # 0
    <3>1. ops = <<Retain(Len(t))>>
      BY <2>3 DEF Identity
    <3>2. /\ Retain(Len(t)) \in Op /\ Consumes(Retain(Len(t))) = Len(t)
          /\ ResultOf(t, Retain(Len(t))) = t /\ Retain(Len(t)).chars = <<>>
      BY <2>1, OpsOf DEF Retain, Consumes, ResultOf
    <3> DEFINE o == Retain(Len(t))
    <3> HIDE DEF ops, o
    <3>3. ops = <<o>> /\ o \in Op /\ Consumes(o) = Len(t) /\ ResultOf(t, o) = t /\ o.chars = <<>>
      BY <3>1, <3>2 DEF o
    <3>4. <<>> \in Seq(Op)
      BY EmptySeq
    <3>5. Run(t, <<o>>) = t /\ Inserted(<<o>>) = <<>>
      BY <3>3, <3>4, RunOne, InsertedCons
    <3>. QED
      BY <2>1, <3>3, <3>5
  <2>. QED
    BY <2>2, <2>3
<1> HIDE DEF ops
<1>2. Fewest(t, t) <= 0
  BY <1>1, DiffInsertsFewest
<1>3. Fewest(t, t) \in Nat
  BY FewestIs
<1>. QED
  BY <1>2, <1>3

\* A character more, or less.
LEMMA TimesBeside ==
    ASSUME NEW l, NEW u \in Text, NEW v \in Text, NEW x \in Nat
    PROVE  Times(l, (u \o <<x>>) \o v) = Times(l, u \o v) + IF x = l THEN 1 ELSE 0
<1> DEFINE one == <<x>>
<1>1. one \in Text /\ Times(l, one) = IF x = l THEN 1 ELSE 0
  <2>1. one \in Text
    BY DEF Text
  <2>. QED
    BY <2>1, TimesOne
<1> HIDE DEF one
<1>2. u \o one \in Text
  BY <1>1, TextConcat
<1>3. /\ Times(l, (u \o one) \o v) = Times(l, u \o one) + Times(l, v)
      /\ Times(l, u \o one) = Times(l, u) + Times(l, one)
      /\ Times(l, u \o v) = Times(l, u) + Times(l, v)
  BY <1>1, <1>2, TimesConcat
<1>4. Times(l, u) \in Nat /\ Times(l, v) \in Nat
  BY TimesIs
<1> DEFINE k == IF x = l THEN 1 ELSE 0
<1>5. k \in Nat /\ Times(l, one) = k
  BY <1>1
<1> HIDE DEF k
<1>6. Times(l, (u \o one) \o v) = Times(l, u \o v) + k
  BY <1>3, <1>4, <1>5
<1>. QED
  BY <1>6 DEF k, one

===============================================================================
