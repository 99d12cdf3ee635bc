-------------------------- MODULE FlowControlProofs --------------------------
(***************************************************************************)
(* Theorems about FlowControl, for every pair of water marks, any number   *)
(* of messages of any class, and any flushes: the queue stays in order,    *)
(* and what it and its band structures say of its messages is true.        *)
(*                                                                         *)
(* Order is a matter of ranks: priority messages, then band 1, then band   *)
(* 0.  Where putq and putbq insert a message is described by the ranks on  *)
(* both sides (TailSpot, HeadSpot), and from this alone it follows what    *)
(* becomes of the order, of the counts and of the first messages of bands. *)
(***************************************************************************)
EXTENDS FlowControl, FiniteSetTheorems, SequenceTheorems, WellFoundedInduction, TLAPS

Rank(m) == IF Hi(m) THEN 2 ELSE Band(m)

-----------------------------------------------------------------------------
(* The inductive invariant                                                 *)

\* What each context has in hand, and the pointer that bcanput keeps.
Hands ==
    /\ srv = "msg" => srv_msg # NoMsg
    /\ srv \in {"idle", "getq", "blocked"} => srv_msg = NoMsg
    /\ up # "idle" => up_msg # NoMsg
    /\ up = "want" /\ Band(up_msg) # 0 => up_qp < Len(q_bandp)
    /\ flushes = 0 => fl = "idle"

Sorted(s) == \A i, j \in DOMAIN s : i < j => Rank(s[i]) >= Rank(s[j])

\* The places of the messages of T.  There is one band beside band 0.
Idx(s, T) == {i \in DOMAIN s : s[i] \in T}
OfBand    == {m \in Msg : InBand(m)}
OfQueue   == {m \in Msg : ~InBand(m)}

\* m is the first message of its band on s.
Begins(s, m) == \E k \in Idx(s, OfBand) : s[k] = m /\ \A j \in Idx(s, OfBand) : k <= j
InUse(qb)    == qb.first # NoMsg

\* One structure is used while messages of the band are there, and it is right.
Bands(s, bs) ==
    /\ \A i, j \in DOMAIN bs : InUse(bs[i]) /\ InUse(bs[j]) => i = j
    /\ \A i \in DOMAIN bs : InUse(bs[i]) =>
           bs[i].count = Cardinality(Idx(s, OfBand)) /\ Begins(s, bs[i].first)
    /\ Idx(s, OfBand) # {} => \E i \in DOMAIN bs : InUse(bs[i])
BandsFull(bs) ==
    \A i \in DOMAIN bs : "QB_FULL" \in bs[i].flag <=> bs[i].count > q_hiwat

QueueCount ==
    /\ q_count = Cardinality(Idx(q_first, OfQueue))
    /\ q_count > q_hiwat => "QFULL" \in q_flag
    /\ q_count < q_hiwat => "QFULL" \notin q_flag

\* As long as nothing was flushed: who sent a message numbers it after those it has
\* sent, and what is in hand comes before or after those on the queue.
Alike(x, y) == From(x) = From(y) /\ Rank(x) = Rank(y)
Turns(s)    == \A i, j \in DOMAIN s : i < j /\ Alike(s[i], s[j]) => s[i].id < s[j].id
Fits(m)     == /\ m.id <= IF From(m) THEN sent ELSE MaxUp + put
               /\ up_msg # NoMsg /\ From(m) => m.id < up_msg.id
InTurn ==
    /\ Turns(q_first)
    /\ \A i \in DOMAIN q_first :
           /\ Fits(q_first[i])
           /\ srv_msg # NoMsg /\ Alike(srv_msg, q_first[i]) => srv_msg.id < q_first[i].id
    /\ up_msg # NoMsg => up_msg.id = sent
    /\ srv_msg # NoMsg => Fits(srv_msg)

\* Somebody will look at the queue once more.  If QWANTR is not there for the next
\* message to see, somebody does; if there are messages, somebody does.
Looking ==
    \/ q_enab
    \/ \E x \in Context : owes[x]
    \/ srv \in {"getq", "msg", "blocked"}
    \/ srv # "idle" /\ srv_msg # NoMsg
Attended ==
    /\ "QWANTR" \notin q_flag /\ fl # "walk" => Looking
    /\ q_first # <<>> /\ fl = "idle" => Looking

IInv == /\ TypeOK /\ Hands /\ Sorted(q_first)
        /\ Bands(q_first, q_bandp) /\ BandsFull(q_bandp) /\ QueueCount
        /\ flushes = 0 => InTurn
        /\ Attended

-----------------------------------------------------------------------------
(* Ranks, least numbers, and sequences                                     *)

LEMMA RankType == \A m \in Msg : /\ Rank(m) \in {0, 1, 2} /\ m.id \in Nat
                                 /\ Rank(m) = 2 <=> Hi(m)
                                 /\ Rank(m) = 1 <=> InBand(m)
                                 /\ Band(m) \in {0, 1}
                                 /\ Band(m) = 1 <=> InBand(m)
                                 /\ ~Hi(m) => Rank(m) = Band(m)
  BY DEF Rank, Msg, Class, Hi, Band, InBand

LEMMA LeastNat ==
    ASSUME NEW S \in SUBSET Nat, S # {}
    PROVE  \E n \in S : \A k \in S : n <= k
<1> DEFINE R == OpToRel(<, Nat)
<1>1. IsWellFoundedOn(R, Nat)
  BY NatLessThanWellFounded
<1>2. \A x, y \in Nat : x < y => <<x, y>> \in R
  BY DEF OpToRel
<1> HIDE DEF R
<1>3. \E x \in S : \A y \in S : <<y, x>> \notin R
  BY <1>1, WFMin
<1>4. PICK x \in S : \A y \in S : <<y, x>> \notin R
  BY <1>3
<1>5. ASSUME NEW k \in S PROVE x <= k
  <2>1. x \in Nat /\ k \in Nat /\ <<k, x>> \notin R
    BY <1>4
  <2>2. ~(k < x)
    BY <1>2, <2>1
  <2> QED
    BY <2>1, <2>2
<1> QED
  BY <1>4, <1>5

LEMMA MinIsLeast ==
    ASSUME NEW S \in SUBSET Nat, S # {}
    PROVE  Min(S) \in S /\ \A k \in S : Min(S) <= k
  BY LeastNat DEF Min

LEMMA IdxFinite ==
    ASSUME NEW s \in Seq(Msg), NEW T
    PROVE  IsFiniteSet(Idx(s, T)) /\ Cardinality(Idx(s, T)) \in Nat
<1>1. Idx(s, T) \subseteq 1 .. Len(s)
  BY DEF Idx
<1>2. IsFiniteSet(1 .. Len(s))
  BY FS_Interval
<1> QED
  BY <1>1, <1>2, FS_Subset, FS_CardinalityType

\* What InsertAt makes of a sequence.
LEMMA Inserted ==
    ASSUME NEW s \in Seq(Msg), NEW n \in 0 .. Len(s), NEW m \in Msg
    PROVE  LET t == InsertAt(s, n + 1, m)
           IN  /\ t \in Seq(Msg) /\ Len(t) = Len(s) + 1
               /\ DOMAIN t = 1 .. Len(s) + 1
               /\ t[n + 1] = m
               /\ \A i \in 1 .. n : t[i] = s[i]
               /\ \A i \in n + 1 .. Len(s) : t[i + 1] = s[i]
<1> DEFINE a == SubSeq(s, 1, n)
           b == SubSeq(s, n + 1, Len(s))
           c == a \o <<m>>
           t == c \o b
           l == Len(s)
<1>1. l \in Nat /\ n \in Nat /\ n <= l /\ DOMAIN s = 1 .. l /\ \A j \in 1 .. l : s[j] \in Msg
  BY LenProperties, ElementOfSeq
<1>2. a \in Seq(Msg) /\ Len(a) = n /\ \A j \in 1 .. n : a[j] = s[j]
  <2>1. 1 \in Int /\ n \in Int /\ \A j \in 1 .. n : s[j] \in Msg
    BY <1>1
  <2>2. /\ a \in Seq(Msg) /\ Len(a) = IF 1 <= n THEN n - 1 + 1 ELSE 0
        /\ \A j \in 1 .. n - 1 + 1 : a[j] = s[1 + j - 1]
    BY <2>1, SubSeqProperties
  <2>3. n - 1 + 1 = n /\ (IF 1 <= n THEN n - 1 + 1 ELSE 0) = n /\ \A j \in 1 .. n : 1 + j - 1 = j
    BY <1>1
  <2> HIDE DEF a
  <2> QED
    BY <2>2, <2>3
<1>3. /\ b \in Seq(Msg) /\ Len(b) = l - n
      /\ \A j \in 1 .. l - n : b[j] = s[n + j]
  <2>1. l \in Int /\ n + 1 \in Int /\ \A j \in n + 1 .. l : s[j] \in Msg
    BY <1>1
  <2>2. /\ b \in Seq(Msg) /\ Len(b) = IF n + 1 <= l THEN l - (n + 1) + 1 ELSE 0
        /\ \A j \in 1 .. l - (n + 1) + 1 : b[j] = s[(n + 1) + j - 1]
    BY <2>1, SubSeqProperties
  <2>3. l - (n + 1) + 1 = l - n
    BY <1>1
  <2>4. (IF n + 1 <= l THEN l - n ELSE 0) = l - n
    <3> HIDE DEF l
    <3>1. CASE n + 1 <= l
      BY <3>1
    <3>2. CASE ~(n + 1 <= l)
      <4>1. n = l
        BY <1>1, <3>2
      <4> QED
        BY <1>1, <3>2, <4>1
    <3> QED
      BY <3>1, <3>2
  <2> HIDE DEF b
  <2>5. ASSUME NEW j \in 1 .. l - n PROVE b[j] = s[n + j]
    <3>1. b[j] = s[(n + 1) + j - 1]
      BY <2>2, <2>3
    <3>2. (n + 1) + j - 1 = n + j
      BY <1>1
    <3> QED
      BY <3>1, <3>2
  <2> QED
    BY <2>2, <2>3, <2>4, <2>5
<1>4. InsertAt(s, n + 1, m) = t
  <2>1. (n + 1) - 1 = n
    BY <1>1
  <2>2. InsertAt(s, n + 1, m) = SubSeq(s, 1, (n + 1) - 1) \o <<m>> \o SubSeq(s, n + 1, Len(s))
    BY DEF InsertAt
  <2> QED
    BY <2>1, <2>2
<1> HIDE DEF a, b
<1>5. /\ c \in Seq(Msg) /\ Len(c) = n + 1
      /\ \A j \in 1 .. n + 1 : c[j] = IF j <= n THEN a[j] ELSE m
  <2>1. <<m>> \in Seq(Msg) /\ Len(<<m>>) = 1 /\ <<m>>[1] = m
    OBVIOUS
  <2>2. /\ c \in Seq(Msg) /\ Len(c) = Len(a) + 1
        /\ \A j \in 1 .. Len(a) + 1 : c[j] = IF j <= Len(a) THEN a[j] ELSE <<m>>[j - Len(a)]
    BY <1>2, <2>1, ConcatProperties
  <2> HIDE DEF c
  <2> QED
    BY <1>1, <1>2, <2>1, <2>2
<1> HIDE DEF c
<1>6. /\ t \in Seq(Msg) /\ Len(t) = l + 1
      /\ \A j \in 1 .. l + 1 : t[j] = IF j <= n + 1 THEN c[j] ELSE b[j - (n + 1)]
  <2>1. /\ t \in Seq(Msg) /\ Len(t) = Len(c) + Len(b)
        /\ \A j \in 1 .. Len(c) + Len(b) : t[j] = IF j <= Len(c) THEN c[j] ELSE b[j - Len(c)]
    BY <1>3, <1>5, ConcatProperties
  <2> HIDE DEF t
  <2> QED
    BY <1>1, <1>3, <1>5, <2>1
<1> HIDE DEF t
<1>7. DOMAIN t = 1 .. l + 1
  BY <1>6
<1>8. t[n + 1] = m /\ \A i \in 1 .. n : t[i] = s[i]
  BY <1>1, <1>2, <1>5, <1>6
<1>9. ASSUME NEW i \in n + 1 .. l PROVE t[i + 1] = s[i]
  <2>1. t[i + 1] = b[i - n]
    <3>1. i + 1 \in 1 .. l + 1 /\ ~(i + 1 <= n + 1) /\ (i + 1) - (n + 1) = i - n
      BY <1>1
    <3> QED
      BY <1>6, <3>1
  <2>2. i - n \in 1 .. l - n /\ n + (i - n) = i
    BY <1>1
  <2> QED
    BY <1>3, <2>1, <2>2
<1> QED
  BY <1>4, <1>6, <1>7, <1>8, <1>9

\* Where the places go: up to n they stay, then they move on by one.
LEMMA IdxInserted ==
    ASSUME NEW s \in Seq(Msg), NEW n \in 0 .. Len(s), NEW m \in Msg, NEW T
    PROVE  Cardinality(Idx(InsertAt(s, n + 1, m), T))
               = Cardinality(Idx(s, T)) + (IF m \in T THEN 1 ELSE 0)
<1> DEFINE t == InsertAt(s, n + 1, m)
           S == Idx(s, T)
           R == Idx(t, T) \ {n + 1}
           f == [i \in S |-> IF i <= n THEN i ELSE i + 1]
<1>1. /\ t \in Seq(Msg) /\ DOMAIN t = 1 .. Len(s) + 1 /\ t[n + 1] = m
      /\ \A i \in 1 .. n : t[i] = s[i]
      /\ \A i \in n + 1 .. Len(s) : t[i + 1] = s[i]
  BY Inserted
<1> HIDE DEF t
<1>2. DOMAIN s = 1 .. Len(s) /\ Len(s) \in Nat
  OBVIOUS
<1>3. ASSUME NEW i \in S PROVE f[i] \in R
  <2>1. CASE i <= n
    BY <1>1, <1>2, <2>1 DEF Idx
  <2>2. CASE i > n
    BY <1>1, <1>2, <2>2 DEF Idx
  <2> QED
    BY <1>2, <2>1, <2>2 DEF Idx
<1>4. ASSUME NEW j \in R PROVE \E i \in S : f[i] = j
  <2>1. j \in 1 .. Len(s) + 1 /\ j # n + 1 /\ t[j] \in T
    BY <1>1 DEF Idx
  <2>2. CASE j <= n
    <3>1. j \in S
      BY <1>1, <1>2, <2>1, <2>2 DEF Idx
    <3> QED
      BY <2>2, <3>1
  <2>3. CASE j > n + 1
    <3>1. j - 1 \in n + 1 .. Len(s) /\ (j - 1) + 1 = j
      BY <2>1, <2>3, <1>2
    <3>2. s[j - 1] = t[j]
      BY <1>1, <3>1
    <3>3. j - 1 \in S
      BY <1>2, <2>1, <3>1, <3>2 DEF Idx
    <3>4. f[j - 1] = j
      BY <3>1, <3>3
    <3> QED
      BY <3>3, <3>4
  <2> QED
    BY <2>1, <2>2, <2>3
<1>5. \A i, j \in S : f[i] = f[j] => i = j
  BY <1>2 DEF Idx
<1>6. f \in Bijection(S, R)
  <2>1. f \in [S -> R]
    BY <1>3
  <2> QED
    BY <1>4, <1>5, <2>1 DEF Bijection, Injection, IsInjective, Surjection
<1>7. IsFiniteSet(S) /\ Cardinality(S) \in Nat
  BY IdxFinite
<1>8. IsFiniteSet(R) /\ Cardinality(R) = Cardinality(S)
  BY <1>6, <1>7, FS_Bijection DEF ExistsBijection
<1>9. CASE m \in T
  <2>1. Idx(t, T) = R \union {n + 1} /\ n + 1 \notin R
    BY <1>1, <1>9 DEF Idx
  <2> HIDE DEF S, R
  <2>2. Cardinality(R \union {n + 1}) = Cardinality(R) + 1
    BY <1>8, <2>1, FS_AddElement
  <2>3. Cardinality(Idx(t, T)) = Cardinality(S) + 1
    BY <1>8, <2>1, <2>2
  <2> QED
    BY <1>9, <2>3 DEF t, S
<1>10. CASE m \notin T
  <2>1. Idx(t, T) = R
    BY <1>1, <1>10 DEF Idx
  <2>2. Cardinality(Idx(t, T)) = Cardinality(S)
    BY <1>8, <2>1
  <2> HIDE DEF S
  <2>3. Cardinality(S) + 0 = Cardinality(S)
    BY <1>7
  <2> QED
    BY <1>10, <2>2, <2>3 DEF t, S
<1> QED
  BY <1>9, <1>10

\* The first message is taken: every place moves to the one before it.
LEMMA IdxTail ==
    ASSUME NEW s \in Seq(Msg), s # <<>>, NEW T
    PROVE  /\ \A i : i \in Idx(Tail(s), T) <=> i \in Nat \ {0} /\ i + 1 \in Idx(s, T)
           /\ Cardinality(Idx(Tail(s), T))
                  = Cardinality(Idx(s, T)) - (IF s[1] \in T THEN 1 ELSE 0)
<1> DEFINE t == Tail(s)
           S == Idx(t, T)
           R == Idx(s, T) \ {1}
           f == [i \in S |-> i + 1]
<1>1. /\ t \in Seq(Msg) /\ Len(s) \in Nat \ {0} /\ DOMAIN t = 1 .. Len(s) - 1
      /\ DOMAIN s = 1 .. Len(s)
      /\ \A i \in 1 .. Len(s) - 1 : t[i] = s[i + 1]
  OBVIOUS
<1> HIDE DEF t
<1>2. \A i : i \in S <=> i \in Nat \ {0} /\ i + 1 \in Idx(s, T)
  BY <1>1 DEF Idx
<1>3. \A i \in S : i \in Nat /\ f[i] \in R
  BY <1>2
<1>4. ASSUME NEW j \in R PROVE \E i \in S : f[i] = j
  <2>1. j \in Nat /\ j - 1 \in Nat \ {0} /\ (j - 1) + 1 = j
    BY <1>1 DEF Idx
  <2>2. j - 1 \in S
    BY <1>2, <2>1
  <2> QED
    BY <2>1, <2>2
<1>5. \A i, j \in S : f[i] = f[j] => i = j
  BY <1>3
<1>6. f \in Bijection(S, R)
  <2>1. f \in [S -> R]
    BY <1>3
  <2> QED
    BY <1>4, <1>5, <2>1 DEF Bijection, Injection, IsInjective, Surjection
<1>7. IsFiniteSet(Idx(s, T)) /\ Cardinality(Idx(s, T)) \in Nat /\ IsFiniteSet(S)
      /\ Cardinality(S) \in Nat
  BY <1>1, IdxFinite
<1>8. Cardinality(R) = Cardinality(S)
  BY <1>6, <1>7, FS_Bijection DEF ExistsBijection
<1>9. 1 \in Idx(s, T) <=> s[1] \in T
  BY <1>1 DEF Idx
<1>10. Cardinality(R) = Cardinality(Idx(s, T)) - (IF s[1] \in T THEN 1 ELSE 0)
  <2>1. CASE s[1] \in T
    BY <1>7, <1>9, <2>1, FS_RemoveElement
  <2>2. CASE s[1] \notin T
    <3>1. Idx(s, T) \ {1} = Idx(s, T)
      BY <1>9, <2>2
    <3>2. Cardinality(Idx(s, T)) - 0 = Cardinality(Idx(s, T))
      BY <1>7
    <3> QED
      BY <2>2, <3>1, <3>2
  <2> QED
    BY <2>1, <2>2
<1> QED
  BY <1>2, <1>8, <1>10 DEF t

-----------------------------------------------------------------------------
(* Where putq and putbq insert                                             *)

\* m belongs after n others: behind those of its rank, or ahead of them.
Behind(s, n, m) == /\ n \in 0 .. Len(s)
                   /\ \A i \in 1 .. n : Rank(s[i]) >= Rank(m)
                   /\ \A i \in n + 1 .. Len(s) : Rank(s[i]) < Rank(m)
Ahead(s, n, m)  == /\ n \in 0 .. Len(s)
                   /\ \A i \in 1 .. n : Rank(s[i]) > Rank(m)
                   /\ \A i \in n + 1 .. Len(s) : Rank(s[i]) <= Rank(m)

LEMMA LeadingHiRank ==
    ASSUME NEW s \in Seq(Msg), Sorted(s)
    PROVE  /\ LeadingHi(s) \in 0 .. Len(s)
           /\ \A i \in 1 .. LeadingHi(s) : Rank(s[i]) = 2
           /\ \A i \in LeadingHi(s) + 1 .. Len(s) : Rank(s[i]) < 2
<1>1. DOMAIN s = 1 .. Len(s) /\ Len(s) \in Nat /\ \A i \in 1 .. Len(s) : s[i] \in Msg
  OBVIOUS
<1> DEFINE N == {i \in 1 .. Len(s) + 1 : i = Len(s) + 1 \/ ~Hi(s[i])}
<1>2. N \in SUBSET Nat /\ N # {}
  BY <1>1
<1>3. PICK k \in N : \A j \in N : k <= j
  BY <1>2, LeastNat
<1>4. k \in 1 .. Len(s) + 1 /\ \A i \in 1 .. k - 1 : Hi(s[i])
  BY <1>1, <1>3
<1>5. ASSUME NEW i \in DOMAIN s PROVE (\A j \in 1 .. i : Hi(s[j])) <=> i \in 1 .. k - 1
  <2>1. CASE i < k
    BY <1>1, <1>4, <2>1
  <2>2. CASE i >= k
    <3>1. k \in 1 .. i /\ ~Hi(s[k])
      BY <1>1, <1>3, <2>2
    <3> QED
      BY <1>1, <1>4, <2>2, <3>1
  <2> QED
    BY <1>1, <1>4, <2>1, <2>2
<1>6. {i \in DOMAIN s : \A j \in 1 .. i : Hi(s[j])} = 1 .. k - 1
  BY <1>1, <1>4, <1>5
<1>7. LeadingHi(s) = k - 1
  <2>1. Cardinality(1 .. k - 1) = IF 1 > k - 1 THEN 0 ELSE (k - 1) - 1 + 1
    BY <1>4, FS_Interval
  <2>2. (IF 1 > k - 1 THEN 0 ELSE (k - 1) - 1 + 1) = k - 1
    BY <1>1, <1>4
  <2> QED
    BY <1>6, <2>1, <2>2 DEF LeadingHi
<1>8. ASSUME NEW i \in k .. Len(s) PROVE Rank(s[i]) < 2
  <2>1. k \in 1 .. Len(s) /\ ~Hi(s[k]) /\ s[k] \in Msg /\ s[i] \in Msg /\ i \in 1 .. Len(s)
    BY <1>1, <1>3, <1>4
  <2>2. Rank(s[k]) \in {0, 1}
    BY <2>1, RankType
  <2>3. Rank(s[k]) >= Rank(s[i])
    <3>1. CASE i = k
      BY <2>2, <3>1
    <3>2. CASE i # k
      <4>1. k < i
        BY <1>1, <2>1, <3>2
      <4> QED
        BY <1>1, <2>1, <4>1 DEF Sorted
    <3> QED
      BY <3>1, <3>2
  <2>4. Rank(s[i]) \in {0, 1, 2}
    BY <2>1, RankType
  <2> QED
    BY <2>2, <2>3, <2>4
<1>9. \A i \in 1 .. k - 1 : Rank(s[i]) = 2
  BY <1>1, <1>4, RankType
<1>10. (k - 1) + 1 = k /\ k - 1 \in 0 .. Len(s)
  BY <1>1, <1>4
<1> QED
  BY <1>7, <1>8, <1>9, <1>10

\* find_q_spot_tail: behind all of the same rank.
LEMMA TailSpot ==
    ASSUME NEW s \in Seq(Msg), Sorted(s), NEW m \in Msg
    PROVE  Behind(s, find_q_spot_tail(s, m), m)
<1> DEFINE n == find_q_spot_tail(s, m)
           L == LeadingHi(s)
<1>1. /\ DOMAIN s = 1 .. Len(s) /\ Len(s) \in Nat
      /\ \A i \in 1 .. Len(s) : s[i] \in Msg /\ Rank(s[i]) \in {0, 1, 2}
      /\ Rank(m) \in {0, 1, 2}
  BY RankType
<1>2. CASE s = <<>>
  BY <1>1, <1>2 DEF find_q_spot_tail, Behind
<1>3. CASE s # <<>> /\ (Hi(Last(s)) \/ (~Hi(m) /\ Band(m) <= Band(Last(s))))
  <2>1. Len(s) \in 1 .. Len(s) /\ Last(s) = s[Len(s)]
    BY <1>1, <1>3 DEF Last
  <2>2. Rank(s[Len(s)]) >= Rank(m)
    BY <1>1, <1>3, <2>1, RankType
  <2>3. ASSUME NEW i \in 1 .. Len(s) PROVE Rank(s[i]) >= Rank(m)
    <3>1. CASE i = Len(s)
      BY <2>2, <3>1
    <3>2. CASE i # Len(s)
      <4>0. i < Len(s) /\ i \in DOMAIN s /\ Len(s) \in DOMAIN s
        <5> DEFINE len == Len(s)
        <5>1. len \in Nat /\ i \in 1 .. len /\ i # len /\ DOMAIN s = 1 .. len
          BY <1>1, <3>2
        <5> HIDE DEF len
        <5>2. i < len /\ i \in DOMAIN s /\ len \in DOMAIN s
          BY <5>1
        <5> QED
          BY <5>2 DEF len
      <4>1. Rank(s[i]) >= Rank(s[Len(s)])
        BY <4>0 DEF Sorted
      <4> QED
        BY <1>1, <2>1, <2>2, <4>1
    <3> QED
      BY <3>1, <3>2
  <2>4. n = Len(s)
    BY <1>3 DEF find_q_spot_tail
  <2> HIDE DEF n
  <2>5. n \in 0 .. Len(s) /\ \A i \in n + 1 .. Len(s) : Rank(s[i]) < Rank(m)
    BY <1>1, <2>4
  <2>6. Behind(s, n, m)
    BY <2>3, <2>4, <2>5 DEF Behind
  <2> QED
    BY <2>6 DEF n
<1>4. CASE s # <<>> /\ ~(Hi(Last(s)) \/ (~Hi(m) /\ Band(m) <= Band(Last(s))))
  <2>1. L \in 0 .. Len(s) /\ (\A i \in 1 .. L : Rank(s[i]) = 2)
        /\ \A i \in L + 1 .. Len(s) : Rank(s[i]) < 2
    BY LeadingHiRank
  <2> HIDE DEF L
  <2>2. CASE Hi(m)
    <3>1. n = L
      BY <1>4, <2>2 DEF find_q_spot_tail, L
    <3>2. Rank(m) = 2
      BY <2>2, RankType
    <3> HIDE DEF n
    <3>3. ASSUME NEW i \in 1 .. n PROVE Rank(s[i]) >= Rank(m)
      BY <2>1, <3>1, <3>2
    <3>4. ASSUME NEW i \in n + 1 .. Len(s) PROVE Rank(s[i]) < Rank(m)
      BY <2>1, <3>1, <3>2
    <3>5. Behind(s, n, m)
      BY <2>1, <3>1, <3>3, <3>4 DEF Behind
    <3> QED
      BY <3>5 DEF n
  <2>3. CASE ~Hi(m)
    <3> DEFINE F == {i \in L + 1 .. Len(s) : Band(s[i]) < Band(m)}
    <3>1. n = IF F = {} THEN Len(s) ELSE Min(F) - 1
      BY <1>4, <2>3 DEF find_q_spot_tail, Before, L, Min
    <3>2. F \in SUBSET (L + 1 .. Len(s))
      OBVIOUS
    <3> HIDE DEF n, F
    <3>3. n \in L .. Len(s) /\ (\A i \in L + 1 .. n : i \notin F) /\ (n < Len(s) => n + 1 \in F)
      <4> DEFINE len == Len(s)
                 l == Min(F)
      <4>1. len \in Nat /\ L \in 0 .. len /\ F \subseteq L + 1 .. len
            /\ n = IF F = {} THEN len ELSE l - 1
        BY <1>1, <2>1, <3>1, <3>2
      <4>2. F # {} => l \in F /\ \A j \in F : l <= j
        <5>1. F \in SUBSET Nat
          BY <4>1
        <5> QED
          BY <5>1, MinIsLeast
      <4> HIDE DEF len, l
      <4>3. CASE F = {}
        <5>1. n = len
          BY <4>1, <4>3
        <5> QED
          BY <4>1, <4>3, <5>1 DEF len
      <4>4. CASE F # {}
        <5>1. l \in L + 1 .. len /\ n = l - 1 /\ l \in F /\ \A j \in F : l <= j
          BY <4>1, <4>2, <4>4
        <5>2. n \in L .. len /\ n + 1 = l
          BY <4>1, <5>1
        <5>3. ASSUME NEW i \in L + 1 .. n PROVE i \notin F
          <6>1. i \in Int /\ l \in Int /\ ~(l <= i)
            BY <4>1, <5>1
          <6> QED
            BY <5>1, <6>1
        <5> QED
          BY <5>1, <5>2, <5>3 DEF len
      <4> QED
        BY <4>3, <4>4
    <3>4. Rank(m) = Band(m) /\ Rank(m) \in {0, 1}
      BY <2>3, RankType
    <3>5. \A i \in L + 1 .. Len(s) : Rank(s[i]) = Band(s[i])
      BY <1>1, <2>1, RankType
    <3>6. ASSUME NEW i \in 1 .. n PROVE Rank(s[i]) >= Rank(m)
      <4>1. CASE i <= L
        BY <2>1, <3>3, <3>4, <4>1
      <4>2. CASE i > L
        <5>1. i \in L + 1 .. n /\ i \in L + 1 .. Len(s)
          BY <1>1, <2>1, <3>3, <4>2
        <5>2. ~(Band(s[i]) < Band(m))
          BY <3>3, <5>1 DEF F
        <5> QED
          BY <1>1, <3>4, <3>5, <5>1, <5>2
      <4> QED
        BY <2>1, <3>3, <4>1, <4>2
    <3>7. ASSUME NEW i \in n + 1 .. Len(s) PROVE Rank(s[i]) < Rank(m)
      <4>1. n + 1 \in L + 1 .. Len(s) /\ Rank(s[n + 1]) < Rank(m)
        <5>1. n < Len(s)
          BY <1>1, <2>1, <3>3
        <5>2. n + 1 \in F
          BY <3>3, <5>1
        <5> QED
          BY <3>4, <3>5, <5>2 DEF F
      <4>2. Rank(s[n + 1]) >= Rank(s[i])
        <5>1. CASE i = n + 1
          BY <1>1, <2>1, <3>3, <4>1, <5>1
        <5>2. CASE i # n + 1
          BY <1>1, <2>1, <3>3, <4>1, <5>2 DEF Sorted
        <5> QED
          BY <5>1, <5>2
      <4>3. s[i] \in Msg /\ s[n + 1] \in Msg
        BY <1>1, <2>1, <3>3, <4>1
      <4>4. Rank(s[i]) \in {0, 1, 2} /\ Rank(s[n + 1]) \in {0, 1, 2}
        BY <4>3, RankType
      <4> QED
        BY <3>4, <4>1, <4>2, <4>4
    <3>8. n \in 0 .. Len(s)
      BY <1>1, <2>1, <3>3
    <3>9. Behind(s, n, m)
      BY <3>6, <3>7, <3>8 DEF Behind
    <3> QED
      BY <3>9 DEF n
  <2> QED
    BY <2>2, <2>3
<1> QED
  BY <1>2, <1>3, <1>4

\* find_q_spot_head: ahead of all of the same rank.
LEMMA HeadSpot ==
    ASSUME NEW s \in Seq(Msg), Sorted(s), NEW m \in Msg
    PROVE  Ahead(s, find_q_spot_head(s, m), m)
<1> DEFINE n == find_q_spot_head(s, m)
           L == LeadingHi(s)
<1>1. /\ DOMAIN s = 1 .. Len(s) /\ Len(s) \in Nat
      /\ \A i \in 1 .. Len(s) : s[i] \in Msg /\ Rank(s[i]) \in {0, 1, 2}
      /\ Rank(m) \in {0, 1, 2}
  BY RankType
<1>2. CASE s = <<>> \/ Hi(m) \/ (~Hi(s[1]) /\ Band(m) >= Band(s[1]))
  <2>1. n = 0
    BY <1>2 DEF find_q_spot_head
  <2>2. ASSUME NEW i \in 1 .. Len(s) PROVE Rank(s[i]) <= Rank(m)
    <3>1. CASE Hi(m)
      BY <1>1, <3>1, RankType
    <3>2. CASE ~Hi(m)
      <4>1. 1 \in 1 .. Len(s) /\ s[1] \in Msg /\ s # <<>>
        BY <1>1
      <4>2. Rank(s[1]) <= Rank(m) /\ Rank(s[1]) \in {0, 1, 2}
        BY <1>2, <3>2, <4>1, RankType
      <4>3. Rank(s[1]) >= Rank(s[i])
        <5>1. CASE i = 1
          BY <4>2, <5>1
        <5>2. CASE i # 1
          BY <1>1, <4>1, <5>2 DEF Sorted
        <5> QED
          BY <5>1, <5>2
      <4>4. Rank(s[i]) \in {0, 1, 2}
        BY <1>1
      <4> QED
        BY <1>1, <4>2, <4>3, <4>4
    <3> QED
      BY <3>1, <3>2
  <2> HIDE DEF n
  <2>3. Ahead(s, n, m)
    BY <1>1, <2>1, <2>2 DEF Ahead
  <2> QED
    BY <2>3 DEF n
<1>3. CASE ~(s = <<>> \/ Hi(m) \/ (~Hi(s[1]) /\ Band(m) >= Band(s[1])))
  <2>1. L \in 0 .. Len(s) /\ (\A i \in 1 .. L : Rank(s[i]) = 2)
        /\ \A i \in L + 1 .. Len(s) : Rank(s[i]) < 2
    BY LeadingHiRank
  <2> HIDE DEF L
  <2> DEFINE F == {i \in L + 1 .. Len(s) : Band(s[i]) <= Band(m)}
  <2>2. n = IF F = {} THEN Len(s) ELSE Min(F) - 1
    BY <1>3 DEF find_q_spot_head, Before, L, Min
  <2>3. F \in SUBSET (L + 1 .. Len(s))
    OBVIOUS
  <2> HIDE DEF n, F
  <2>4. n \in L .. Len(s) /\ (\A i \in L + 1 .. n : i \notin F) /\ (n < Len(s) => n + 1 \in F)
    <3> DEFINE len == Len(s)
               l == Min(F)
    <3>1. len \in Nat /\ L \in 0 .. len /\ F \subseteq L + 1 .. len
          /\ n = IF F = {} THEN len ELSE l - 1
      BY <1>1, <2>1, <2>2, <2>3
    <3>2. F # {} => l \in F /\ \A j \in F : l <= j
      <4>1. F \in SUBSET Nat
        BY <3>1
      <4> QED
        BY <4>1, MinIsLeast
    <3> HIDE DEF len, l
    <3>3. CASE F = {}
      <4>1. n = len
        BY <3>1, <3>3
      <4> QED
        BY <3>1, <3>3, <4>1 DEF len
    <3>4. CASE F # {}
      <4>1. l \in L + 1 .. len /\ n = l - 1 /\ l \in F /\ \A j \in F : l <= j
        BY <3>1, <3>2, <3>4
      <4>2. n \in L .. len /\ n + 1 = l
        BY <3>1, <4>1
      <4>3. ASSUME NEW i \in L + 1 .. n PROVE i \notin F
        <5>1. i \in Int /\ l \in Int /\ ~(l <= i)
          BY <3>1, <4>1
        <5> QED
          BY <4>1, <5>1
      <4> QED
        BY <4>1, <4>2, <4>3 DEF len
    <3> QED
      BY <3>3, <3>4
  <2>5. Rank(m) = Band(m) /\ Rank(m) \in {0, 1}
    BY <1>3, RankType
  <2>6. \A i \in L + 1 .. Len(s) : Rank(s[i]) = Band(s[i])
    BY <1>1, <2>1, RankType
  <2>7. ASSUME NEW i \in 1 .. n PROVE Rank(s[i]) > Rank(m)
    <3>1. CASE i <= L
      BY <2>1, <2>4, <2>5, <3>1
    <3>2. CASE i > L
      <4>1. i \in L + 1 .. n /\ i \in L + 1 .. Len(s)
        BY <1>1, <2>1, <2>4, <3>2
      <4>2. ~(Band(s[i]) <= Band(m))
        BY <2>4, <4>1 DEF F
      <4> QED
        BY <1>1, <2>5, <2>6, <4>1, <4>2
    <3> QED
      BY <2>1, <2>4, <3>1, <3>2
  <2>8. ASSUME NEW i \in n + 1 .. Len(s) PROVE Rank(s[i]) <= Rank(m)
    <3>1. n + 1 \in L + 1 .. Len(s) /\ Rank(s[n + 1]) <= Rank(m)
      <4>1. n < Len(s)
        BY <1>1, <2>1, <2>4
      <4>2. n + 1 \in F
        BY <2>4, <4>1
      <4> QED
        BY <2>5, <2>6, <4>2 DEF F
    <3>2. Rank(s[n + 1]) >= Rank(s[i])
      <4>1. CASE i = n + 1
        BY <1>1, <2>1, <2>4, <3>1, <4>1
      <4>2. CASE i # n + 1
        BY <1>1, <2>1, <2>4, <3>1, <4>2 DEF Sorted
      <4> QED
        BY <4>1, <4>2
    <3>3. s[i] \in Msg /\ s[n + 1] \in Msg
      BY <1>1, <2>1, <2>4, <3>1
    <3>4. Rank(s[i]) \in {0, 1, 2} /\ Rank(s[n + 1]) \in {0, 1, 2}
      BY <3>3, RankType
    <3> QED
      BY <2>5, <3>1, <3>2, <3>4
  <2>9. n \in 0 .. Len(s)
    BY <1>1, <2>1, <2>4
  <2>10. Ahead(s, n, m)
    BY <2>7, <2>8, <2>9 DEF Ahead
  <2> QED
    BY <2>10 DEF n
<1> QED
  BY <1>2, <1>3

\* An order that holds among the messages of s, and between them and m, holds
\* when m has been inserted; and messages of the new sequence are m or of s.
LEMMA PairsInserted ==
    ASSUME NEW s \in Seq(Msg), NEW n \in 0 .. Len(s), NEW m \in Msg, NEW R,
           \A i, j \in DOMAIN s : i < j => <<s[i], s[j]>> \in R,
           \A i \in 1 .. n : <<s[i], m>> \in R,
           \A i \in n + 1 .. Len(s) : <<m, s[i]>> \in R
    PROVE  \A i, j \in DOMAIN InsertAt(s, n + 1, m) : i < j =>
               <<InsertAt(s, n + 1, m)[i], InsertAt(s, n + 1, m)[j]>> \in R
<1> DEFINE t == InsertAt(s, n + 1, m)
           l == Len(s)
<1>1. /\ DOMAIN t = 1 .. l + 1 /\ t[n + 1] = m
      /\ \A i \in 1 .. n : t[i] = s[i]
      /\ \A i \in n + 1 .. l : t[i + 1] = s[i]
  BY Inserted
<1>2. DOMAIN s = 1 .. l /\ l \in Nat /\ n \in 0 .. l
  OBVIOUS
<1> HIDE DEF t, l
<1>3. \A i \in n + 2 .. l + 1 : i - 1 \in n + 1 .. l /\ t[i] = s[i - 1]
  <2> TAKE i \in n + 2 .. l + 1
  <2>1. i - 1 \in n + 1 .. l /\ (i - 1) + 1 = i
    BY <1>2
  <2> QED
    BY <1>1, <2>1
<1>4. SUFFICES ASSUME NEW i \in 1 .. l + 1, NEW j \in 1 .. l + 1, i < j
               PROVE  <<t[i], t[j]>> \in R
  BY <1>1 DEF t
<1>5. CASE j <= n
  <2>1. i \in 1 .. n /\ j \in 1 .. n /\ i \in DOMAIN s /\ j \in DOMAIN s
    BY <1>2, <1>4, <1>5
  <2> QED
    BY <1>1, <1>4, <2>1
<1>6. CASE j = n + 1
  <2>1. i \in 1 .. n
    BY <1>2, <1>4, <1>6
  <2> QED
    BY <1>1, <1>6, <2>1
<1>7. CASE j > n + 1
  <2>1. j \in n + 2 .. l + 1
    BY <1>2, <1>4, <1>7
  <2>2. j - 1 \in n + 1 .. l /\ t[j] = s[j - 1] /\ j - 1 \in DOMAIN s
    BY <1>2, <1>3, <2>1
  <2>3. CASE i <= n
    <3>1. i \in 1 .. n /\ i \in DOMAIN s /\ i < j - 1
      BY <1>2, <1>4, <2>2, <2>3
    <3> QED
      BY <1>1, <2>2, <3>1
  <2>4. CASE i = n + 1
    <3>1. t[i] = m /\ <<m, s[j - 1]>> \in R
      <4>1. j - 1 \in n + 1 .. Len(s)
        BY <2>2 DEF l
      <4> QED
        BY <1>1, <2>4, <4>1
    <3> QED
      BY <2>2, <3>1
  <2>5. CASE i > n + 1
    <3>1. i \in n + 2 .. l + 1
      BY <1>2, <1>4, <2>5
    <3>2. i - 1 \in DOMAIN s /\ t[i] = s[i - 1] /\ i - 1 < j - 1
      BY <1>2, <1>3, <1>4, <3>1
    <3> QED
      BY <2>2, <3>2
  <2> QED
    BY <1>2, <1>4, <2>3, <2>4, <2>5
<1> QED
  BY <1>2, <1>4, <1>5, <1>6, <1>7

LEMMA MembersInserted ==
    ASSUME NEW s \in Seq(Msg), NEW n \in 0 .. Len(s), NEW m \in Msg
    PROVE  \A i \in DOMAIN InsertAt(s, n + 1, m) :
               \/ InsertAt(s, n + 1, m)[i] = m
               \/ \E j \in DOMAIN s : InsertAt(s, n + 1, m)[i] = s[j]
<1> DEFINE t == InsertAt(s, n + 1, m)
           l == Len(s)
<1>1. /\ DOMAIN t = 1 .. l + 1 /\ t[n + 1] = m
      /\ \A i \in 1 .. n : t[i] = s[i]
      /\ \A i \in n + 1 .. l : t[i + 1] = s[i]
  BY Inserted
<1>2. DOMAIN s = 1 .. l /\ l \in Nat /\ n \in 0 .. l
  OBVIOUS
<1> HIDE DEF t, l
<1>3. SUFFICES ASSUME NEW i \in 1 .. l + 1
               PROVE  t[i] = m \/ \E j \in DOMAIN s : t[i] = s[j]
  BY <1>1 DEF t
<1>4. CASE i <= n
  <2>1. i \in 1 .. n /\ i \in DOMAIN s
    BY <1>2, <1>3, <1>4
  <2> QED
    BY <1>1, <2>1
<1>5. CASE i > n + 1
  <2>1. i - 1 \in n + 1 .. l /\ (i - 1) + 1 = i /\ i - 1 \in DOMAIN s
    BY <1>2, <1>3, <1>5
  <2> QED
    BY <1>1, <2>1
<1> QED
  BY <1>1, <1>2, <1>3, <1>4, <1>5

\* Whether behind or ahead of those of its rank: the queue stays sorted.
LEMMA SortedInserted ==
    ASSUME NEW s \in Seq(Msg), Sorted(s), NEW m \in Msg, NEW n,
           Behind(s, n, m) \/ Ahead(s, n, m)
    PROVE  Sorted(InsertAt(s, n + 1, m))
<1> DEFINE R == {p \in Msg \X Msg : Rank(p[1]) >= Rank(p[2])}
           t == InsertAt(s, n + 1, m)
<1>1. /\ n \in 0 .. Len(s) /\ DOMAIN s = 1 .. Len(s)
      /\ \A i \in 1 .. n : Rank(s[i]) >= Rank(m)
      /\ \A i \in n + 1 .. Len(s) : Rank(s[i]) <= Rank(m)
  <2>1. \A i \in 1 .. Len(s) : s[i] \in Msg /\ Rank(s[i]) \in {0, 1, 2}
    BY RankType
  <2>2. n \in 0 .. Len(s) /\ Rank(m) \in {0, 1, 2}
    BY RankType DEF Behind, Ahead
  <2>3. ASSUME NEW i \in 1 .. n PROVE Rank(s[i]) >= Rank(m)
    <3>1. i \in 1 .. Len(s) /\ (Rank(s[i]) >= Rank(m) \/ Rank(s[i]) > Rank(m))
      BY <2>2 DEF Behind, Ahead
    <3> QED
      BY <2>1, <2>2, <3>1
  <2>4. ASSUME NEW i \in n + 1 .. Len(s) PROVE Rank(s[i]) <= Rank(m)
    <3>1. i \in 1 .. Len(s) /\ (Rank(s[i]) <= Rank(m) \/ Rank(s[i]) < Rank(m))
      BY <2>2 DEF Behind, Ahead
    <3> QED
      BY <2>1, <2>2, <3>1
  <2> QED
    BY <2>2, <2>3, <2>4
<1>2. \A i \in 1 .. Len(s) : s[i] \in Msg
  OBVIOUS
<1>3. \A x, y \in Msg : <<x, y>> \in R <=> Rank(x) >= Rank(y)
  OBVIOUS
<1> HIDE DEF R
<1>4. \A i, j \in DOMAIN s : i < j => <<s[i], s[j]>> \in R
  BY <1>1, <1>2, <1>3 DEF Sorted
<1>5. \A i \in 1 .. n : <<s[i], m>> \in R
  BY <1>1, <1>2, <1>3
<1>6. \A i \in n + 1 .. Len(s) : <<m, s[i]>> \in R
  <2> TAKE i \in n + 1 .. Len(s)
  <2>1. s[i] \in Msg /\ Rank(s[i]) <= Rank(m) /\ Rank(s[i]) \in {0, 1, 2} /\ Rank(m) \in {0, 1, 2}
    <3>1. i \in 1 .. Len(s)
      BY <1>1
    <3> QED
      BY <1>1, <1>2, <3>1, RankType
  <2> QED
    BY <1>3, <2>1
<1>7. \A i, j \in DOMAIN t : i < j => <<t[i], t[j]>> \in R
  BY <1>1, <1>4, <1>5, <1>6, PairsInserted
<1>8. t \in Seq(Msg)
  BY <1>1, Inserted
<1> HIDE DEF t
<1>9. Sorted(t)
  <2> SUFFICES ASSUME NEW i \in DOMAIN t, NEW j \in DOMAIN t, i < j
               PROVE  Rank(t[i]) >= Rank(t[j])
    BY DEF Sorted
  <2>1. t[i] \in Msg /\ t[j] \in Msg
    BY <1>8
  <2>2. <<t[i], t[j]>> \in R
    BY <1>7
  <2> QED
    BY <1>3, <2>1, <2>2
<1> QED
  BY <1>9 DEF t

-----------------------------------------------------------------------------
(* The band structures                                                     *)

LEMMA OfBandRank == /\ \A m : m \in OfBand <=> m \in Msg /\ Rank(m) = 1
                    /\ \A m \in Msg : m \in OfQueue <=> m \notin OfBand
  BY RankType DEF OfBand, OfQueue

\* A structure that is in use has its band's first message.
LEMMA UsedIsOfBand ==
    ASSUME NEW s \in Seq(Msg), NEW m, Begins(s, m)
    PROVE  m \in Msg /\ InBand(m) /\ Band(m) = 1 /\ Idx(s, OfBand) # {}
<1>1. PICK k \in Idx(s, OfBand) : s[k] = m
  BY DEF Begins
<1>2. m \in OfBand
  BY <1>1 DEF Idx
<1>3. m \in Msg /\ InBand(m)
  BY <1>2 DEF OfBand
<1> QED
  BY <1>1, <1>3, RankType

LEMMA FindQband ==
    ASSUME NEW s \in Seq(Msg), NEW bs \in Seq(BandRec), Bands(s, bs), BandsFull(bs)
    PROVE  LET fb == find_qband(bs, 1)
           IN  /\ fb.bs \in Seq(BandRec) /\ fb.i \in DOMAIN fb.bs
               /\ Len(fb.bs) >= Len(bs)
               /\ Bands(s, fb.bs) /\ BandsFull(fb.bs)
               /\ \A j \in DOMAIN fb.bs : InUse(fb.bs[j]) => j = fb.i
               /\ InUse(fb.bs[fb.i]) <=> Idx(s, OfBand) # {}
               /\ ~InUse(fb.bs[fb.i]) => fb.bs[fb.i] = NewBand
<1> DEFINE used == {i \in DOMAIN bs : bs[i].first # NoMsg /\ Band(bs[i].first) = 1}
           free == {i \in DOMAIN bs : bs[i].first = NoMsg}
           fb   == find_qband(bs, 1)
<1>1. DOMAIN bs = 1 .. Len(bs) /\ Len(bs) \in Nat /\ \A i \in DOMAIN bs : bs[i] \in BandRec
  OBVIOUS
<1>2. NewBand \in BandRec /\ ~InUse(NewBand) /\ ~("QB_FULL" \in NewBand.flag) /\ NewBand.count = 0
  BY DEF NewBand, BandRec, InUse
<1>3. \A i \in DOMAIN bs : InUse(bs[i]) <=> i \in used
  <2> TAKE i \in DOMAIN bs
  <2>1. InUse(bs[i]) => Band(bs[i].first) = 1
    BY UsedIsOfBand DEF Bands
  <2> QED
    BY <2>1 DEF InUse
<1>4. q_hiwat \in Nat
  BY FlowAssumption
<1>5. fb = IF used # {} THEN [bs |-> bs, i |-> Min(used)]
           ELSE IF free # {} THEN [bs |-> [bs EXCEPT ![Min(free)] = NewBand], i |-> Min(free)]
           ELSE [bs |-> <<NewBand>> \o bs, i |-> 1]
  BY DEF find_qband
<1> HIDE DEF fb
<1>6. used # {} <=> Idx(s, OfBand) # {}
  <2>1. ASSUME Idx(s, OfBand) # {} PROVE used # {}
    BY <1>3, <2>1 DEF Bands
  <2>2. ASSUME used # {} PROVE Idx(s, OfBand) # {}
    <3>1. PICK i \in DOMAIN bs : i \in used
      BY <2>2
    <3>2. InUse(bs[i])
      BY <1>3, <3>1
    <3> QED
      BY <3>2, UsedIsOfBand DEF Bands
  <2> QED
    BY <2>1, <2>2
<1>7. CASE used # {}
  <2>1. used \in SUBSET Nat
    BY <1>1
  <2>2. Min(used) \in used
    BY <1>7, <2>1, MinIsLeast
  <2>3. fb.bs = bs /\ fb.i = Min(used) /\ fb.i \in DOMAIN bs /\ InUse(bs[fb.i])
    BY <1>3, <1>5, <1>7, <2>2
  <2>4. \A j \in DOMAIN bs : InUse(bs[j]) => j = fb.i
    BY <2>3 DEF Bands
  <2> QED
    BY <1>1, <1>6, <1>7, <2>3, <2>4 DEF fb
<1>8. CASE used = {} /\ free # {}
  <2>1. free \in SUBSET Nat
    BY <1>1
  <2>2. Min(free) \in free
    BY <1>8, <2>1, MinIsLeast
  <2> DEFINE k == Min(free)
  <2>3. fb.bs = [bs EXCEPT ![k] = NewBand] /\ fb.i = k /\ k \in DOMAIN bs
    BY <1>5, <1>8, <2>2
  <2> HIDE DEF k
  <2>4. fb.bs \in Seq(BandRec) /\ Len(fb.bs) = Len(bs) /\ DOMAIN fb.bs = DOMAIN bs
    BY <1>2, <2>3
  <2>5. \A j \in DOMAIN bs : fb.bs[j] = IF j = k THEN NewBand ELSE bs[j]
    BY <1>1, <2>3
  <2>6. \A j \in DOMAIN bs : ~InUse(fb.bs[j])
    BY <1>2, <1>3, <1>8, <2>5
  <2>7. Bands(s, fb.bs)
    BY <1>6, <1>8, <2>4, <2>6 DEF Bands
  <2>8. BandsFull(fb.bs)
    <3> SUFFICES ASSUME NEW j \in DOMAIN bs
                 PROVE  "QB_FULL" \in fb.bs[j].flag <=> fb.bs[j].count > q_hiwat
      BY <2>4 DEF BandsFull
    <3>1. CASE j = k
      <4>1. fb.bs[j] = NewBand
        BY <2>5, <3>1
      <4>2. ~(0 > q_hiwat)
        BY <1>4
      <4> QED
        BY <1>2, <4>1, <4>2
    <3>2. CASE j # k
      BY <2>5, <3>2 DEF BandsFull
    <3> QED
      BY <3>1, <3>2
  <2>9. fb.bs[fb.i] = NewBand
    BY <2>3, <2>5
  <2> QED
    BY <1>1, <1>2, <1>6, <1>8, <2>3, <2>4, <2>6, <2>7, <2>8, <2>9 DEF fb
<1>9. CASE used = {} /\ free = {}
  <2>1. fb.bs = <<NewBand>> \o bs /\ fb.i = 1
    BY <1>5, <1>9
  <2>2. DOMAIN bs = {}
    <3> SUFFICES ASSUME NEW i \in DOMAIN bs PROVE FALSE
      OBVIOUS
    <3>1. InUse(bs[i])
      BY <1>9 DEF InUse
    <3> QED
      BY <1>3, <1>9, <3>1
  <2>3. bs = <<>> /\ Len(bs) = 0
    BY <1>1, <2>2
  <2>4. fb.bs = <<NewBand>>
    BY <2>1, <2>3
  <2>5. fb.bs \in Seq(BandRec) /\ Len(fb.bs) = 1 /\ DOMAIN fb.bs = {1} /\ fb.bs[1] = NewBand
    BY <1>2, <2>4
  <2>6. Bands(s, fb.bs)
    BY <1>2, <1>6, <1>9, <2>5 DEF Bands
  <2>7. BandsFull(fb.bs)
    <3>1. ~(0 > q_hiwat)
      BY <1>4
    <3> QED
      BY <1>2, <2>5, <3>1 DEF BandsFull
  <2> QED
    BY <1>2, <1>6, <1>9, <2>1, <2>3, <2>5, <2>6, <2>7 DEF fb
<1> QED
  BY <1>7, <1>8, <1>9

\* One structure is changed while no other is in use.
LEMMA BandChanged ==
    ASSUME NEW t \in Seq(Msg), NEW bs \in Seq(BandRec), NEW k \in DOMAIN bs,
           NEW r \in BandRec, BandsFull(bs),
           \A j \in DOMAIN bs : InUse(bs[j]) => j = k,
           InUse(r) => r.count = Cardinality(Idx(t, OfBand)) /\ Begins(t, r.first),
           Idx(t, OfBand) # {} => InUse(r),
           "QB_FULL" \in r.flag <=> r.count > q_hiwat
    PROVE  LET bt == [bs EXCEPT ![k] = r]
           IN  bt \in Seq(BandRec) /\ Len(bt) = Len(bs) /\ Bands(t, bt) /\ BandsFull(bt)
<1> DEFINE bt == [bs EXCEPT ![k] = r]
<1>1. bt \in Seq(BandRec) /\ Len(bt) = Len(bs) /\ DOMAIN bt = DOMAIN bs
  OBVIOUS
<1>2. \A j \in DOMAIN bs : bt[j] = IF j = k THEN r ELSE bs[j]
  OBVIOUS
<1> HIDE DEF bt
<1>3. \A j \in DOMAIN bt : InUse(bt[j]) => j = k /\ bt[j] = r
  BY <1>1, <1>2
<1>4. Bands(t, bt)
  BY <1>1, <1>2, <1>3 DEF Bands
<1>5. BandsFull(bt)
  BY <1>1, <1>2 DEF BandsFull
<1> QED
  BY <1>1, <1>4, <1>5 DEF bt
\* Where the places are after an insertion.
LEMMA IdxMoves ==
    ASSUME NEW s \in Seq(Msg), NEW n \in 0 .. Len(s), NEW m \in Msg, NEW T
    PROVE  LET t == InsertAt(s, n + 1, m)
           IN  /\ \A k \in Idx(s, T) : IF k <= n THEN k \in Idx(t, T) /\ t[k] = s[k]
                                       ELSE k + 1 \in Idx(t, T) /\ t[k + 1] = s[k]
               /\ \A j \in Idx(t, T) : \/ j <= n /\ j \in Idx(s, T)
                                       \/ j = n + 1 /\ m \in T
                                       \/ j > n + 1 /\ j - 1 \in Idx(s, T)
               /\ m \in T => n + 1 \in Idx(t, T)
               /\ t[n + 1] = m
<1> DEFINE t == InsertAt(s, n + 1, m)
           l == Len(s)
<1>1. /\ DOMAIN t = 1 .. l + 1 /\ t[n + 1] = m
      /\ \A i \in 1 .. n : t[i] = s[i]
      /\ \A i \in n + 1 .. l : t[i + 1] = s[i]
  BY Inserted
<1>2. DOMAIN s = 1 .. l /\ l \in Nat /\ n \in 0 .. l
  OBVIOUS
<1> HIDE DEF t, l
<1>3. ASSUME NEW k \in Idx(s, T)
      PROVE  IF k <= n THEN k \in Idx(t, T) /\ t[k] = s[k]
             ELSE k + 1 \in Idx(t, T) /\ t[k + 1] = s[k]
  <2>1. k \in 1 .. l /\ s[k] \in T
    BY <1>2 DEF Idx
  <2>2. CASE k <= n
    <3>1. k \in 1 .. n /\ k \in 1 .. l + 1
      BY <1>2, <2>1, <2>2
    <3> QED
      BY <1>1, <2>1, <2>2, <3>1 DEF Idx
  <2>3. CASE ~(k <= n)
    <3>1. k \in n + 1 .. l /\ k + 1 \in 1 .. l + 1
      BY <1>2, <2>1, <2>3
    <3> QED
      BY <1>1, <2>1, <2>3, <3>1 DEF Idx
  <2> QED
    BY <2>2, <2>3
<1>4. ASSUME NEW j \in Idx(t, T)
      PROVE  \/ j <= n /\ j \in Idx(s, T)
             \/ j = n + 1 /\ m \in T
             \/ j > n + 1 /\ j - 1 \in Idx(s, T)
  <2>1. j \in 1 .. l + 1 /\ t[j] \in T
    BY <1>1 DEF Idx
  <2>2. CASE j <= n
    <3>1. j \in 1 .. n /\ j \in 1 .. l
      BY <1>2, <2>1, <2>2
    <3> QED
      BY <1>1, <1>2, <2>1, <2>2, <3>1 DEF Idx
  <2>3. CASE j = n + 1
    BY <1>1, <2>1, <2>3
  <2>4. CASE j > n + 1
    <3>1. j - 1 \in n + 1 .. l /\ (j - 1) + 1 = j /\ j - 1 \in 1 .. l
      BY <1>2, <2>1, <2>4
    <3> QED
      BY <1>1, <1>2, <2>1, <2>4, <3>1 DEF Idx
  <2> QED
    BY <1>2, <2>1, <2>2, <2>3, <2>4
<1>5. n + 1 \in 1 .. l + 1
  BY <1>2
<1>6. m \in T => n + 1 \in Idx(t, T)
  BY <1>1, <1>5 DEF Idx
<1> QED
  BY <1>1, <1>3, <1>4, <1>6 DEF t

\* A message of the band is inserted: it, or the first there was, is the first.
LEMMA BeginsInserted ==
    ASSUME NEW s \in Seq(Msg), Sorted(s), NEW m \in OfBand, NEW n,
           Behind(s, n, m) \/ Ahead(s, n, m), NEW f,
           f # NoMsg => Begins(s, f), f = NoMsg => Idx(s, OfBand) = {}
    PROVE  LET t == InsertAt(s, n + 1, m)
           IN  Begins(t, IF f = NoMsg \/ (n + 2 <= Len(t) /\ t[n + 2] = f) THEN m ELSE f)
<1> DEFINE t == InsertAt(s, n + 1, m)
           g == IF f = NoMsg \/ (n + 2 <= Len(t) /\ t[n + 2] = f) THEN m ELSE f
           S == Idx(s, OfBand)
<1>1. /\ m \in Msg /\ Rank(m) = 1 /\ n \in 0 .. Len(s) /\ Len(s) \in Nat
      /\ DOMAIN s = 1 .. Len(s) /\ \A i \in 1 .. Len(s) : s[i] \in Msg /\ Rank(s[i]) \in {0, 1, 2}
      /\ \A k \in S : k \in 1 .. Len(s) /\ Rank(s[k]) = 1
  BY OfBandRank, RankType DEF Behind, Ahead, Idx
<1>2. Len(t) = Len(s) + 1 /\ \A i \in n + 1 .. Len(s) : t[i + 1] = s[i]
  BY <1>1, Inserted
<1>3. /\ \A k \in S : IF k <= n THEN k \in Idx(t, OfBand) /\ t[k] = s[k]
                      ELSE k + 1 \in Idx(t, OfBand) /\ t[k + 1] = s[k]
      /\ \A j \in Idx(t, OfBand) : \/ j <= n /\ j \in S
                                   \/ j = n + 1
                                   \/ j > n + 1 /\ j - 1 \in S
      /\ n + 1 \in Idx(t, OfBand) /\ t[n + 1] = m
  BY <1>1, IdxMoves
<1>4. \A j \in Idx(t, OfBand) : j \in Nat
  <2>1. t \in Seq(Msg)
    BY <1>1, Inserted
  <2> HIDE DEF t
  <2> QED
    BY <2>1 DEF Idx
<1> HIDE DEF t
<1>5. CASE f = NoMsg
  <2>1. S = {} /\ g = m
    BY <1>5
  <2>2. \A j \in Idx(t, OfBand) : j <= n \/ n + 1 <= j
    BY <1>1, <1>4
  <2>3. \A j \in Idx(t, OfBand) : n + 1 <= j
    BY <1>1, <1>3, <1>4, <2>1
  <2>4. Begins(t, m)
    BY <1>3, <2>3 DEF Begins
  <2> QED
    BY <2>1, <2>4 DEF t
<1>6. CASE f # NoMsg
  <2>1. PICK k \in S : s[k] = f /\ \A j \in S : k <= j
    BY <1>6 DEF Begins
  <2>2. k \in 1 .. Len(s) /\ Rank(s[k]) = 1
    BY <1>1
  <2>3. CASE Behind(s, n, m)
    <3>1. \A i \in n + 1 .. Len(s) : Rank(s[i]) < 1
      BY <1>1, <2>3 DEF Behind
    <3>2. k <= n
      <4>1. ~(k \in n + 1 .. Len(s))
        BY <2>2, <3>1
      <4> QED
        BY <1>1, <2>2, <4>1
    <3>3. ~(n + 2 <= Len(t) /\ t[n + 2] = f)
      <4> SUFFICES ASSUME n + 2 <= Len(t), t[n + 2] = f PROVE FALSE
        OBVIOUS
      <4>1. n + 1 \in n + 1 .. Len(s) /\ (n + 1) + 1 = n + 2
        BY <1>1, <1>2
      <4>2. t[n + 2] = s[n + 1]
        BY <1>2, <4>1
      <4>3. Rank(s[n + 1]) < 1
        BY <3>1, <4>1
      <4> QED
        BY <2>1, <2>2, <4>2, <4>3
    <3>4. g = f
      BY <1>6, <3>3
    <3>5. k \in Idx(t, OfBand) /\ t[k] = f
      BY <1>3, <2>1, <3>2
    <3>6. ASSUME NEW j \in Idx(t, OfBand) PROVE k <= j
      <4>1. j \in Nat /\ (j \in S \/ j > n)
        BY <1>1, <1>3, <1>4
      <4> QED
        BY <1>1, <2>1, <2>2, <3>2, <4>1
    <3>7. Begins(t, f)
      BY <3>5, <3>6 DEF Begins
    <3> QED
      BY <3>4, <3>7 DEF t
  <2>4. CASE Ahead(s, n, m)
    <3>1. /\ \A i \in 1 .. n : Rank(s[i]) > 1
          /\ \A i \in n + 1 .. Len(s) : Rank(s[i]) <= 1
      BY <1>1, <2>4 DEF Ahead
    <3>2. \A j \in S : j \in n + 1 .. Len(s)
      <4> SUFFICES ASSUME NEW j \in S PROVE j \in n + 1 .. Len(s)
        OBVIOUS
      <4>1. j \in 1 .. Len(s) /\ Rank(s[j]) = 1
        BY <1>1
      <4>2. ~(j \in 1 .. n)
        BY <3>1, <4>1
      <4> QED
        BY <1>1, <4>1, <4>2
    <3>3. n + 1 \in 1 .. Len(s) /\ n + 1 \in n + 1 .. Len(s)
      BY <1>1, <3>2
    <3>4. Rank(s[n + 1]) >= 1
      <4>1. CASE k = n + 1
        BY <2>2, <4>1
      <4>2. CASE k # n + 1
        <5>1. n + 1 < k /\ n + 1 \in DOMAIN s /\ k \in DOMAIN s
          BY <1>1, <2>2, <3>2, <3>3, <4>2
        <5>2. Rank(s[n + 1]) >= Rank(s[k])
          BY <5>1 DEF Sorted
        <5> QED
          BY <2>2, <5>2
      <4> QED
        BY <4>1, <4>2
    <3>5. Rank(s[n + 1]) = 1
      BY <1>1, <3>1, <3>3, <3>4
    <3>6. n + 1 \in S
      BY <1>1, <3>3, <3>5, OfBandRank DEF Idx
    <3>7. k = n + 1
      BY <1>1, <2>1, <2>2, <3>2, <3>6
    <3>8. n + 2 <= Len(t) /\ t[n + 2] = f
      <4>1. (n + 1) + 1 = n + 2
        BY <1>1
      <4>2. t[(n + 1) + 1] = s[n + 1]
        BY <1>2, <3>3
      <4>3. n + 2 <= Len(t)
        BY <1>1, <1>2, <3>3
      <4> QED
        BY <2>1, <3>7, <4>1, <4>2, <4>3
    <3>9. g = m
      BY <3>8
    <3>10. ASSUME NEW j \in Idx(t, OfBand) PROVE n + 1 <= j
      <4>1. j \in Nat /\ (j \in S \/ j > n)
        BY <1>1, <1>3, <1>4
      <4> QED
        BY <1>1, <3>2, <4>1
    <3>11. Begins(t, m)
      BY <1>3, <3>10 DEF Begins
    <3> QED
      BY <3>9, <3>11 DEF t
  <2> QED
    BY <2>3, <2>4
<1> QED
  BY <1>5, <1>6

\* A message of another class is inserted: the band stays as it is.
LEMMA BandsInsertedBeside ==
    ASSUME NEW s \in Seq(Msg), NEW m \in OfQueue, NEW n \in 0 .. Len(s), NEW bs,
           Bands(s, bs)
    PROVE  Bands(InsertAt(s, n + 1, m), bs)
<1> DEFINE t == InsertAt(s, n + 1, m)
           S == Idx(s, OfBand)
<1>1. m \in Msg /\ m \notin OfBand
  BY OfBandRank DEF OfQueue
<1>2. /\ \A k \in S : IF k <= n THEN k \in Idx(t, OfBand) /\ t[k] = s[k]
                      ELSE k + 1 \in Idx(t, OfBand) /\ t[k + 1] = s[k]
      /\ \A j \in Idx(t, OfBand) : \/ j <= n /\ j \in S
                                   \/ j > n + 1 /\ j - 1 \in S
  BY <1>1, IdxMoves
<1>3. Cardinality(Idx(t, OfBand)) = Cardinality(S)
  <2>1. Cardinality(Idx(t, OfBand)) = Cardinality(S) + 0
    BY <1>1, IdxInserted
  <2>2. Cardinality(S) \in Nat
    BY IdxFinite
  <2> HIDE DEF S, t
  <2> QED
    BY <2>1, <2>2
<1>4. (\A k \in S : k \in Nat) /\ n \in Nat /\ \A j \in Idx(t, OfBand) : j \in Nat
  <2>1. t \in Seq(Msg)
    BY <1>1, Inserted
  <2> HIDE DEF t
  <2> QED
    BY <2>1 DEF Idx
<1> HIDE DEF t
<1>5. Idx(t, OfBand) # {} => S # {}
  BY <1>2
<1>6. ASSUME NEW f, Begins(s, f) PROVE Begins(t, f)
  <2>1. PICK k \in S : s[k] = f /\ \A j \in S : k <= j
    BY <1>6 DEF Begins
  <2> DEFINE l == IF k <= n THEN k ELSE k + 1
  <2>2. l \in Idx(t, OfBand) /\ t[l] = f
    BY <1>2, <2>1
  <2>3. ASSUME NEW j \in Idx(t, OfBand) PROVE l <= j
    <3>1. j \in Nat /\ k \in Nat
      BY <1>4
    <3>2. CASE j <= n /\ j \in S
      <4>1. k <= j
        BY <2>1, <3>2
      <4> QED
        BY <1>4, <3>1, <3>2, <4>1
    <3>3. CASE j > n + 1 /\ j - 1 \in S
      <4>1. k <= j - 1
        BY <2>1, <3>3
      <4> QED
        BY <1>4, <3>1, <3>3, <4>1
    <3> QED
      BY <1>2, <3>2, <3>3
  <2> HIDE DEF l
  <2> QED
    BY <2>2, <2>3 DEF Begins
<1>7. Bands(t, bs)
  BY <1>3, <1>5, <1>6 DEF Bands
<1> QED
  BY <1>7 DEF t

\* The first message, one of the band, is taken.
LEMMA BeginsTail ==
    ASSUME NEW s \in Seq(Msg), s # <<>>, Sorted(s), s[1] \in OfBand,
           NEW m \in Msg, Band(m) = 1
    PROVE  /\ NextInBand(Tail(s), m) # NoMsg => Begins(Tail(s), NextInBand(Tail(s), m))
           /\ Idx(Tail(s), OfBand) # {} => NextInBand(Tail(s), m) # NoMsg
           /\ NextInBand(Tail(s), m) \in Msg \cup {NoMsg}
<1> DEFINE t == Tail(s)
           f == NextInBand(t, m)
<1>1. /\ t \in Seq(Msg) /\ Len(s) \in Nat \ {0} /\ DOMAIN t = 1 .. Len(s) - 1
      /\ DOMAIN s = 1 .. Len(s)
      /\ \A i \in 1 .. Len(s) - 1 : t[i] = s[i + 1] /\ t[i] \in Msg
  OBVIOUS
<1> HIDE DEF t
<1>2. t # <<>> => 1 \in DOMAIN t
  BY <1>1
<1>3. CASE f # NoMsg
  <2>1. t # <<>> /\ f = t[1] /\ Band(t[1]) = 1
    BY <1>3 DEF NextInBand
  <2>2. t[1] \in Msg /\ InBand(t[1])
    BY <1>1, <1>2, <2>1, RankType
  <2>3. 1 \in Idx(t, OfBand)
    BY <1>2, <2>1, <2>2 DEF Idx, OfBand
  <2>4. \A j \in Idx(t, OfBand) : 1 <= j
    BY <1>1 DEF Idx
  <2>5. Begins(t, f)
    BY <2>1, <2>3, <2>4 DEF Begins
  <2> QED
    BY <1>3, <2>1, <2>2, <2>5 DEF t
<1>4. CASE f = NoMsg
  <2>1. t = <<>> \/ Band(t[1]) # 1
    <3>1. ASSUME t # <<>>, Band(t[1]) = 1 PROVE FALSE
      <4>1. f = t[1] /\ t[1] \in Msg
        BY <1>1, <1>2, <3>1 DEF NextInBand
      <4> QED
        BY <1>4, <4>1, FlowAssumption
    <3> QED
      BY <3>1
  <2>2. Idx(t, OfBand) = {}
    <3> SUFFICES ASSUME NEW i \in Idx(t, OfBand) PROVE FALSE
      OBVIOUS
    <3>1. i \in 1 .. Len(s) - 1 /\ t[i] \in OfBand /\ t # <<>>
      BY <1>1 DEF Idx
    <3>2. 1 \in DOMAIN t /\ t[1] \in Msg /\ t[1] = s[2] /\ 2 \in DOMAIN s /\ 1 \in DOMAIN s
      BY <1>1, <1>2, <3>1
    <3>3. Rank(s[1]) >= Rank(s[2])
      BY <3>2 DEF Sorted
    <3>4. Rank(s[1]) = 1 /\ Rank(t[1]) \in {0, 1, 2}
      BY <3>2, OfBandRank, RankType
    <3>5. Rank(t[i]) = 1
      BY <3>1, OfBandRank
    <3>6. Rank(t[1]) >= Rank(t[i])
      <4>1. CASE i = 1
        BY <3>4, <4>1
      <4>2. CASE i # 1
        <5>1. 2 < i + 1 /\ i + 1 \in DOMAIN s /\ t[i] = s[i + 1]
          BY <1>1, <3>1, <4>2
        <5>2. Rank(s[2]) >= Rank(s[i + 1])
          BY <3>2, <5>1 DEF Sorted
        <5> QED
          BY <3>2, <5>1, <5>2
      <4> QED
        BY <4>1, <4>2
    <3>7. Rank(t[1]) = 1
      BY <3>2, <3>3, <3>4, <3>5, <3>6
    <3>8. Band(t[1]) = 1
      BY <3>2, <3>7, RankType
    <3> QED
      BY <2>1, <3>1, <3>8
  <2> QED
    BY <1>4, <2>2 DEF t
<1> QED
  BY <1>3, <1>4

\* Another message is taken.
LEMMA BandsTailBeside ==
    ASSUME NEW s \in Seq(Msg), s # <<>>, s[1] \notin OfBand, NEW bs, Bands(s, bs)
    PROVE  Bands(Tail(s), bs)
<1> DEFINE t == Tail(s)
           S == Idx(s, OfBand)
           R == Idx(t, OfBand)
<1>1. \A i : i \in R <=> i \in Nat \ {0} /\ i + 1 \in S
  BY IdxTail
<1>2. Cardinality(R) = Cardinality(S)
  <2>1. Cardinality(R) = Cardinality(S) - 0
    BY IdxTail
  <2>2. Cardinality(S) \in Nat
    BY IdxFinite
  <2> HIDE DEF S, R
  <2> QED
    BY <2>1, <2>2
<1>3. (\A k \in S : k \in Nat /\ k >= 2) /\ \A i \in Nat \ {0} : i + 1 \in S => t[i] = s[i + 1]
  <2>1. /\ DOMAIN s = 1 .. Len(s) /\ Len(s) \in Nat \ {0}
        /\ \A i \in 1 .. Len(s) - 1 : t[i] = s[i + 1]
    OBVIOUS
  <2> HIDE DEF t
  <2>2. ASSUME NEW k \in S PROVE k \in Nat /\ k >= 2
    <3>1. k \in 1 .. Len(s) /\ k # 1
      BY <2>1 DEF Idx
    <3> QED
      BY <2>1, <3>1
  <2>3. ASSUME NEW i \in Nat \ {0}, i + 1 \in S PROVE t[i] = s[i + 1]
    <3>1. i + 1 \in 1 .. Len(s)
      BY <2>1, <2>3 DEF Idx
    <3>2. i \in 1 .. Len(s) - 1
      BY <2>1, <3>1
    <3> QED
      BY <2>1, <3>2
  <2> QED
    BY <2>2, <2>3
<1> HIDE DEF t
<1>4. R # {} => S # {}
  BY <1>1
<1>5. ASSUME NEW f, Begins(s, f) PROVE Begins(t, f)
  <2>1. PICK k \in S : s[k] = f /\ \A j \in S : k <= j
    BY <1>5 DEF Begins
  <2>2. k \in Nat /\ k >= 2 /\ k - 1 \in Nat \ {0} /\ (k - 1) + 1 = k
    BY <1>3
  <2>3. k - 1 \in R /\ t[k - 1] = f
    BY <1>1, <1>3, <2>1, <2>2
  <2>4. ASSUME NEW j \in R PROVE k - 1 <= j
    <3>1. j \in Nat /\ j + 1 \in S
      BY <1>1
    <3>2. k <= j + 1
      BY <2>1, <3>1
    <3> QED
      BY <2>2, <3>1, <3>2
  <2> QED
    BY <2>3, <2>4 DEF Begins
<1>6. Bands(t, bs)
  BY <1>2, <1>4, <1>5 DEF Bands
<1> QED
  BY <1>6 DEF t

\* A queue that loses its first message stays sorted.
LEMMA SortedTail ==
    ASSUME NEW s \in Seq(Msg), s # <<>>, Sorted(s)
    PROVE  Sorted(Tail(s))
<1> DEFINE t == Tail(s)
<1>1. /\ Len(s) \in Nat \ {0} /\ DOMAIN t = 1 .. Len(s) - 1 /\ DOMAIN s = 1 .. Len(s)
      /\ \A i \in 1 .. Len(s) - 1 : t[i] = s[i + 1]
  OBVIOUS
<1> HIDE DEF t
<1>2. ASSUME NEW i \in DOMAIN t, NEW j \in DOMAIN t, i < j
      PROVE  Rank(t[i]) >= Rank(t[j])
  <2>1. i + 1 \in DOMAIN s /\ j + 1 \in DOMAIN s /\ i + 1 < j + 1
    BY <1>1, <1>2
  <2>2. Rank(s[i + 1]) >= Rank(s[j + 1])
    BY <2>1 DEF Sorted
  <2> QED
    BY <1>1, <2>2
<1>3. Sorted(t)
  BY <1>2 DEF Sorted
<1> QED
  BY <1>3 DEF t
-----------------------------------------------------------------------------
(* The queue through its critical sections                                 *)

Queue == /\ q_first \in Seq(Msg) /\ q_count \in Nat /\ q_flag \in SUBSET Flag
         /\ q_bandp \in Seq(BandRec)
         /\ Sorted(q_first) /\ Bands(q_first, q_bandp) /\ BandsFull(q_bandp)
         /\ QueueCount

LEMMA HiwatNat == q_hiwat \in Nat /\ q_lowat \in Nat /\ q_lowat <= q_hiwat
  BY FlowAssumption

\* Put, at either spot.
LEMMA PutKeeps ==
    ASSUME Queue, NEW x, NEW m \in Msg, NEW n, Put(x, n, m),
           Behind(q_first, n, m) \/ Ahead(q_first, n, m)
    PROVE  Queue' /\ Len(q_bandp') >= Len(q_bandp)
<1> DEFINE s == q_first
           t == InsertAt(s, n + 1, m)
<1>1. /\ s \in Seq(Msg) /\ n \in 0 .. Len(s) /\ t \in Seq(Msg) /\ q_first' = t
      /\ q_count \in Nat /\ q_flag \in SUBSET Flag /\ q_bandp \in Seq(BandRec)
      /\ Sorted(s) /\ Bands(s, q_bandp) /\ BandsFull(q_bandp) /\ QueueCount
  <2>1. n \in 0 .. Len(s) /\ s \in Seq(Msg)
    BY DEF Behind, Ahead, Queue
  <2> QED
    BY <2>1, Inserted DEF Queue, Put
<1>2. Sorted(t)
  BY <1>1, SortedInserted
<1>3. CASE InBand(m)
  <2> DEFINE fb == find_qband(q_bandp, 1)
             qb == fb.bs[fb.i]
             r  == [first |-> IF qb.first = NoMsg \/ (n + 2 <= Len(t) /\ t[n + 2] = qb.first)
                              THEN m ELSE qb.first,
                    count |-> qb.count + 1,
                    flag  |-> IF qb.count + 1 > q_hiwat
                              THEN qb.flag \cup {"QB_FULL", "QB_WASFULL"} ELSE qb.flag]
  <2>1. q_bandp' = [fb.bs EXCEPT ![fb.i] = r] /\ q_count' = q_count /\ q_flag' = q_flag
    <3>1. Band(m) = 1
      BY <1>3, RankType
    <3> QED
      BY <1>3, <3>1 DEF Put, Counted
  <2>2. /\ fb.bs \in Seq(BandRec) /\ fb.i \in DOMAIN fb.bs
        /\ Len(fb.bs) >= Len(q_bandp)
        /\ Bands(s, fb.bs) /\ BandsFull(fb.bs)
        /\ \A j \in DOMAIN fb.bs : InUse(fb.bs[j]) => j = fb.i
        /\ InUse(fb.bs[fb.i]) <=> Idx(s, OfBand) # {}
        /\ ~InUse(fb.bs[fb.i]) => fb.bs[fb.i] = NewBand
    BY <1>1, FindQband
  <2>3. /\ qb \in BandRec /\ ("QB_FULL" \in qb.flag <=> qb.count > q_hiwat)
        /\ InUse(qb) => qb.count = Cardinality(Idx(s, OfBand)) /\ Begins(s, qb.first)
    BY <2>2 DEF Bands, BandsFull
  <2>4. m \in OfBand /\ m \notin OfQueue
    BY <1>3 DEF OfBand, OfQueue
  <2> HIDE DEF fb, qb
  <2>5. qb.first # NoMsg => Begins(s, qb.first)
    BY <2>3 DEF InUse
  <2>6. qb.first = NoMsg => Idx(s, OfBand) = {} /\ qb = NewBand
    BY <2>2 DEF InUse, qb
  <2>7. Begins(t, r.first)
    <3> DEFINE f == qb.first
    <3>1. (f # NoMsg => Begins(s, f)) /\ (f = NoMsg => Idx(s, OfBand) = {})
      BY <2>5, <2>6
    <3> HIDE DEF f
    <3>2. Begins(t, IF f = NoMsg \/ (n + 2 <= Len(t) /\ t[n + 2] = f) THEN m ELSE f)
      BY <1>1, <2>4, <3>1, BeginsInserted
    <3> QED
      BY <3>2 DEF f
  <2>8. r.first \in Msg /\ r.first # NoMsg
    <3>1. r.first \in Msg
      BY <1>1, <2>7, UsedIsOfBand
    <3> HIDE DEF r
    <3> QED
      BY <3>1, FlowAssumption
  <2>9. qb.count = Cardinality(Idx(s, OfBand))
    <3>1. CASE qb.first # NoMsg
      BY <2>3, <3>1 DEF InUse
    <3>2. CASE qb.first = NoMsg
      <4>1. qb.count = 0 /\ Idx(s, OfBand) = {}
        BY <2>6, <3>2 DEF NewBand
      <4> QED
        BY <4>1, FS_EmptySet
    <3> QED
      BY <3>1, <3>2
  <2>10. r.count = Cardinality(Idx(t, OfBand))
    <3>1. Cardinality(Idx(t, OfBand)) = Cardinality(Idx(s, OfBand)) + 1
      BY <1>1, <2>4, IdxInserted
    <3> HIDE DEF s, t
    <3> QED
      BY <2>9, <3>1
  <2>11. qb.count \in Nat /\ qb.flag \in SUBSET QBFlag
    BY <2>3 DEF BandRec
  <2>12. r.flag \in SUBSET QBFlag /\ r.count \in Nat /\ ("QB_FULL" \in r.flag <=> r.count > q_hiwat)
    <3>1. CASE qb.count + 1 > q_hiwat
      BY <2>11, <3>1 DEF QBFlag
    <3>2. CASE ~(qb.count + 1 > q_hiwat)
      <4>1. ~(qb.count > q_hiwat)
        BY <2>11, <3>2, HiwatNat
      <4> QED
        BY <2>3, <2>11, <3>2, <4>1
    <3> QED
      BY <3>1, <3>2
  <2>13. r \in BandRec
    BY <2>8, <2>12 DEF BandRec
  <2> HIDE DEF r
  <2>14. /\ q_bandp' \in Seq(BandRec) /\ Len(q_bandp') = Len(fb.bs)
         /\ Bands(t, q_bandp') /\ BandsFull(q_bandp')
    <3> DEFINE bs == fb.bs
               k  == fb.i
    <3>1. /\ bs \in Seq(BandRec) /\ k \in DOMAIN bs /\ BandsFull(bs) /\ t \in Seq(Msg)
          /\ \A j \in DOMAIN bs : InUse(bs[j]) => j = k
          /\ q_bandp' = [bs EXCEPT ![k] = r]
      BY <1>1, <2>1, <2>2
    <3>2. InUse(r)
      BY <2>8 DEF InUse
    <3> HIDE DEF bs, k, t
    <3>3. LET bt == [bs EXCEPT ![k] = r]
          IN  bt \in Seq(BandRec) /\ Len(bt) = Len(bs) /\ Bands(t, bt) /\ BandsFull(bt)
      BY <2>7, <2>10, <2>12, <2>13, <3>1, <3>2, BandChanged
    <3> QED
      BY <3>1, <3>3 DEF bs
  <2>15. Cardinality(Idx(t, OfQueue)) = Cardinality(Idx(s, OfQueue))
    <3>1. Cardinality(Idx(t, OfQueue)) = Cardinality(Idx(s, OfQueue)) + 0
      BY <1>1, <2>4, IdxInserted
    <3>2. Cardinality(Idx(s, OfQueue)) \in Nat
      BY <1>1, IdxFinite
    <3> HIDE DEF s, t
    <3> QED
      BY <3>1, <3>2
  <2>16. QueueCount'
    BY <1>1, <2>1, <2>15 DEF QueueCount
  <2>17. Len(q_bandp') >= Len(q_bandp)
    BY <2>2, <2>14
  <2>18. q_first' \in Seq(Msg) /\ q_count' \in Nat /\ q_flag' \in SUBSET Flag
    BY <1>1, <2>1
  <2> HIDE DEF s, t
  <2>19. Sorted(q_first') /\ Bands(q_first', q_bandp')
    BY <1>1, <1>2, <2>14
  <2> QED
    BY <2>14, <2>16, <2>17, <2>18, <2>19 DEF Queue
<1>4. CASE ~InBand(m)
  <2>1. /\ q_bandp' = q_bandp /\ q_count' = q_count + 1
        /\ q_flag' = IF q_count + 1 > q_hiwat THEN q_flag \cup {"QFULL", "QWASFULL"} ELSE q_flag
    BY <1>4 DEF Put, Counted
  <2>2. m \in OfQueue
    BY <1>4 DEF OfQueue
  <2>3. Bands(t, q_bandp)
    BY <1>1, <2>2, BandsInsertedBeside
  <2>4. Cardinality(Idx(t, OfQueue)) = Cardinality(Idx(s, OfQueue)) + 1
    BY <1>1, <2>2, IdxInserted
  <2> HIDE DEF s, t
  <2>5. QueueCount'
    <3>1. q_count' = Cardinality(Idx(q_first', OfQueue))
      BY <1>1, <2>1, <2>4 DEF QueueCount, s
    <3>2. q_count' > q_hiwat => "QFULL" \in q_flag'
      BY <2>1
    <3>3. q_count' < q_hiwat => "QFULL" \notin q_flag'
      BY <1>1, <2>1, HiwatNat DEF QueueCount
    <3> QED
      BY <3>1, <3>2, <3>3 DEF QueueCount
  <2>6. q_first' \in Seq(Msg) /\ q_count' \in Nat /\ q_flag' \in SUBSET Flag
    BY <1>1, <2>1 DEF Flag
  <2>7. Sorted(q_first') /\ Bands(q_first', q_bandp') /\ BandsFull(q_bandp')
    BY <1>1, <1>2, <2>1, <2>3
  <2>8. Len(q_bandp') >= Len(q_bandp)
    BY <1>1, <2>1
  <2> QED
    BY <1>1, <2>1, <2>5, <2>6, <2>7, <2>8 DEF Queue
<1> QED
  BY <1>3, <1>4

\* Band structures are updated field by field.
LEMMA Updated ==
    \A a, c, g, h :
        LET o == [first |-> a, count |-> c, flag |-> g]
        IN  /\ [o EXCEPT !.flag = h] = [first |-> a, count |-> c, flag |-> h]
            /\ [o EXCEPT !.count = @ - 1] = [first |-> a, count |-> c - 1, flag |-> g]
            /\ [o EXCEPT !.first = IF @ = a THEN h ELSE @]
                   = [first |-> h, count |-> c, flag |-> g]
  OBVIOUS

\* rmv_msg of the first message.
LEMMA RmvKeeps ==
    ASSUME Queue, q_first # <<>>, rmv_msg
    PROVE  Queue' /\ Len(q_bandp') >= Len(q_bandp)
<1> DEFINE s == q_first
           t == Tail(s)
           m == Head(s)
<1>1. /\ s \in Seq(Msg) /\ s # <<>> /\ t \in Seq(Msg) /\ q_first' = t /\ m \in Msg /\ m = s[1]
      /\ q_count \in Nat /\ q_flag \in SUBSET Flag /\ q_bandp \in Seq(BandRec)
      /\ Sorted(s) /\ Bands(s, q_bandp) /\ BandsFull(q_bandp) /\ QueueCount
  BY DEF Queue, rmv_msg
<1>2. Sorted(t)
  BY <1>1, SortedTail
<1>3. CASE InBand(m)
  <2> DEFINE fb == find_qband(q_bandp, 1)
             o  == fb.bs[fb.i]
             qb == [o EXCEPT !.count = @ - 1,
                             !.first = IF @ = m THEN NextInBand(t, m) ELSE @]
             r  == [qb EXCEPT !.flag = BandFlag(qb)]
  <2>0. Band(m) = 1 /\ m \in OfBand /\ m \notin OfQueue
    BY <1>1, <1>3, RankType DEF OfBand, OfQueue
  <2>1. /\ q_bandp' = [fb.bs EXCEPT ![fb.i] = r] /\ q_count' = q_count
        /\ q_flag' = (q_flag \ {"QWANTR"}) \cup BandPasses(qb)
    BY <1>3, <2>0 DEF rmv_msg
  <2>2. /\ fb.bs \in Seq(BandRec) /\ fb.i \in DOMAIN fb.bs
        /\ Len(fb.bs) >= Len(q_bandp)
        /\ Bands(s, fb.bs) /\ BandsFull(fb.bs)
        /\ \A j \in DOMAIN fb.bs : InUse(fb.bs[j]) => j = fb.i
        /\ InUse(fb.bs[fb.i]) <=> Idx(s, OfBand) # {}
    BY <1>1, FindQband
  <2>3. 1 \in Idx(s, OfBand) /\ \A k \in Idx(s, OfBand) : k \in Nat /\ 1 <= k
    BY <1>1, <2>0 DEF Idx
  <2>4. /\ o \in BandRec /\ ("QB_FULL" \in o.flag <=> o.count > q_hiwat)
        /\ o.count = Cardinality(Idx(s, OfBand)) /\ Begins(s, o.first)
    BY <2>2, <2>3 DEF Bands, BandsFull
  <2>5. o.first = m
    <3>1. PICK k \in Idx(s, OfBand) : s[k] = o.first /\ \A j \in Idx(s, OfBand) : k <= j
      BY <2>4 DEF Begins
    <3>2. k = 1
      BY <2>3, <3>1
    <3> QED
      BY <1>1, <3>1, <3>2
  <2> HIDE DEF fb, o
  <2>6. o.count \in Nat /\ o.flag \in SUBSET QBFlag /\ o = [first |-> o.first, count |-> o.count, flag |-> o.flag]
    BY <2>4 DEF BandRec
  <2>7. qb = [first |-> NextInBand(t, m), count |-> o.count - 1, flag |-> o.flag]
    <3> DEFINE d == [o EXCEPT !.count = @ - 1]
    <3>1. qb = [d EXCEPT !.first = IF @ = m THEN NextInBand(t, m) ELSE @]
      OBVIOUS
    <3>2. d = [first |-> m, count |-> o.count - 1, flag |-> o.flag]
      BY <2>5, <2>6, Updated
    <3> HIDE DEF d, qb
    <3> QED
      BY <3>1, <3>2, Updated
  <2>8. /\ Cardinality(Idx(t, OfBand)) = o.count - 1
        /\ Cardinality(Idx(t, OfQueue)) = Cardinality(Idx(s, OfQueue))
    <3>1. /\ Cardinality(Idx(t, OfBand)) = Cardinality(Idx(s, OfBand)) - 1
          /\ Cardinality(Idx(t, OfQueue)) = Cardinality(Idx(s, OfQueue)) - 0
      BY <1>1, <2>0, IdxTail
    <3>2. Cardinality(Idx(s, OfQueue)) \in Nat
      BY <1>1, IdxFinite
    <3> HIDE DEF s, t
    <3> QED
      BY <2>4, <3>1, <3>2
  <2>9. o.count - 1 \in Nat
    <3>1. Cardinality(Idx(t, OfBand)) \in Nat
      BY <1>1, IdxFinite
    <3> QED
      BY <2>8, <3>1
  <2>10. /\ NextInBand(t, m) # NoMsg => Begins(t, NextInBand(t, m))
         /\ Idx(t, OfBand) # {} => NextInBand(t, m) # NoMsg
         /\ NextInBand(t, m) \in Msg \cup {NoMsg}
    BY <1>1, <2>0, BeginsTail
  <2>11. /\ BandFlag(qb) \in SUBSET QBFlag
         /\ "QB_FULL" \in BandFlag(qb) <=> o.count - 1 > q_hiwat
    <3> DEFINE c == o.count - 1
               g == o.flag
    <3>1. c \in Nat /\ g \in SUBSET QBFlag /\ (c > q_hiwat => "QB_FULL" \in g)
      BY <2>4, <2>6, <2>9, HiwatNat
    <3>2. qb.count = c /\ qb.flag = g
      BY <2>7
    <3> HIDE DEF c, g, qb
    <3>3. c <= q_hiwat <=> ~(c > q_hiwat)
      BY <3>1, HiwatNat
    <3>4. "QB_FULL" \in BandFlag(qb) <=> ("QB_FULL" \in g /\ ~(c <= q_hiwat))
      BY <3>2 DEF BandFlag
    <3>5. "QB_FULL" \in BandFlag(qb) <=> c > q_hiwat
      BY <3>1, <3>3, <3>4
    <3>6. BandFlag(qb) \in SUBSET QBFlag
      BY <3>1, <3>2 DEF BandFlag, QBFlag
    <3> QED
      BY <3>5, <3>6 DEF c
  <2>12. r = [first |-> NextInBand(t, m), count |-> o.count - 1, flag |-> BandFlag(qb)]
    <3> DEFINE h == BandFlag(qb)
    <3>1. r = [qb EXCEPT !.flag = h]
      OBVIOUS
    <3> HIDE DEF h, qb, r
    <3>2. r = [first |-> NextInBand(t, m), count |-> o.count - 1, flag |-> h]
      BY <2>7, <3>1, Updated
    <3> QED
      BY <3>2 DEF h
  <2>13. BandPasses(qb) \in SUBSET Flag /\ "QFULL" \notin BandPasses(qb)
    BY DEF BandPasses, Flag
  <2> HIDE DEF qb, r
  <2>14. r \in BandRec
    BY <2>9, <2>10, <2>11, <2>12 DEF BandRec
  <2>15. /\ q_bandp' \in Seq(BandRec) /\ Len(q_bandp') = Len(fb.bs)
         /\ Bands(t, q_bandp') /\ BandsFull(q_bandp')
    <3> DEFINE bs == fb.bs
               k  == fb.i
    <3>1. /\ bs \in Seq(BandRec) /\ k \in DOMAIN bs /\ BandsFull(bs) /\ t \in Seq(Msg)
          /\ \A j \in DOMAIN bs : InUse(bs[j]) => j = k
          /\ q_bandp' = [bs EXCEPT ![k] = r]
      BY <1>1, <2>1, <2>2
    <3>2. /\ InUse(r) => r.count = Cardinality(Idx(t, OfBand)) /\ Begins(t, r.first)
          /\ Idx(t, OfBand) # {} => InUse(r)
          /\ "QB_FULL" \in r.flag <=> r.count > q_hiwat
      BY <2>8, <2>10, <2>11, <2>12 DEF InUse
    <3> HIDE DEF bs, k, t
    <3>3. LET bt == [bs EXCEPT ![k] = r]
          IN  bt \in Seq(BandRec) /\ Len(bt) = Len(bs) /\ Bands(t, bt) /\ BandsFull(bt)
      BY <2>14, <3>1, <3>2, BandChanged
    <3> QED
      BY <3>1, <3>3 DEF bs
  <2>16. QueueCount'
    BY <1>1, <2>1, <2>8, <2>13 DEF QueueCount
  <2>17. Len(q_bandp') >= Len(q_bandp)
    BY <2>2, <2>15
  <2>18. q_first' \in Seq(Msg) /\ q_count' \in Nat /\ q_flag' \in SUBSET Flag
    BY <1>1, <2>1, <2>13
  <2> HIDE DEF s, t
  <2>19. Sorted(q_first') /\ Bands(q_first', q_bandp')
    BY <1>1, <1>2, <2>15
  <2> QED
    BY <2>15, <2>16, <2>17, <2>18, <2>19 DEF Queue
<1>4. CASE ~InBand(m)
  <2> DEFINE c == q_count - 1
             f == (q_flag \ {"QWANTR"}) \ (IF c < q_hiwat THEN {"QFULL"} ELSE {})
  <2>1. /\ q_bandp' = q_bandp /\ q_count' = c
        /\ q_flag' = IF "QWASFULL" \in f /\ c <= q_lowat
                     THEN (f \ {"QWASFULL"}) \cup {"QBACK"} ELSE f
    BY <1>4 DEF rmv_msg, NotFull
  <2>2. m \in OfQueue /\ m \notin OfBand
    BY <1>1, <1>4 DEF OfQueue, OfBand
  <2>3. Bands(t, q_bandp)
    BY <1>1, <2>2, BandsTailBeside
  <2>4. c \in Nat /\ c = Cardinality(Idx(t, OfQueue))
    <3>1. Cardinality(Idx(t, OfQueue)) = Cardinality(Idx(s, OfQueue)) - 1
      BY <1>1, <2>2, IdxTail
    <3>2. Cardinality(Idx(t, OfQueue)) \in Nat
      BY <1>1, IdxFinite
    <3>3. q_count = Cardinality(Idx(s, OfQueue))
      BY <1>1 DEF QueueCount
    <3> HIDE DEF s, t
    <3> QED
      BY <3>1, <3>2, <3>3
  <2>5. "QFULL" \in q_flag' <=> ("QFULL" \in q_flag /\ ~(c < q_hiwat))
    <3> HIDE DEF c
    <3> QED
      BY <2>1
  <2>6. QueueCount'
    <3>1. q_count' = Cardinality(Idx(q_first', OfQueue))
      BY <1>1, <2>1, <2>4
    <3>2. q_count' > q_hiwat => "QFULL" \in q_flag'
      BY <1>1, <2>1, <2>4, <2>5, HiwatNat DEF QueueCount
    <3>3. q_count' < q_hiwat => "QFULL" \notin q_flag'
      BY <2>1, <2>5
    <3> QED
      BY <3>1, <3>2, <3>3 DEF QueueCount
  <2>7. q_first' \in Seq(Msg) /\ q_count' \in Nat /\ q_flag' \in SUBSET Flag
    BY <1>1, <2>1, <2>4 DEF Flag
  <2> HIDE DEF s, t, f, c
  <2>8. Sorted(q_first') /\ Bands(q_first', q_bandp') /\ BandsFull(q_bandp')
    BY <1>1, <1>2, <2>1, <2>3
  <2>9. Len(q_bandp') >= Len(q_bandp)
    BY <1>1, <2>1
  <2> QED
    BY <1>1, <2>1, <2>6, <2>7, <2>8, <2>9 DEF Queue
<1> QED
  BY <1>3, <1>4
-----------------------------------------------------------------------------
(* The queue through the other actions                                     *)

LEMMA FlagsOfQueue ==
    ASSUME Queue, q_first' = q_first, q_count' = q_count, q_bandp' = q_bandp,
           q_flag' \in SUBSET Flag, "QFULL" \in q_flag' <=> "QFULL" \in q_flag
    PROVE  Queue' /\ Len(q_bandp') >= Len(q_bandp)
<1>1. QueueCount'
  BY DEF Queue, QueueCount
<1>2. Len(q_bandp) \in Nat
  BY DEF Queue
<1> QED
  BY <1>1, <1>2 DEF Queue

\* Only flags of band structures change, and QB_FULL not without cause.
LEMMA FlagsOfBands ==
    ASSUME Queue, q_first' = q_first, q_count' = q_count,
           q_flag' \in SUBSET Flag, "QFULL" \in q_flag' <=> "QFULL" \in q_flag,
           q_bandp' \in Seq(BandRec), Len(q_bandp') = Len(q_bandp),
           \A i \in DOMAIN q_bandp : /\ q_bandp'[i].first = q_bandp[i].first
                                     /\ q_bandp'[i].count = q_bandp[i].count,
           BandsFull(q_bandp')
    PROVE  Queue' /\ Len(q_bandp') >= Len(q_bandp)
<1>1. QueueCount'
  BY DEF Queue, QueueCount
<1>2. Len(q_bandp) \in Nat /\ q_bandp \in Seq(BandRec) /\ Bands(q_first, q_bandp)
  BY DEF Queue
<1> DEFINE bs == q_bandp
           bt == q_bandp'
           s  == q_first
<1>3. DOMAIN bt = DOMAIN bs
  BY <1>2
<1>4. Bands(s, bs) /\ \A i \in DOMAIN bs : bt[i].first = bs[i].first /\ bt[i].count = bs[i].count
  BY <1>2
<1> HIDE DEF bs, bt, s
<1>5. Bands(s, bt)
  BY <1>3, <1>4 DEF Bands, InUse
<1>6. Bands(q_first', q_bandp')
  BY <1>5 DEF s, bt
<1> QED
  BY <1>1, <1>2, <1>6 DEF Queue

LEMMA IInvHasQueue == IInv => Queue
  BY DEF IInv, TypeOK, Queue

LEMMA BlankBand == NewBand \in BandRec
  BY DEF NewBand, BandRec, QBFlag

LEMMA TakeKeepsQueue ==
    ASSUME IInv, FlushTake
    PROVE  Queue' /\ Len(q_bandp') >= Len(q_bandp)
<1> DEFINE bs == q_bandp
           bt == [i \in DOMAIN q_bandp |-> [q_bandp[i] EXCEPT !.first = NoMsg, !.count = 0,
                                                              !.flag = @ \ {"QB_FULL"}]]
<1>1. /\ q_first' = <<>> /\ q_count' = 0 /\ q_bandp' = bt
      /\ q_flag' = q_flag \ {"QFULL", "QWASFULL", "QWANTR", "QWANTW"}
  BY DEF FlushTake
<1>2. bs \in Seq(BandRec) /\ q_flag \in SUBSET Flag
  BY DEF IInv, TypeOK
<1>3. \A i \in DOMAIN bs : bt[i] = [first |-> NoMsg, count |-> 0, flag |-> bs[i].flag \ {"QB_FULL"}]
  <2>1. ASSUME NEW i \in DOMAIN bs
        PROVE  bt[i] = [first |-> NoMsg, count |-> 0, flag |-> bs[i].flag \ {"QB_FULL"}]
    <3> DEFINE o == bs[i]
    <3>1. o \in BandRec
      BY <1>2
    <3>2. bt[i] = [o EXCEPT !.first = NoMsg, !.count = 0, !.flag = @ \ {"QB_FULL"}]
      OBVIOUS
    <3> HIDE DEF o, bt
    <3>3. [o EXCEPT !.first = NoMsg, !.count = 0, !.flag = @ \ {"QB_FULL"}]
             = [first |-> NoMsg, count |-> 0, flag |-> o.flag \ {"QB_FULL"}]
      <4> DEFINE o1 == [o EXCEPT !.first = NoMsg]
                 o2 == [o1 EXCEPT !.count = 0]
      <4>1. [o EXCEPT !.first = NoMsg, !.count = 0, !.flag = @ \ {"QB_FULL"}]
               = [o2 EXCEPT !.flag = @ \ {"QB_FULL"}]
        OBVIOUS
      <4>2. o1 = [first |-> NoMsg, count |-> o.count, flag |-> o.flag]
        BY <3>1 DEF BandRec
      <4> HIDE DEF o1
      <4>3. o2 = [first |-> NoMsg, count |-> 0, flag |-> o.flag]
        BY <4>2
      <4> HIDE DEF o2
      <4> QED
        BY <4>1, <4>3
    <3> QED
      BY <3>2, <3>3 DEF o
  <2> QED
    BY <2>1
<1>4. DOMAIN bt = DOMAIN bs /\ DOMAIN bs = 1 .. Len(bs) /\ Len(bs) \in Nat
      /\ \A i \in DOMAIN bs : bs[i] \in BandRec
  BY <1>2
<1> HIDE DEF bs, bt
<1>5. \A i \in DOMAIN bt : bt[i] \in BandRec /\ bt[i].first = NoMsg /\ bt[i].count = 0
                           /\ "QB_FULL" \notin bt[i].flag
  BY <1>3, <1>4 DEF BandRec, QBFlag
<1>6. bt \in Seq(BandRec) /\ Len(bt) = Len(bs)
  <2>1. bt = [i \in 1 .. Len(bs) |-> bt[i]]
    BY <1>4 DEF bt, bs
  <2>2. bt \in [1 .. Len(bs) -> BandRec]
    BY <1>4, <1>5, <2>1
  <2>3. bt \in Seq(BandRec)
    BY <1>4, <2>2, SeqDef
  <2>4. Len(bt) \in Nat /\ 1 .. Len(bt) = 1 .. Len(bs)
    BY <1>4, <2>3, LenProperties
  <2>5. Len(bt) = Len(bs)
    BY <1>4, <2>4
  <2> QED
    BY <2>3, <2>5
<1>7. BandsFull(bt)
  BY <1>5, HiwatNat DEF BandsFull
<1>8. Idx(<<>>, OfBand) = {} /\ Idx(<<>>, OfQueue) = {}
  BY DEF Idx
<1>9. Bands(<<>>, bt)
  BY <1>5, <1>8 DEF Bands, InUse
<1>10. Sorted(<<>>)
  BY DEF Sorted
<1>11. QueueCount'
  BY <1>1, <1>8, FS_EmptySet, HiwatNat DEF QueueCount
<1>12. q_flag' \in SUBSET Flag /\ q_count' \in Nat /\ q_first' \in Seq(Msg)
  BY <1>1, <1>2
<1>13. Len(q_bandp') >= Len(q_bandp)
  BY <1>1, <1>4, <1>6 DEF bs
<1> QED
  BY <1>1, <1>6, <1>7, <1>9, <1>10, <1>11, <1>12, <1>13 DEF Queue

\* chk_band changes flags only, and QB_FULL goes exactly when there is room.
LEMMA BandFlagIs ==
    ASSUME NEW r \in BandRec
    PROVE  /\ BandFlag(r) \in SUBSET QBFlag
           /\ "QB_FULL" \in BandFlag(r) <=> ("QB_FULL" \in r.flag /\ ~(r.count <= q_hiwat))
           /\ BandPasses(r) \in SUBSET Flag /\ "QFULL" \notin BandPasses(r)
           /\ "QWANTR" \notin BandPasses(r)
<1>1. r.flag \in SUBSET QBFlag
  BY DEF BandRec
<1>2. BandFlag(r) \in SUBSET QBFlag
  BY <1>1 DEF BandFlag
<1>3. "QB_FULL" \in BandFlag(r) <=> ("QB_FULL" \in r.flag /\ ~(r.count <= q_hiwat))
  BY DEF BandFlag
<1>4. BandPasses(r) \in SUBSET Flag /\ "QFULL" \notin BandPasses(r) /\ "QWANTR" \notin BandPasses(r)
  BY DEF BandPasses, Flag
<1> QED
  BY <1>2, <1>3, <1>4

LEMMA CheckKeepsQueue ==
    ASSUME IInv, FlushCheck
    PROVE  Queue' /\ Len(q_bandp') >= Len(q_bandp)
<1> DEFINE bs == q_bandp
           bt == [i \in DOMAIN q_bandp |-> [q_bandp[i] EXCEPT !.flag = BandFlag(q_bandp[i])]]
           ps == UNION {BandPasses(q_bandp[i]) : i \in DOMAIN q_bandp}
           ws == IF "QWASFULL" \in fl_flag /\ q_count <= q_lowat
                 THEN {"QBACK", "QWANTW"} ELSE {}
<1>1. /\ q_first' = q_first /\ q_count' = q_count /\ q_bandp' = bt
      /\ q_flag' = q_flag \cup {"QWANTR"} \cup ps \cup ws
  BY DEF FlushCheck
<1>2. bs \in Seq(BandRec) /\ q_flag \in SUBSET Flag /\ BandsFull(bs)
  BY DEF IInv, TypeOK
<1>3. DOMAIN bt = DOMAIN bs /\ DOMAIN bs = 1 .. Len(bs) /\ Len(bs) \in Nat
      /\ \A i \in DOMAIN bs : bs[i] \in BandRec /\ bt[i] = [bs[i] EXCEPT !.flag = BandFlag(bs[i])]
  BY <1>2
<1>4. \A i \in DOMAIN bs : BandPasses(bs[i]) \in SUBSET Flag /\ "QFULL" \notin BandPasses(bs[i])
  BY <1>3, BandFlagIs
<1>5. ps \in SUBSET Flag /\ "QFULL" \notin ps
  BY <1>4
<1>6. ws \in SUBSET Flag /\ "QFULL" \notin ws
  BY DEF Flag
<1> HIDE DEF bt, ps, ws
<1>7. q_flag' \in SUBSET Flag /\ ("QFULL" \in q_flag' <=> "QFULL" \in q_flag)
  BY <1>1, <1>2, <1>5, <1>6 DEF Flag
<1> HIDE DEF bs
<1>8. \A i \in DOMAIN bs :
          /\ bt[i] \in BandRec
          /\ bt[i].first = bs[i].first /\ bt[i].count = bs[i].count
          /\ "QB_FULL" \in bt[i].flag <=> bt[i].count > q_hiwat
  <2>1. ASSUME NEW i \in DOMAIN bs
        PROVE  /\ bt[i] \in BandRec
               /\ bt[i].first = bs[i].first /\ bt[i].count = bs[i].count
               /\ "QB_FULL" \in bt[i].flag <=> bt[i].count > q_hiwat
    <3> DEFINE o == bs[i]
               h == BandFlag(bs[i])
               e == bt[i]
    <3>1. o \in BandRec /\ e = [o EXCEPT !.flag = h]
      BY <1>3
    <3>2. h \in SUBSET QBFlag /\ ("QB_FULL" \in h <=> ("QB_FULL" \in o.flag /\ ~(o.count <= q_hiwat)))
      BY <3>1, BandFlagIs
    <3>3. o.count \in Nat /\ ("QB_FULL" \in o.flag <=> o.count > q_hiwat)
      BY <1>2, <3>1 DEF BandsFull, BandRec
    <3> HIDE DEF o, h, e
    <3>4. e \in BandRec /\ e.first = o.first /\ e.count = o.count /\ e.flag = h
      BY <3>1, <3>2 DEF BandRec
    <3>5. "QB_FULL" \in e.flag <=> e.count > q_hiwat
      BY <3>2, <3>3, <3>4, HiwatNat
    <3> QED
      BY <3>4, <3>5 DEF e, o
  <2> QED
    BY <2>1
<1>9. bt \in Seq(BandRec) /\ Len(bt) = Len(bs)
  <2>1. bt = [i \in 1 .. Len(bs) |-> bt[i]]
    BY <1>3 DEF bt, bs
  <2>2. bt \in [1 .. Len(bs) -> BandRec]
    BY <1>3, <1>8, <2>1
  <2>3. bt \in Seq(BandRec)
    BY <1>3, <2>2, SeqDef
  <2>4. Len(bt) \in Nat /\ 1 .. Len(bt) = 1 .. Len(bs)
    BY <1>3, <2>3, LenProperties
  <2> QED
    BY <1>3, <2>3, <2>4
<1>10. BandsFull(bt)
  BY <1>3, <1>8 DEF BandsFull
<1> QED
  BY <1>1, <1>7, <1>8, <1>9, <1>10, IInvHasQueue, FlagsOfBands DEF bs
LEMMA GetqKeepsQueue ==
    ASSUME IInv, Getq
    PROVE  Queue' /\ Len(q_bandp') >= Len(q_bandp)
<1>1. CASE q_first = <<>>
  <2>1. /\ q_flag' = q_flag \cup {"QWANTR", "QBACK"}
        /\ q_first' = q_first /\ q_count' = q_count /\ q_bandp' = q_bandp
    BY <1>1 DEF Getq
  <2>2. q_flag \in SUBSET Flag
    BY DEF IInv, TypeOK
  <2>3. q_flag' \in SUBSET Flag /\ ("QFULL" \in q_flag' <=> "QFULL" \in q_flag)
    BY <2>1, <2>2 DEF Flag
  <2> QED
    BY <2>1, <2>3, IInvHasQueue, FlagsOfQueue
<1>2. CASE q_first # <<>>
  BY <1>2, IInvHasQueue, RmvKeeps DEF Getq
<1> QED
  BY <1>1, <1>2

LEMMA AskKeepsQueue ==
    ASSUME IInv, Bcanput
    PROVE  /\ Queue' /\ Len(q_bandp') >= Len(q_bandp)
           /\ up' = "want" /\ Band(up_msg) # 0 => up_qp' \in 0 .. Len(q_bandp') - 1
           /\ up_qp' \in Nat
<1>1. /\ q_first' = q_first /\ q_count' = q_count /\ q_flag' = q_flag /\ up = "bcanput"
  BY DEF Bcanput
<1>2. Queue /\ up_msg \in Msg /\ up_qp \in Nat /\ Band(up_msg) \in {0, 1}
  <2>1. up_msg \in Msg /\ up_qp \in Nat
    BY <1>1 DEF IInv, TypeOK, Hands
  <2> QED
    BY <2>1, IInvHasQueue, RankType
<1>3. /\ q_first \in Seq(Msg) /\ q_bandp \in Seq(BandRec) /\ q_flag \in SUBSET Flag /\ q_count \in Nat
      /\ Bands(q_first, q_bandp) /\ BandsFull(q_bandp) /\ Sorted(q_first) /\ QueueCount
  BY <1>2 DEF Queue
<1>4. CASE Band(up_msg) = 0
  <2>1. q_bandp' = q_bandp /\ up_qp' = IF "QFULL" \in q_flag THEN Len(q_bandp) - 0 ELSE 0
    BY <1>4 DEF Bcanput
  <2>2. Len(q_bandp) \in Nat
    BY <1>3
  <2>3. up_qp' \in Nat
    BY <2>1, <2>2
  <2> QED
    BY <1>1, <1>2, <1>3, <1>4, <2>1, <2>3, FlagsOfQueue
<1>5. CASE Band(up_msg) = 1
  <2> DEFINE fb == find_qband(q_bandp, 1)
             full == "QB_FULL" \in fb.bs[fb.i].flag
  <2>1. /\ q_bandp' = fb.bs
        /\ up_qp' = IF full THEN Len(fb.bs) - fb.i ELSE 0
    BY <1>5 DEF Bcanput
  <2>2. up' = IF full THEN "want" ELSE "putq"
    BY <1>5 DEF Bcanput
  <2>3. /\ fb.bs \in Seq(BandRec) /\ fb.i \in DOMAIN fb.bs
        /\ Len(fb.bs) >= Len(q_bandp)
        /\ Bands(q_first, fb.bs) /\ BandsFull(fb.bs)
    BY <1>3, FindQband
  <2>4. DOMAIN fb.bs = 1 .. Len(fb.bs) /\ Len(fb.bs) \in Nat
    BY <2>3
  <2>5. Len(fb.bs) - fb.i \in 0 .. Len(fb.bs) - 1
    BY <2>3, <2>4
  <2> HIDE DEF fb, full
  <2>6. QueueCount'
    BY <1>1, <1>3 DEF QueueCount
  <2>7. up_qp' \in Nat /\ (up' = "want" => up_qp' \in 0 .. Len(fb.bs) - 1)
    BY <2>1, <2>2, <2>5
  <2>8. Queue'
    BY <1>1, <1>3, <2>1, <2>3, <2>6 DEF Queue
  <2> QED
    BY <2>1, <2>3, <2>7, <2>8
<1> QED
  BY <1>2, <1>4, <1>5

LEMMA WantKeepsQueue ==
    ASSUME IInv, BcanputWant
    PROVE  Queue' /\ Len(q_bandp') >= Len(q_bandp)
<1>1. /\ q_first' = q_first /\ q_count' = q_count /\ up = "want"
  BY DEF BcanputWant
<1>2. Queue /\ up_msg \in Msg /\ up_qp \in Nat /\ Band(up_msg) \in {0, 1}
      /\ (Band(up_msg) # 0 => up_qp < Len(q_bandp))
  <2>1. up_msg \in Msg /\ up_qp \in Nat /\ (Band(up_msg) # 0 => up_qp < Len(q_bandp))
    BY <1>1 DEF IInv, TypeOK, Hands
  <2> QED
    BY <2>1, IInvHasQueue, RankType
<1>3. /\ q_bandp \in Seq(BandRec) /\ q_flag \in SUBSET Flag /\ BandsFull(q_bandp)
  BY <1>2 DEF Queue
<1>4. CASE Band(up_msg) = 0
  <2>1. q_bandp' = q_bandp /\ q_flag' = q_flag \cup {"QWANTW"}
    BY <1>4 DEF BcanputWant
  <2>2. q_flag' \in SUBSET Flag /\ ("QFULL" \in q_flag' <=> "QFULL" \in q_flag)
    BY <1>3, <2>1 DEF Flag
  <2> QED
    BY <1>1, <1>2, <2>1, <2>2, FlagsOfQueue
<1>5. CASE Band(up_msg) # 0
  <2> DEFINE bs == q_bandp
             k  == Len(q_bandp) - up_qp
             o  == q_bandp[Len(q_bandp) - up_qp]
             h  == o.flag \cup {"QB_WANTW"}
             r  == [o EXCEPT !.flag = h]
  <2>1. q_bandp' = [bs EXCEPT ![k].flag = @ \cup {"QB_WANTW"}] /\ q_flag' = q_flag
    BY <1>5 DEF BcanputWant
  <2>2. k \in DOMAIN bs
    <3>1. DOMAIN bs = 1 .. Len(bs) /\ Len(bs) \in Nat
      BY <1>3
    <3> QED
      BY <1>2, <1>5, <3>1
  <2>3. o \in BandRec /\ ("QB_FULL" \in o.flag <=> o.count > q_hiwat)
    BY <1>3, <2>2 DEF BandsFull
  <2>4. q_bandp' = [bs EXCEPT ![k] = r]
    BY <2>1
  <2> HIDE DEF o
  <2>5. h \in SUBSET QBFlag /\ ("QB_FULL" \in h <=> "QB_FULL" \in o.flag)
    BY <2>3 DEF BandRec, QBFlag
  <2> HIDE DEF h
  <2>6. r \in BandRec /\ r.first = o.first /\ r.count = o.count /\ r.flag = h
    BY <2>3, <2>5 DEF BandRec
  <2>7. "QB_FULL" \in r.flag <=> r.count > q_hiwat
    BY <2>3, <2>5, <2>6
  <2> HIDE DEF r
  <2>8. /\ q_bandp' \in Seq(BandRec) /\ Len(q_bandp') = Len(bs) /\ DOMAIN q_bandp' = DOMAIN bs
        /\ \A i \in DOMAIN bs : q_bandp'[i] = IF i = k THEN r ELSE bs[i]
    <3>1. bs \in Seq(BandRec) /\ k \in DOMAIN bs
      BY <1>3, <2>2
    <3> HIDE DEF bs, k
    <3> QED
      BY <2>4, <2>6, <3>1
  <2>9. BandsFull(q_bandp')
    BY <1>3, <2>7, <2>8 DEF BandsFull
  <2>10. \A i \in DOMAIN q_bandp : /\ q_bandp'[i].first = q_bandp[i].first
                                   /\ q_bandp'[i].count = q_bandp[i].count
    BY <2>6, <2>8 DEF o
  <2> HIDE DEF k
  <2> QED
    BY <1>1, <1>2, <1>3, <2>1, <2>8, <2>9, <2>10, FlagsOfBands
<1> QED
  BY <1>4, <1>5

\* The four that put a message, and where it goes.
LEMMA PutsAtASpot ==
    ASSUME IInv
    PROVE  /\ PutBack => srv_msg \in Msg /\ Ahead(q_first, find_q_spot_head(q_first, srv_msg), srv_msg)
           /\ UpPutq => up_msg \in Msg /\ Behind(q_first, find_q_spot_tail(q_first, up_msg), up_msg)
           /\ \A c \in IntrClass :
                  LET m == [id |-> MaxUp + put + 1, class |-> c]
                  IN  m \in Msg /\ Behind(q_first, find_q_spot_tail(q_first, m), m)
           /\ FlushRetain => /\ Head(fl_list) \in Msg /\ Tail(fl_list) \in Seq(Msg)
                             /\ Behind(q_first, find_q_spot_tail(q_first, Head(fl_list)), Head(fl_list))
<1>1. /\ q_first \in Seq(Msg) /\ Sorted(q_first) /\ put \in Nat /\ MaxUp \in Nat
      /\ IntrClass \subseteq Class /\ fl_list \in Seq(Msg)
      /\ srv_msg \in Msg \cup {NoMsg} /\ up_msg \in Msg \cup {NoMsg}
      /\ (srv = "msg" => srv_msg # NoMsg) /\ (up # "idle" => up_msg # NoMsg)
  BY FlowAssumption DEF IInv, TypeOK, Hands
<1>2. PutBack => srv_msg \in Msg
  BY <1>1 DEF PutBack
<1>3. UpPutq => up_msg \in Msg
  BY <1>1 DEF UpPutq
<1>4. ASSUME NEW c \in IntrClass PROVE [id |-> MaxUp + put + 1, class |-> c] \in Msg
  BY <1>1 DEF Msg
<1>5. FlushRetain => Head(fl_list) \in Msg /\ Tail(fl_list) \in Seq(Msg)
  BY <1>1 DEF FlushRetain
<1>6. \A m \in Msg : /\ Behind(q_first, find_q_spot_tail(q_first, m), m)
                     /\ Ahead(q_first, find_q_spot_head(q_first, m), m)
  BY <1>1, TailSpot, HeadSpot
<1> QED
  BY <1>2, <1>3, <1>4, <1>5, <1>6
LEMMA QueueKept ==
    ASSUME IInv, [Next]_vars
    PROVE  Queue' /\ Len(q_bandp') >= Len(q_bandp)
<1>1. Queue /\ q_flag \in SUBSET Flag
  BY IInvHasQueue DEF Queue
<1>2. ASSUME UNCHANGED qvars
      PROVE  Queue' /\ Len(q_bandp') >= Len(q_bandp)
  BY <1>1, <1>2, FlagsOfQueue DEF qvars
<1>3. ASSUME q_first' = q_first, q_count' = q_count, q_bandp' = q_bandp,
             q_flag' = q_flag \ {"QWANTW", "QBACK"}
      PROVE  Queue' /\ Len(q_bandp') >= Len(q_bandp)
  BY <1>1, <1>3, FlagsOfQueue
<1>4. ASSUME NEW x, NEW m \in Msg,
             putq(x, m) /\ Behind(q_first, find_q_spot_tail(q_first, m), m)
      PROVE  Queue' /\ Len(q_bandp') >= Len(q_bandp)
  BY <1>1, <1>4, PutKeeps DEF putq
<1>5. CASE UNCHANGED vars
  BY <1>2, <1>5 DEF vars
<1>6. CASE SrvStep
  <2>1. CASE SrvStart
    BY <1>2, <2>1 DEF SrvStart
  <2>2. CASE Getq
    BY <2>2, GetqKeepsQueue
  <2>3. CASE BackTest
    BY <1>2, <2>3 DEF BackTest
  <2>4. CASE BackClear
    BY <1>3, <2>4 DEF BackClear
  <2>5. CASE BackEnable
    BY <1>2, <2>5 DEF BackEnable
  <2>6. CASE Consume
    BY <1>2, <2>6 DEF Consume
  <2>7. CASE PutBack
    <3>1. srv_msg \in Msg /\ Ahead(q_first, find_q_spot_head(q_first, srv_msg), srv_msg)
      BY <2>7, PutsAtASpot
    <3>2. Put("srv", find_q_spot_head(q_first, srv_msg), srv_msg)
      BY <2>7 DEF PutBack, putbq
    <3> QED
      BY <1>1, <3>1, <3>2, PutKeeps
  <2>8. CASE BelowEnables
    BY <1>2, <2>8 DEF BelowEnables
  <2> QED
    BY <1>6, <2>1, <2>2, <2>3, <2>4, <2>5, <2>6, <2>7, <2>8 DEF SrvStep
<1>7. CASE UpStep
  <2>1. CASE UpStart
    BY <1>2, <2>1 DEF UpStart
  <2>2. CASE Bcanput
    BY <2>2, AskKeepsQueue
  <2>3. CASE BcanputWant
    BY <2>3, WantKeepsQueue
  <2>4. CASE UpPutq
    <3>1. up_msg \in Msg /\ Behind(q_first, find_q_spot_tail(q_first, up_msg), up_msg)
      BY <2>4, PutsAtASpot
    <3> QED
      BY <1>4, <2>4, <3>1 DEF UpPutq
  <2> QED
    BY <1>7, <2>1, <2>2, <2>3, <2>4 DEF UpStep
<1>8. CASE IntrPutq
  <2>1. PICK c \in IntrClass : putq("intr", [id |-> MaxUp + put + 1, class |-> c])
    BY <1>8 DEF IntrPutq
  <2> DEFINE m == [id |-> MaxUp + put + 1, class |-> c]
  <2>2. m \in Msg /\ Behind(q_first, find_q_spot_tail(q_first, m), m)
    BY PutsAtASpot
  <2> QED
    BY <1>4, <2>1, <2>2
<1>9. CASE FlStep
  <2>1. CASE FlushTake
    BY <2>1, TakeKeepsQueue
  <2>2. CASE FlushRetain
    <3>1. /\ Head(fl_list) \in Msg
          /\ Behind(q_first, find_q_spot_tail(q_first, Head(fl_list)), Head(fl_list))
      BY <2>2, PutsAtASpot
    <3> QED
      BY <1>4, <2>2, <3>1 DEF FlushRetain
  <2>3. CASE FlushCheck
    BY <2>3, CheckKeepsQueue
  <2>4. CASE FlushBackTest
    BY <1>2, <2>4 DEF FlushBackTest
  <2>5. CASE FlushBackClear
    BY <1>3, <2>5 DEF FlushBackClear
  <2>6. CASE FlushBackEnable
    BY <1>2, <2>6 DEF FlushBackEnable
  <2>7. CASE FlushArm
    BY <1>2, <2>7 DEF FlushArm
  <2> QED
    BY <1>9, <2>1, <2>2, <2>3, <2>4, <2>5, <2>6, <2>7 DEF FlStep
<1>10. ASSUME NEW x \in Context, Qenable(x)
       PROVE  Queue' /\ Len(q_bandp') >= Len(q_bandp)
  BY <1>2, <1>10 DEF Qenable
<1> QED
  BY <1>5, <1>6, <1>7, <1>8, <1>9, <1>10 DEF Next

-----------------------------------------------------------------------------
(* The types of the other variables                                        *)

\* What a flush keeps is a sequence of messages.
LEMMA RetainedIsSeq ==
    ASSUME NEW s \in Seq(Msg), NEW k
    PROVE  Retained(k, s) \in Seq(Msg)
<1> DEFINE L == Len(s)
           E(g, n) == IF n = 0 THEN <<>>
                      ELSE IF Flushed(k, s[n]) THEN g[n - 1] ELSE Append(g[n - 1], s[n])
           Good(n) == \E g : g \in [0 .. n -> Seq(Msg)] /\ \A i \in 0 .. n : g[i] = E(g, i)
           Bad == {n \in 0 .. L : ~Good(n)}
<1>1. L \in Nat /\ \A i \in 1 .. L : s[i] \in Msg
  OBVIOUS
<1> HIDE DEF L
<1>2. Good(0)
  <2> DEFINE g == [i \in 0 .. 0 |-> <<>>]
  <2>1. g \in [0 .. 0 -> Seq(Msg)] /\ \A i \in 0 .. 0 : g[i] = <<>> /\ i = 0
    OBVIOUS
  <2> HIDE DEF g
  <2> QED
    BY <2>1
<1>3. ASSUME NEW n \in 1 .. L, Good(n - 1) PROVE Good(n)
  <2>1. PICK g \in [0 .. n - 1 -> Seq(Msg)] : \A i \in 0 .. n - 1 : g[i] = E(g, i)
    BY <1>3
  <2> DEFINE h == [i \in 0 .. n |-> IF i < n THEN g[i] ELSE E(g, n)]
  <2>2. n \in Nat /\ n # 0 /\ n - 1 \in 0 .. n - 1 /\ s[n] \in Msg /\ ~(n < n)
    BY <1>1, <1>3
  <2>3. g[n - 1] \in Seq(Msg)
    BY <2>1, <2>2
  <2>4. E(g, n) \in Seq(Msg)
    BY <2>2, <2>3
  <2>5. \A i \in 0 .. n : i < n => i \in 0 .. n - 1
    BY <2>2
  <2>6. \A i \in 0 .. n : ~(i < n) => i = n
    BY <2>2
  <2>7. \A i \in 0 .. n : h[i] \in Seq(Msg)
    <3>1. ASSUME NEW i \in 0 .. n PROVE h[i] \in Seq(Msg)
      <4> HIDE DEF E
      <4>1. h[i] = IF i < n THEN g[i] ELSE E(g, n)
        OBVIOUS
      <4> HIDE DEF h
      <4>2. CASE i < n
        <5>1. i \in 0 .. n - 1 /\ h[i] = g[i]
          BY <2>5, <4>1, <4>2
        <5> QED
          BY <2>1, <5>1
      <4>3. CASE ~(i < n)
        BY <2>4, <4>1, <4>3
      <4> QED
        BY <4>2, <4>3
    <3> QED
      BY <3>1
  <2>8. h \in [0 .. n -> Seq(Msg)]
    <3> HIDE DEF E
    <3>1. h = [i \in 0 .. n |-> h[i]]
      OBVIOUS
    <3> HIDE DEF h
    <3> QED
      BY <2>7, <3>1
  <2>9. \A i \in 0 .. n - 1 : h[i] = g[i]
    <3>1. \A i \in 0 .. n - 1 : i \in 0 .. n /\ i < n
      BY <2>2
    <3> HIDE DEF E
    <3> QED
      BY <3>1
  <2>10. h[n] = E(g, n)
    <3>1. n \in 0 .. n /\ ~(n < n)
      BY <2>2
    <3> HIDE DEF E
    <3> QED
      BY <3>1
  <2> HIDE DEF h
  <2>11. ASSUME NEW i \in 0 .. n PROVE E(h, i) = E(g, i)
    <3>1. CASE i = 0
      BY <3>1
    <3>2. CASE i # 0
      <4>1. i - 1 \in 0 .. n - 1
        BY <2>2, <3>2
      <4>2. h[i - 1] = g[i - 1]
        BY <2>9, <4>1
      <4> QED
        BY <3>2, <4>2
    <3> QED
      BY <3>1, <3>2
  <2>12. ASSUME NEW i \in 0 .. n PROVE h[i] = E(h, i)
    <3> HIDE DEF E
    <3>1. CASE i < n
      <4>1. h[i] = g[i] /\ g[i] = E(g, i)
        BY <2>1, <2>5, <2>9, <3>1
      <4> QED
        BY <2>11, <4>1
    <3>2. CASE ~(i < n)
      <4>1. i = n
        BY <2>6, <3>2
      <4> QED
        BY <2>10, <2>11, <4>1
    <3> QED
      BY <3>1, <3>2
  <2> QED
    BY <2>8, <2>12
<1> HIDE DEF Good
<1>4. Good(L)
  <2>1. Bad \in SUBSET Nat
    OBVIOUS
  <2>2. SUFFICES ASSUME Bad # {} PROVE FALSE
    BY <1>1
  <2>3. PICK n \in Bad : \A j \in Bad : n <= j
    BY <2>1, <2>2, LeastNat
  <2>4. n \in 0 .. L /\ ~Good(n)
    BY <2>3
  <2>5. n # 0
    BY <1>2, <2>4
  <2>6. n \in 1 .. L /\ n - 1 \in 0 .. L /\ ~(n <= n - 1)
    BY <1>1, <2>4, <2>5
  <2>7. Good(n - 1)
    BY <2>3, <2>6
  <2> QED
    BY <1>3, <2>4, <2>6, <2>7
<1> DEFINE kept == CHOOSE f : f = [n \in 0 .. L |-> E(f, n)]
<1>5. kept = [n \in 0 .. L |-> E(kept, n)]
  <2>1. PICK g \in [0 .. L -> Seq(Msg)] : \A i \in 0 .. L : g[i] = E(g, i)
    BY <1>4 DEF Good
  <2> HIDE DEF E
  <2>2. g = [n \in 0 .. L |-> E(g, n)]
    BY <2>1
  <2> QED
    BY <2>2
<1>6. Retained(k, s) = kept[L]
  BY DEF Retained, L
<1> HIDE DEF kept
<1> DEFINE Odd == {n \in 0 .. L : kept[n] \notin Seq(Msg)}
<1>7. Odd = {}
  <2>1. SUFFICES ASSUME Odd # {} PROVE FALSE
    OBVIOUS
  <2>2. Odd \in SUBSET Nat
    OBVIOUS
  <2>3. PICK n \in Odd : \A j \in Odd : n <= j
    BY <2>1, <2>2, LeastNat
  <2>4. n \in 0 .. L /\ kept[n] \notin Seq(Msg) /\ kept[n] = E(kept, n)
    <3> HIDE DEF E
    <3> QED
      BY <1>5, <2>3
  <2>5. n # 0
    <3>1. E(kept, 0) = <<>> /\ <<>> \in Seq(Msg)
      OBVIOUS
    <3> HIDE DEF E
    <3> QED
      BY <2>4, <3>1
  <2>6. n \in 1 .. L /\ n - 1 \in 0 .. L /\ ~(n <= n - 1)
    BY <1>1, <2>4, <2>5
  <2>7. kept[n - 1] \in Seq(Msg)
    BY <2>3, <2>6
  <2>8. s[n] \in Msg
    BY <1>1, <2>6
  <2>9. Append(kept[n - 1], s[n]) \in Seq(Msg)
    BY <2>7, <2>8
  <2>10. E(kept, n) \in Seq(Msg)
    BY <2>5, <2>7, <2>9
  <2> HIDE DEF E
  <2> QED
    BY <2>4, <2>10
<1> QED
  BY <1>1, <1>6, <1>7
-----------------------------------------------------------------------------
(* The types of the other variables, and what is in hand                   *)

OtherTypes ==
    /\ q_enab \in BOOLEAN /\ owes \in [Context -> BOOLEAN] /\ up_enab \in BOOLEAN
    /\ srv \in {"idle", "getq", "back", "clear", "enable", "msg", "blocked"}
    /\ srv_msg \in Msg \cup {NoMsg} /\ up_msg \in Msg \cup {NoMsg}
    /\ up \in {"idle", "bcanput", "want", "putq"} /\ up_qp \in Nat
    /\ sent \in 0 .. MaxUp /\ put \in 0 .. MaxIntr
    /\ fl \in {"idle", "walk", "back", "clear", "enable", "arm"}
    /\ fl_list \in Seq(Msg) /\ fl_flag \in SUBSET Flag /\ flushes \in 0 .. MaxFlush

LEMMA OtherTypesKept ==
    ASSUME IInv, [Next]_vars
    PROVE  OtherTypes'
<1> USE DEF OtherTypes, fvars, uvars, svars, qvars
<1>1. OtherTypes
  BY DEF IInv, TypeOK
<1>2. /\ MaxUp \in Nat /\ MaxIntr \in Nat /\ MaxFlush \in Nat
  BY FlowAssumption
<1>3. q_first \in Seq(Msg) /\ (q_first # <<>> => Head(q_first) \in Msg) /\ q_flag \in SUBSET Flag
  BY DEF IInv, TypeOK
<1>4. \A c \in UpClass : sent < MaxUp => [id |-> sent + 1, class |-> c] \in Msg
  BY <1>1, <1>2, FlowAssumption DEF Msg
<1>5. CASE UNCHANGED vars
  BY <1>1, <1>5 DEF vars
<1>6. CASE SrvStep
  <2>1. CASE SrvStart
    BY <1>1, <1>2, <2>1 DEF SrvStart
  <2>2. CASE Getq
    BY <1>1, <1>2, <1>3, <2>2 DEF Getq
  <2>3. CASE BackTest
    BY <1>1, <1>2, <2>3 DEF BackTest
  <2>4. CASE BackClear
    BY <1>1, <1>2, <2>4 DEF BackClear
  <2>5. CASE BackEnable
    BY <1>1, <1>2, <2>5 DEF BackEnable
  <2>6. CASE Consume
    BY <1>1, <1>2, <2>6 DEF Consume
  <2>7. CASE PutBack
    BY <1>1, <1>2, <2>7 DEF PutBack, putbq, Put, Enables, Context
  <2>8. CASE BelowEnables
    BY <1>1, <1>2, <2>8 DEF BelowEnables
  <2> QED
    BY <1>6, <2>1, <2>2, <2>3, <2>4, <2>5, <2>6, <2>7, <2>8 DEF SrvStep
<1>7. CASE UpStep
  <2>1. CASE UpStart
    <3>1. up_msg' \in Msg \cup {NoMsg} /\ sent' \in 0 .. MaxUp
      <4>1. CASE up_msg = NoMsg
        <5>1. sent < MaxUp /\ sent' = sent + 1
          BY <2>1, <4>1 DEF UpStart
        <5>2. PICK c \in UpClass : up_msg' = [id |-> sent + 1, class |-> c]
          BY <2>1, <4>1 DEF UpStart
        <5> QED
          BY <1>1, <1>2, <1>4, <5>1, <5>2
      <4>2. CASE up_msg # NoMsg
        BY <1>1, <2>1, <4>2 DEF UpStart
      <4> QED
        BY <4>1, <4>2
    <3> QED
      BY <1>1, <2>1, <3>1 DEF UpStart
  <2>2. CASE Bcanput
    BY <1>1, <1>2, <1>3, <2>2, AskKeepsQueue DEF Bcanput
  <2>3. CASE BcanputWant
    BY <1>1, <1>2, <2>3 DEF BcanputWant
  <2>4. CASE UpPutq
    BY <1>1, <1>2, <1>4, <2>4 DEF UpPutq, putq, Put, Enables, Context
  <2> QED
    BY <1>7, <2>1, <2>2, <2>3, <2>4 DEF UpStep
<1>8. CASE IntrPutq
  BY <1>1, <1>2, <1>8 DEF IntrPutq, putq, Put, Enables, Context
<1>9. CASE FlStep
  <2>1. CASE FlushTake
    <3>1. PICK k \in FlushKind : fl_list' = Retained(k, q_first)
      BY <2>1 DEF FlushTake
    <3>2. fl_list' \in Seq(Msg)
      BY <1>3, <3>1, RetainedIsSeq
    <3>3. /\ flushes < MaxFlush /\ flushes' = flushes + 1
          /\ fl' = "walk" /\ fl_flag' = q_flag
      BY <2>1 DEF FlushTake
    <3>4. UNCHANGED <<q_enab, owes, svars, up_enab, uvars, put>>
      BY <2>1 DEF FlushTake
    <3> QED
      BY <1>1, <1>2, <1>3, <3>2, <3>3, <3>4
  <2>2. CASE FlushRetain
    <3>1. fl_list' \in Seq(Msg)
      <4>1. fl_list' = Tail(fl_list) /\ fl_list # <<>>
        BY <2>2 DEF FlushRetain
      <4> QED
        BY <1>1, <4>1
    <3>2. owes' = [owes EXCEPT !["fl"] = Enables(Head(fl_list))]
      BY <2>2 DEF FlushRetain, putq, Put
    <3>3. owes' \in [Context -> BOOLEAN]
      BY <1>1, <3>2 DEF Enables
    <3>4. UNCHANGED <<q_enab, svars, up_enab, uvars, put, fl, fl_flag, flushes>>
      BY <2>2 DEF FlushRetain
    <3> QED
      BY <1>1, <3>1, <3>3, <3>4
  <2>3. CASE FlushCheck
    BY <1>1, <1>2, <2>3 DEF FlushCheck
  <2>4. CASE FlushBackTest
    BY <1>1, <1>2, <2>4 DEF FlushBackTest
  <2>5. CASE FlushBackClear
    BY <1>1, <1>2, <2>5 DEF FlushBackClear
  <2>6. CASE FlushBackEnable
    BY <1>1, <1>2, <2>6 DEF FlushBackEnable
  <2>7. CASE FlushArm
    BY <1>1, <1>2, <2>7 DEF FlushArm, Context
  <2> QED
    BY <1>9, <2>1, <2>2, <2>3, <2>4, <2>5, <2>6, <2>7 DEF FlStep
<1>10. ASSUME NEW x \in Context, Qenable(x)
       PROVE  OtherTypes'
  BY <1>1, <1>10 DEF Qenable
<1> QED
  BY <1>5, <1>6, <1>7, <1>8, <1>9, <1>10 DEF Next
LEMMA HandsKept ==
    ASSUME IInv, [Next]_vars
    PROVE  Hands'
<1> USE DEF Hands, fvars, uvars, svars
<1>1. Hands /\ flushes \in Nat /\ Len(q_bandp) \in Nat /\ up_qp \in Nat
      /\ srv \in {"idle", "getq", "back", "clear", "enable", "msg", "blocked"}
      /\ up \in {"idle", "bcanput", "want", "putq"}
  BY FlowAssumption DEF IInv, TypeOK
<1>2. Len(q_bandp') \in Nat /\ Len(q_bandp') >= Len(q_bandp)
  BY QueueKept DEF Queue
<1>3. \A c \in UpClass : [id |-> sent + 1, class |-> c] # NoMsg
  BY FlowAssumption DEF IInv, TypeOK, Msg
<1>4. q_first # <<>> => Head(q_first) # NoMsg
  <2>1. q_first \in Seq(Msg)
    BY DEF IInv, TypeOK
  <2> QED
    BY <2>1, FlowAssumption
<1>5. CASE UNCHANGED vars
  BY <1>1, <1>2, <1>5 DEF vars
<1>6. CASE SrvStep
  <2>1. CASE SrvStart
    BY <1>1, <1>2, <2>1 DEF SrvStart
  <2>2. CASE Getq
    BY <1>1, <1>2, <1>4, <2>2 DEF Getq
  <2>3. CASE BackTest
    BY <1>1, <1>2, <2>3 DEF BackTest
  <2>4. CASE BackClear
    BY <1>1, <1>2, <2>4 DEF BackClear
  <2>5. CASE BackEnable
    BY <1>1, <1>2, <2>5 DEF BackEnable
  <2>6. CASE Consume
    BY <1>1, <1>2, <2>6 DEF Consume
  <2>7. CASE PutBack
    BY <1>1, <1>2, <2>7 DEF PutBack
  <2>8. CASE BelowEnables
    BY <1>1, <1>2, <2>8 DEF BelowEnables
  <2> QED
    BY <1>6, <2>1, <2>2, <2>3, <2>4, <2>5, <2>6, <2>7, <2>8 DEF SrvStep
<1>7. CASE UpStep
  <2>1. CASE UpStart
    BY <1>1, <1>2, <1>3, <2>1 DEF UpStart
  <2>2. CASE Bcanput
    BY <1>1, <1>2, <2>2, AskKeepsQueue DEF Bcanput
  <2>3. CASE BcanputWant
    BY <1>1, <1>2, <2>3 DEF BcanputWant
  <2>4. CASE UpPutq
    BY <1>1, <1>2, <1>3, <2>4 DEF UpPutq
  <2> QED
    BY <1>7, <2>1, <2>2, <2>3, <2>4 DEF UpStep
<1>8. CASE IntrPutq
  BY <1>1, <1>2, <1>8 DEF IntrPutq
<1>9. CASE FlStep
  <2>1. CASE FlushTake
    <3>1. flushes' = flushes + 1 /\ UNCHANGED <<srv, srv_msg, up, up_msg, up_qp>>
      BY <2>1 DEF FlushTake
    <3> QED
      BY <1>1, <1>2, <3>1
  <2>2. CASE FlushRetain
    BY <1>1, <1>2, <2>2 DEF FlushRetain
  <2>3. CASE FlushCheck
    BY <1>1, <1>2, <2>3 DEF FlushCheck
  <2>4. CASE FlushBackTest
    BY <1>1, <1>2, <2>4 DEF FlushBackTest
  <2>5. CASE FlushBackClear
    BY <1>1, <1>2, <2>5 DEF FlushBackClear
  <2>6. CASE FlushBackEnable
    BY <1>1, <1>2, <2>6 DEF FlushBackEnable
  <2>7. CASE FlushArm
    BY <1>1, <1>2, <2>7 DEF FlushArm
  <2> QED
    BY <1>9, <2>1, <2>2, <2>3, <2>4, <2>5, <2>6, <2>7 DEF FlStep
<1>10. ASSUME NEW x \in Context, Qenable(x)
       PROVE  Hands'
  BY <1>1, <1>2, <1>10 DEF Qenable
<1> QED
  BY <1>5, <1>6, <1>7, <1>8, <1>9, <1>10 DEF Next

-----------------------------------------------------------------------------
(* Somebody looks                                                          *)

LEMMA AttendedKept ==
    ASSUME IInv, [Next]_vars
    PROVE  Attended'
<1> USE DEF Attended, Looking, fvars, uvars, svars, qvars
<1>1. /\ Attended /\ owes \in [Context -> BOOLEAN]
      /\ srv = "msg" => srv_msg # NoMsg
      /\ srv \in {"idle", "getq", "blocked"} => srv_msg = NoMsg
  BY DEF IInv, TypeOK, Hands
<1>2. \A x \in Context : ~owes[x] =>
          ((\E y \in Context : owes[y]) => \A b : \E y \in Context : [owes EXCEPT ![x] = b][y])
  BY <1>1
<1>3. \A x \in Context : [owes EXCEPT ![x] = TRUE][x]
  BY <1>1
<1>4. \A x \in Context : \A m : (~owes[x] /\ Put(x, find_q_spot_head(q_first, m), m))
          \/ (~owes[x] /\ putq(x, m)) =>
             /\ q_flag \subseteq q_flag'
             /\ (\E y \in Context : owes[y]) => \E y \in Context : owes'[y]
             /\ "QWANTR" \in q_flag => \E y \in Context : owes'[y]
  <2>1. ASSUME NEW x \in Context, NEW m, NEW n, ~owes[x], Put(x, n, m)
        PROVE  /\ q_flag \subseteq q_flag'
               /\ (\E y \in Context : owes[y]) => \E y \in Context : owes'[y]
               /\ "QWANTR" \in q_flag => \E y \in Context : owes'[y]
    <3>1. q_flag \subseteq q_flag'
      BY <2>1 DEF Put
    <3>2. owes' = [owes EXCEPT ![x] = Enables(m)]
      BY <2>1 DEF Put
    <3>3. (\E y \in Context : owes[y]) => \E y \in Context : owes'[y]
      BY <1>2, <2>1, <3>2
    <3>4. "QWANTR" \in q_flag => \E y \in Context : owes'[y]
      BY <1>3, <3>2 DEF Enables
    <3> QED
      BY <3>1, <3>3, <3>4
  <2> QED
    BY <2>1 DEF putq
<1>5. \A x \in {"srv", "up", "intr", "fl"} : x \in Context
  BY DEF Context
<1>6. q_first # <<>> => Head(q_first) # NoMsg
  <2>1. q_first \in Seq(Msg)
    BY DEF IInv, TypeOK
  <2> QED
    BY <2>1, FlowAssumption
<1>7. CASE UNCHANGED vars
  BY <1>1, <1>7 DEF vars
<1>8. CASE ~owes["srv"] /\ SrvStep
  <2>1. CASE SrvStart
    BY <1>1, <2>1 DEF SrvStart
  <2>2. CASE Getq
    <3>1. CASE q_first = <<>>
      BY <1>1, <2>2, <3>1 DEF Getq
    <3>2. CASE q_first # <<>>
      <4>1. srv' = "back" /\ srv_msg' = Head(q_first) /\ fl' = fl
        BY <2>2, <3>2 DEF Getq
      <4>2. srv_msg' # NoMsg
        BY <1>6, <3>2, <4>1
      <4> QED
        BY <4>1, <4>2
    <3> QED
      BY <3>1, <3>2
  <2>3. CASE BackTest
    BY <1>1, <2>3 DEF BackTest
  <2>4. CASE BackClear
    BY <1>1, <2>4 DEF BackClear
  <2>5. CASE BackEnable
    BY <1>1, <2>5 DEF BackEnable
  <2>6. CASE Consume
    BY <1>1, <2>6 DEF Consume
  <2>7. CASE PutBack
    BY <1>1, <1>4, <1>5, <1>8, <2>7 DEF PutBack, putbq
  <2>8. CASE BelowEnables
    BY <1>1, <2>8 DEF BelowEnables
  <2> QED
    BY <1>8, <2>1, <2>2, <2>3, <2>4, <2>5, <2>6, <2>7, <2>8 DEF SrvStep
<1>9. CASE ~owes["up"] /\ UpStep
  <2>1. CASE UpStart
    BY <1>1, <2>1 DEF UpStart
  <2>2. CASE Bcanput
    BY <1>1, <2>2 DEF Bcanput
  <2>3. CASE BcanputWant
    BY <1>1, <2>3 DEF BcanputWant
  <2>4. CASE UpPutq
    <3>1. putq("up", up_msg)
      BY <2>4 DEF UpPutq
    <3>2. /\ q_flag \subseteq q_flag'
          /\ (\E y \in Context : owes[y]) => \E y \in Context : owes'[y]
          /\ "QWANTR" \in q_flag => \E y \in Context : owes'[y]
      BY <1>4, <1>5, <1>9, <3>1
    <3> QED
      BY <1>1, <2>4, <3>2 DEF UpPutq
  <2> QED
    BY <1>9, <2>1, <2>2, <2>3, <2>4 DEF UpStep
<1>10. CASE ~owes["intr"] /\ IntrPutq
  <2>1. PICK m : putq("intr", m)
    BY <1>10 DEF IntrPutq
  <2>2. /\ q_flag \subseteq q_flag'
        /\ (\E y \in Context : owes[y]) => \E y \in Context : owes'[y]
        /\ "QWANTR" \in q_flag => \E y \in Context : owes'[y]
    BY <1>4, <1>5, <1>10, <2>1
  <2> QED
    BY <1>1, <1>10, <2>2 DEF IntrPutq
<1>11. CASE ~owes["fl"] /\ FlStep
  <2>1. CASE FlushTake
    <3>1. fl' = "walk"
      BY <2>1 DEF FlushTake
    <3> QED
      BY <3>1
  <2>2. CASE FlushRetain
    <3>1. putq("fl", Head(fl_list))
      BY <2>2 DEF FlushRetain
    <3>2. /\ q_flag \subseteq q_flag'
          /\ (\E y \in Context : owes[y]) => \E y \in Context : owes'[y]
          /\ "QWANTR" \in q_flag => \E y \in Context : owes'[y]
      BY <1>4, <1>5, <1>11, <3>1
    <3> QED
      BY <1>1, <2>2, <3>2 DEF FlushRetain
  <2>3. CASE FlushCheck
    <3>1. /\ q_first' = q_first /\ "QWANTR" \in q_flag' /\ fl' = "back"
      BY <2>3 DEF FlushCheck
    <3> QED
      BY <3>1
  <2>4. CASE FlushBackTest
    BY <1>1, <2>4 DEF FlushBackTest
  <2>5. CASE FlushBackClear
    BY <1>1, <2>5 DEF FlushBackClear
  <2>6. CASE FlushBackEnable
    BY <1>1, <2>6 DEF FlushBackEnable
  <2>7. CASE FlushArm
    BY <1>1, <1>2, <1>3, <1>5, <1>11, <2>7 DEF FlushArm
  <2> QED
    BY <1>11, <2>1, <2>2, <2>3, <2>4, <2>5, <2>6, <2>7 DEF FlStep
<1>12. ASSUME NEW x \in Context, Qenable(x)
       PROVE  Attended'
  BY <1>1, <1>5, <1>12 DEF Qenable
<1> QED
  BY <1>7, <1>8, <1>9, <1>10, <1>11, <1>12 DEF Next

-----------------------------------------------------------------------------
(* Who sent a message has its messages in turn, until something is flushed *)

LEMMA TurnsInserted ==
    ASSUME NEW s \in Seq(Msg), Turns(s), NEW m \in Msg, NEW n,
           \/ /\ Behind(s, n, m)
              /\ \A i \in DOMAIN s : From(s[i]) = From(m) => s[i].id < m.id
           \/ /\ Ahead(s, n, m)
              /\ \A i \in DOMAIN s : Alike(m, s[i]) => m.id < s[i].id
    PROVE  Turns(InsertAt(s, n + 1, m))
<1> DEFINE R == {p \in Msg \X Msg : Alike(p[1], p[2]) => p[1].id < p[2].id}
           t == InsertAt(s, n + 1, m)
<1>1. /\ n \in 0 .. Len(s) /\ DOMAIN s = 1 .. Len(s) /\ Len(s) \in Nat
      /\ \A i \in DOMAIN s : s[i] \in Msg /\ Rank(s[i]) \in Nat
      /\ Rank(m) \in Nat
  BY RankType DEF Behind, Ahead
<1>2. \A x, y \in Msg : <<x, y>> \in R <=> (Alike(x, y) => x.id < y.id)
  OBVIOUS
<1>3. \A i, j \in DOMAIN s : i < j => <<s[i], s[j]>> \in R
  BY <1>1, <1>2 DEF Turns
<1>4. \A i \in 1 .. n : Alike(s[i], m) => s[i].id < m.id
  BY <1>1 DEF Alike, Behind, Ahead
<1>5. \A i \in n + 1 .. Len(s) : Alike(m, s[i]) => m.id < s[i].id
  BY <1>1 DEF Alike, Behind, Ahead
<1>6. \A i \in 1 .. n : <<s[i], m>> \in R
  BY <1>1, <1>2, <1>4
<1>7. \A i \in n + 1 .. Len(s) : <<m, s[i]>> \in R
  BY <1>1, <1>2, <1>5
<1> HIDE DEF R
<1>8. \A i, j \in DOMAIN t : i < j => <<t[i], t[j]>> \in R
  BY <1>1, <1>3, <1>6, <1>7, PairsInserted
<1>9. t \in Seq(Msg)
  BY <1>1, Inserted
<1> HIDE DEF t
<1>10. \A i, j \in DOMAIN t : i < j => (Alike(t[i], t[j]) => t[i].id < t[j].id)
  <2>1. \A i \in DOMAIN t : t[i] \in Msg
    BY <1>9
  <2> QED
    BY <1>2, <1>8, <2>1
<1> QED
  BY <1>10 DEF Turns, t

\* What is said of each message, in the form that the steps use.
LEMMA TurnFacts ==
    ASSUME IInv, InTurn
    PROVE  /\ q_first \in Seq(Msg) /\ DOMAIN q_first = 1 .. Len(q_first)
           /\ Len(q_first) \in Nat /\ Turns(q_first)
           /\ \A i \in DOMAIN q_first :
                  /\ q_first[i] \in Msg /\ q_first[i].id \in Nat
                  /\ q_first[i].id <= IF From(q_first[i]) THEN sent ELSE MaxUp + put
                  /\ up_msg # NoMsg /\ From(q_first[i]) => q_first[i].id < up_msg.id
                  /\ srv_msg # NoMsg /\ Alike(srv_msg, q_first[i])
                         => srv_msg.id < q_first[i].id
           /\ sent \in Nat /\ put \in Nat /\ MaxUp \in Nat /\ sent <= MaxUp
           /\ up_msg # NoMsg => /\ up_msg \in Msg /\ up_msg.id = sent
                                /\ From(up_msg)
           /\ srv_msg # NoMsg => /\ srv_msg \in Msg /\ srv_msg.id \in Nat /\ Fits(srv_msg)
<1>1. /\ q_first \in Seq(Msg) /\ sent \in 0 .. MaxUp /\ put \in 0 .. MaxIntr
      /\ MaxUp \in Nat /\ MaxIntr \in Nat
      /\ up_msg \in Msg \cup {NoMsg} /\ srv_msg \in Msg \cup {NoMsg}
  BY FlowAssumption DEF IInv, TypeOK
<1>2. DOMAIN q_first = 1 .. Len(q_first) /\ Len(q_first) \in Nat
      /\ \A i \in DOMAIN q_first : q_first[i] \in Msg /\ q_first[i].id \in Nat
  <2>1. \A i \in DOMAIN q_first : q_first[i] \in Msg
    BY <1>1
  <2> QED
    BY <1>1, <2>1, RankType
<1>3. up_msg # NoMsg => up_msg \in Msg /\ up_msg.id = sent /\ From(up_msg)
  BY <1>1 DEF InTurn, From
<1>4. srv_msg # NoMsg => srv_msg \in Msg /\ srv_msg.id \in Nat /\ Fits(srv_msg)
  BY <1>1, RankType DEF InTurn
<1>5. Turns(q_first)
  BY DEF InTurn
<1>6. \A i \in DOMAIN q_first :
          /\ q_first[i].id <= IF From(q_first[i]) THEN sent ELSE MaxUp + put
          /\ up_msg # NoMsg /\ From(q_first[i]) => q_first[i].id < up_msg.id
          /\ srv_msg # NoMsg /\ Alike(srv_msg, q_first[i]) => srv_msg.id < q_first[i].id
  BY DEF InTurn, Fits
<1> QED
  BY <1>1, <1>2, <1>3, <1>4, <1>5, <1>6

LEMMA GetqInTurn ==
    ASSUME IInv, InTurn, Getq
    PROVE  InTurn'
<1>1. UNCHANGED <<up_msg, sent, put>>
  BY DEF Getq, uvars
<1>2. \A m : Fits(m)' <=> Fits(m)
  BY <1>1 DEF Fits
<1>3. CASE q_first = <<>>
  <2>1. q_first' = q_first /\ srv_msg' = NoMsg
    BY <1>3 DEF Getq
  <2> QED
    BY <1>1, <1>2, <2>1 DEF InTurn
<1>4. CASE q_first # <<>>
  <2> DEFINE s == q_first
             t == Tail(q_first)
  <2>1. q_first' = t /\ srv_msg' = s[1]
    <3>1. q_first' = Tail(q_first) /\ srv_msg' = Head(q_first)
      BY <1>4 DEF Getq, rmv_msg
    <3>2. q_first \in Seq(Msg)
      BY TurnFacts
    <3> QED
      BY <1>4, <3>1, <3>2
  <2>2. s \in Seq(Msg) /\ s # <<>> /\ Turns(s) /\ \A i \in DOMAIN s : Fits(s[i])
    BY <1>4, TurnFacts DEF InTurn
  <2>3. /\ Len(s) \in Nat \ {0} /\ DOMAIN t = 1 .. Len(s) - 1 /\ DOMAIN s = 1 .. Len(s)
        /\ \A i \in 1 .. Len(s) - 1 : t[i] = s[i + 1]
    BY <2>2
  <2> HIDE DEF t, s
  <2>4. \A i \in DOMAIN t : i + 1 \in DOMAIN s /\ t[i] = s[i + 1] /\ 1 < i + 1 /\ 1 \in DOMAIN s
    BY <2>3
  <2>5. Turns(t)
    <3>1. \A i, j \in DOMAIN t : i < j => i + 1 < j + 1
      BY <2>3
    <3> QED
      BY <2>2, <2>4, <3>1 DEF Turns
  <2>6. \A i \in DOMAIN t : Fits(t[i]) /\ (Alike(s[1], t[i]) => s[1].id < t[i].id)
    BY <2>2, <2>4 DEF Turns
  <2>7. Fits(s[1])
    BY <2>2, <2>3
  <2>8. up_msg # NoMsg => up_msg.id = sent
    BY DEF InTurn
  <2> QED
    BY <1>1, <1>2, <2>1, <2>5, <2>6, <2>7, <2>8 DEF InTurn
<1> QED
  BY <1>3, <1>4

LEMMA PutBackInTurn ==
    ASSUME IInv, InTurn, PutBack
    PROVE  InTurn'
<1> DEFINE s == q_first
           m == srv_msg
           n == find_q_spot_head(q_first, srv_msg)
           t == InsertAt(s, n + 1, m)
<1>1. UNCHANGED <<up_msg, sent, put>> /\ q_first' = t /\ srv_msg' = NoMsg
  BY DEF PutBack, putbq, Put, uvars
<1>2. s \in Seq(Msg) /\ m \in Msg /\ Ahead(s, n, m) /\ Turns(s) /\ m # NoMsg
  <2>1. m \in Msg /\ Ahead(s, n, m)
    BY PutsAtASpot
  <2> QED
    BY <2>1, TurnFacts, FlowAssumption
<1>3. \A i \in DOMAIN s : Alike(m, s[i]) => m.id < s[i].id
  BY <1>2, TurnFacts
<1>4. (\A i \in DOMAIN s : Fits(s[i])) /\ Fits(m)
  BY <1>2 DEF InTurn
<1>5. n \in 0 .. Len(s)
  BY <1>2 DEF Ahead
<1> HIDE DEF n
<1>6. Turns(t)
  BY <1>2, <1>3, TurnsInserted
<1>7. \A i \in DOMAIN t : t[i] = m \/ \E j \in DOMAIN s : t[i] = s[j]
  BY <1>2, <1>5, MembersInserted
<1> HIDE DEF t, s, m
<1>8. \A i \in DOMAIN t : Fits(t[i])
  BY <1>4, <1>7
<1>9. \A x : Fits(x)' <=> Fits(x)
  BY <1>1 DEF Fits
<1>10. up_msg # NoMsg => up_msg.id = sent
  BY DEF InTurn
<1> QED
  BY <1>1, <1>6, <1>8, <1>9, <1>10 DEF InTurn

LEMMA UpStartInTurn ==
    ASSUME IInv, InTurn, UpStart
    PROVE  InTurn'
<1>1. CASE up_msg = NoMsg
  <2>1. UNCHANGED <<q_first, srv_msg, put>> /\ sent' = sent + 1
    BY <1>1 DEF UpStart, qvars, svars
  <2>2. PICK c \in UpClass : up_msg' = [id |-> sent + 1, class |-> c]
    BY <1>1 DEF UpStart
  <2>3. up_msg'.id = sent + 1
    BY <2>2
  <2>4. sent \in Nat /\ MaxUp \in Nat /\ put \in Nat
    BY TurnFacts
  <2>5. \A m \in Msg : Fits(m) => Fits(m)'
    <3>1. ASSUME NEW m \in Msg, Fits(m) PROVE Fits(m)'
      <4>1. m.id \in Nat /\ m.id <= IF From(m) THEN sent ELSE MaxUp + put
        BY <3>1, RankType DEF Fits
      <4> QED
        BY <2>1, <2>3, <2>4, <4>1 DEF Fits, From
    <3> QED
      BY <3>1
  <2>6. /\ \A i \in DOMAIN q_first : q_first[i] \in Msg /\ Fits(q_first[i])
        /\ srv_msg # NoMsg => srv_msg \in Msg /\ Fits(srv_msg)
    BY TurnFacts DEF InTurn
  <2>7. /\ (\A i \in DOMAIN q_first : Fits(q_first[i]))'
        /\ (srv_msg # NoMsg => Fits(srv_msg))'
    BY <2>1, <2>5, <2>6 DEF Fits, From
  <2> QED
    BY <2>1, <2>3, <2>7 DEF InTurn, Turns, Alike, From, Fits
<1>2. CASE up_msg # NoMsg
  BY <1>2 DEF UpStart, qvars, svars, InTurn, Turns, Alike, From, Fits
<1> QED
  BY <1>1, <1>2

LEMMA UpPutqInTurn ==
    ASSUME IInv, InTurn, UpPutq
    PROVE  InTurn'
<1> DEFINE s == q_first
           m == up_msg
           n == find_q_spot_tail(q_first, up_msg)
           t == InsertAt(s, n + 1, m)
<1>1. UNCHANGED <<srv_msg, put>> /\ q_first' = t
  BY DEF UpPutq, putq, Put, svars
<1>2. \/ sent' = sent + 1 /\ \E c \in UpClass : up_msg' = [id |-> sent + 1, class |-> c]
      \/ sent' = sent /\ up_msg' = NoMsg
  BY DEF UpPutq
<1>3. \/ sent' = sent + 1 /\ up_msg'.id = sent + 1
      \/ sent' = sent /\ up_msg' = NoMsg
  BY <1>2
<1>4. s \in Seq(Msg) /\ m \in Msg /\ Behind(s, n, m) /\ Turns(s) /\ m # NoMsg
  <2>1. m \in Msg /\ Behind(s, n, m)
    BY PutsAtASpot
  <2> QED
    BY <2>1, TurnFacts, FlowAssumption
<1>5. n \in 0 .. Len(s)
  BY <1>4 DEF Behind
<1>6. /\ m.id = sent /\ From(m) /\ sent \in Nat /\ put \in Nat /\ MaxUp \in Nat
      /\ \A i \in DOMAIN s : /\ s[i].id \in Nat
                             /\ s[i].id <= IF From(s[i]) THEN sent ELSE MaxUp + put
                             /\ From(s[i]) => s[i].id < m.id
                             /\ srv_msg # NoMsg /\ Alike(srv_msg, s[i]) => srv_msg.id < s[i].id
  BY <1>4, TurnFacts
<1>7. srv_msg # NoMsg => /\ srv_msg.id \in Nat
                         /\ srv_msg.id <= IF From(srv_msg) THEN sent ELSE MaxUp + put
                         /\ From(srv_msg) => srv_msg.id < m.id
  BY <1>4, TurnFacts DEF Fits
<1> HIDE DEF n
<1>8. Turns(t)
  BY <1>4, <1>6, TurnsInserted
<1>9. \A i \in DOMAIN t : t[i] = m \/ \E j \in DOMAIN s : t[i] = s[j]
  BY <1>4, <1>5, MembersInserted
<1> HIDE DEF t, s, m
<1>10. \A i \in DOMAIN t : /\ t[i].id \in Nat
                           /\ t[i].id <= IF From(t[i]) THEN sent ELSE MaxUp + put
                           /\ srv_msg # NoMsg /\ Alike(srv_msg, t[i]) => srv_msg.id < t[i].id
  <2>1. ASSUME NEW i \in DOMAIN t
        PROVE  /\ t[i].id \in Nat
               /\ t[i].id <= IF From(t[i]) THEN sent ELSE MaxUp + put
               /\ srv_msg # NoMsg /\ Alike(srv_msg, t[i]) => srv_msg.id < t[i].id
    <3>1. CASE t[i] = m
      <4>1. srv_msg # NoMsg /\ Alike(srv_msg, m) => srv_msg.id < m.id
        BY <1>6, <1>7 DEF Alike
      <4>2. m.id \in Nat /\ m.id <= IF From(m) THEN sent ELSE MaxUp + put
        BY <1>6
      <4> QED
        BY <3>1, <4>1, <4>2
    <3>2. CASE \E j \in DOMAIN s : t[i] = s[j]
      BY <1>6, <3>2
    <3> QED
      BY <1>9, <2>1, <3>1, <3>2
  <2> QED
    BY <2>1
<1>11. \A x : (x.id \in Nat /\ x.id <= IF From(x) THEN sent ELSE MaxUp + put) => Fits(x)'
  <2>1. ASSUME NEW x, x.id \in Nat, x.id <= IF From(x) THEN sent ELSE MaxUp + put
        PROVE  Fits(x)'
    BY <1>1, <1>3, <1>6, <2>1 DEF Fits, From
  <2> QED
    BY <2>1
<1>12. (\A i \in DOMAIN q_first : Fits(q_first[i]))' /\ (srv_msg # NoMsg => Fits(srv_msg))'
  BY <1>1, <1>7, <1>10, <1>11 DEF Fits, From
<1>13. (up_msg # NoMsg => up_msg.id = sent)'
  BY <1>3
<1> QED
  BY <1>1, <1>8, <1>10, <1>12, <1>13 DEF InTurn

LEMMA IntrPutqInTurn ==
    ASSUME IInv, InTurn, IntrPutq
    PROVE  InTurn'
<1>1. PICK c \in IntrClass : putq("intr", [id |-> MaxUp + put + 1, class |-> c])
  BY DEF IntrPutq
<1> DEFINE s == q_first
           m == [id |-> MaxUp + put + 1, class |-> c]
           n == find_q_spot_tail(q_first, m)
           t == InsertAt(s, n + 1, m)
<1>2. UNCHANGED <<srv_msg, up_msg, sent>> /\ q_first' = t /\ put' = put + 1
  BY <1>1 DEF IntrPutq, putq, Put, svars, uvars
<1>3. s \in Seq(Msg) /\ m \in Msg /\ Behind(s, n, m) /\ Turns(s) /\ n \in 0 .. Len(s)
  <2>1. m \in Msg /\ Behind(s, n, m)
    BY PutsAtASpot
  <2> QED
    BY <2>1, TurnFacts DEF Behind
<1>4. m.id = MaxUp + put + 1
  OBVIOUS
<1> HIDE DEF n, m
<1>5. /\ sent \in Nat /\ put \in Nat /\ MaxUp \in Nat /\ ~From(m) /\ m.id \in Nat
      /\ sent <= MaxUp
      /\ \A i \in DOMAIN s : /\ s[i].id \in Nat
                             /\ s[i].id <= IF From(s[i]) THEN sent ELSE MaxUp + put
                             /\ up_msg # NoMsg /\ From(s[i]) => s[i].id < up_msg.id
                             /\ srv_msg # NoMsg /\ Alike(srv_msg, s[i]) => srv_msg.id < s[i].id
  BY <1>4, TurnFacts DEF From
<1>6. srv_msg # NoMsg => /\ srv_msg.id \in Nat
                         /\ srv_msg.id <= IF From(srv_msg) THEN sent ELSE MaxUp + put
                         /\ up_msg # NoMsg /\ From(srv_msg) => srv_msg.id < up_msg.id
  BY TurnFacts DEF Fits
<1>7. \A i \in DOMAIN s : From(s[i]) = From(m) => s[i].id < m.id
  BY <1>4, <1>5
<1>8. Turns(t)
  BY <1>3, <1>7, TurnsInserted
<1>9. \A i \in DOMAIN t : t[i] = m \/ \E j \in DOMAIN s : t[i] = s[j]
  BY <1>3, MembersInserted
<1> HIDE DEF t, s
<1>10. \A i \in DOMAIN t :
           /\ t[i].id \in Nat
           /\ t[i].id <= IF From(t[i]) THEN sent ELSE MaxUp + put + 1
           /\ up_msg # NoMsg /\ From(t[i]) => t[i].id < up_msg.id
           /\ srv_msg # NoMsg /\ Alike(srv_msg, t[i]) => srv_msg.id < t[i].id
  <2>1. ASSUME NEW i \in DOMAIN t
        PROVE  /\ t[i].id \in Nat
               /\ t[i].id <= IF From(t[i]) THEN sent ELSE MaxUp + put + 1
               /\ up_msg # NoMsg /\ From(t[i]) => t[i].id < up_msg.id
               /\ srv_msg # NoMsg /\ Alike(srv_msg, t[i]) => srv_msg.id < t[i].id
    <3>1. CASE t[i] = m
      BY <1>4, <1>5, <1>6, <3>1 DEF Alike
    <3>2. CASE \E j \in DOMAIN s : t[i] = s[j]
      BY <1>5, <3>2
    <3> QED
      BY <1>9, <2>1, <3>1, <3>2
  <2> QED
    BY <2>1
<1>11. (\A i \in DOMAIN q_first : Fits(q_first[i]))'
  BY <1>2, <1>5, <1>10 DEF Fits, From
<1>12. (srv_msg # NoMsg => Fits(srv_msg))'
  BY <1>2, <1>5, <1>6 DEF Fits, From
<1>13. (up_msg # NoMsg => up_msg.id = sent)'
  BY <1>2 DEF InTurn
<1> QED
  BY <1>2, <1>8, <1>10, <1>11, <1>12, <1>13 DEF InTurn

LEMMA InTurnKept ==
    ASSUME IInv, [Next]_vars
    PROVE  (flushes = 0 => InTurn)'
<1>1. flushes \in Nat
  BY FlowAssumption DEF IInv, TypeOK
<1>2. ASSUME UNCHANGED <<q_first, up_msg, srv_msg, sent, put, flushes>>
      PROVE  (flushes = 0 => InTurn)'
  BY <1>2 DEF IInv, InTurn, Turns, Alike, From, Rank, Fits
<1>3. CASE UNCHANGED vars
  BY <1>2, <1>3 DEF vars, qvars, uvars, svars, fvars
<1>4. CASE SrvStep
  <2>1. flushes' = flushes
    BY <1>4 DEF SrvStep, SrvStart, Getq, BackTest, BackClear, BackEnable, Consume, PutBack,
                BelowEnables, fvars
  <2>2. CASE SrvStart \/ BackTest \/ BackClear \/ BackEnable \/ BelowEnables
    BY <1>2, <2>2 DEF SrvStart, BackTest, BackClear, BackEnable, BelowEnables, qvars, uvars,
                      svars, fvars
  <2>3. CASE Getq
    BY <2>1, <2>3, GetqInTurn DEF IInv
  <2>4. CASE Consume
    <3>1. UNCHANGED <<q_first, up_msg, sent, put>> /\ srv_msg' = NoMsg
      BY <2>4 DEF Consume, qvars, uvars
    <3> QED
      BY <2>1, <3>1 DEF IInv, InTurn, Turns, Alike, From, Rank, Fits
  <2>5. CASE PutBack
    BY <2>1, <2>5, PutBackInTurn DEF IInv
  <2> QED
    BY <1>4, <2>2, <2>3, <2>4, <2>5 DEF SrvStep
<1>5. CASE UpStep
  <2>1. flushes' = flushes
    BY <1>5 DEF UpStep, UpStart, Bcanput, BcanputWant, UpPutq, fvars
  <2>2. CASE Bcanput \/ BcanputWant
    BY <1>2, <2>2 DEF Bcanput, BcanputWant, svars, fvars
  <2>3. CASE UpStart
    BY <2>1, <2>3, UpStartInTurn DEF IInv
  <2>4. CASE UpPutq
    BY <2>1, <2>4, UpPutqInTurn DEF IInv
  <2> QED
    BY <1>5, <2>2, <2>3, <2>4 DEF UpStep
<1>6. CASE IntrPutq
  <2>1. flushes' = flushes
    BY <1>6 DEF IntrPutq, fvars
  <2> QED
    BY <1>6, <2>1, IntrPutqInTurn DEF IInv
<1>7. CASE FlStep
  <2>1. CASE FlushTake
    <3>1. flushes' = flushes + 1
      BY <2>1 DEF FlushTake
    <3> QED
      BY <1>1, <3>1
  <2>2. CASE FlStep /\ ~FlushTake
    <3>1. fl # "idle" /\ flushes' = flushes
      BY <2>2 DEF FlStep, FlushRetain, FlushCheck, FlushBackTest, FlushBackClear,
                  FlushBackEnable, FlushArm
    <3> QED
      BY <3>1 DEF IInv, Hands
  <2> QED
    BY <1>7, <2>1, <2>2
<1>8. ASSUME NEW x \in Context, Qenable(x)
      PROVE  (flushes = 0 => InTurn)'
  BY <1>2, <1>8 DEF Qenable, qvars, uvars, svars, fvars
<1> QED
  BY <1>3, <1>4, <1>5, <1>6, <1>7, <1>8 DEF Next

-----------------------------------------------------------------------------
(* Theorems                                                                *)

LEMMA IInvInit == Init => IInv
<1> SUFFICES ASSUME Init PROVE IInv
  OBVIOUS
<1> USE DEF Init
<1>1. TypeOK
  <2>1. /\ 0 \in 0 .. MaxUp /\ 0 \in 0 .. MaxIntr /\ 0 \in 0 .. MaxFlush
    BY FlowAssumption
  <2>2. {"QWANTR"} \in SUBSET Flag /\ {} \in SUBSET Flag
    BY DEF Flag
  <2>3. q_first \in Seq(Msg) /\ q_bandp \in Seq(BandRec) /\ fl_list \in Seq(Msg)
    OBVIOUS
  <2>4. owes \in [Context -> BOOLEAN]
    OBVIOUS
  <2> QED
    BY <2>1, <2>2, <2>3, <2>4 DEF TypeOK
<1>2. Hands
  BY DEF Hands
<1>3. Sorted(q_first) /\ Idx(q_first, OfBand) = {} /\ Idx(q_first, OfQueue) = {}
  BY DEF Sorted, Idx
<1>4. Bands(q_first, q_bandp) /\ BandsFull(q_bandp)
  BY <1>3 DEF Bands, BandsFull
<1>5. QueueCount
  BY <1>3, FS_EmptySet, HiwatNat DEF QueueCount
<1>6. InTurn
  BY DEF InTurn, Turns
<1>7. Attended
  BY DEF Attended
<1> QED
  BY <1>1, <1>2, <1>3, <1>4, <1>5, <1>6, <1>7 DEF IInv

LEMMA IInvNext == IInv /\ [Next]_vars => IInv'
<1> SUFFICES ASSUME IInv, [Next]_vars PROVE IInv'
  OBVIOUS
<1>1. Queue'
  BY QueueKept
<1>2. OtherTypes'
  BY OtherTypesKept
<1>3. TypeOK'
  BY <1>1, <1>2 DEF TypeOK, Queue, OtherTypes
<1>4. Hands' /\ (flushes = 0 => InTurn)' /\ Attended'
  BY HandsKept, InTurnKept, AttendedKept
<1> QED
  BY <1>1, <1>3, <1>4 DEF IInv, Queue

LEMMA Invariance == Spec => []IInv
  BY IInvInit, IInvNext, PTL DEF Spec

LEMMA OrderFollows == IInv => InOrder
<1> SUFFICES ASSUME IInv PROVE InOrder
  OBVIOUS
<1>1. /\ \A i \in DOMAIN q_first : q_first[i] \in Msg
      /\ Sorted(q_first) /\ (flushes = 0 => InTurn)
  BY DEF IInv, TypeOK
<1>2. QueueOrdered
  <2>1. ASSUME NEW i \in DOMAIN q_first, NEW j \in DOMAIN q_first, i < j
        PROVE  \/ Hi(q_first[i])
               \/ ~Hi(q_first[j]) /\ Band(q_first[i]) >= Band(q_first[j])
    <3> DEFINE x == q_first[i]
               y == q_first[j]
    <3>1. x \in Msg /\ y \in Msg /\ Rank(x) >= Rank(y)
      BY <1>1, <2>1 DEF Sorted
    <3> HIDE DEF x, y
    <3>2. Hi(x) \/ (~Hi(y) /\ Band(x) >= Band(y))
      BY <3>1 DEF Rank, Band
    <3> QED
      BY <3>2 DEF x, y
  <2> QED
    BY <2>1 DEF QueueOrdered
<1>3. FifoInClass
  BY <1>1 DEF FifoInClass, InTurn, Turns, Alike, Rank
<1> QED
  BY <1>2, <1>3 DEF InOrder

LEMMA AccountFollows == IInv => Accounted
<1> SUFFICES ASSUME IInv PROVE Accounted
  OBVIOUS
<1>1. /\ TypeOK /\ q_first \in Seq(Msg) /\ \A i \in DOMAIN q_first : q_first[i] \in Msg
      /\ Bands(q_first, q_bandp) /\ BandsFull(q_bandp) /\ QueueCount /\ Attended
  BY DEF IInv, TypeOK
<1>2. {i \in DOMAIN q_first : ~InBand(q_first[i])} = Idx(q_first, OfQueue)
  BY <1>1 DEF Idx, OfQueue
<1>3. Members(1) = Idx(q_first, OfBand)
  BY <1>1, RankType DEF Idx, OfBand, Members
<1>4. CountsExact
  <2>1. q_count = Cardinality({i \in DOMAIN q_first : ~InBand(q_first[i])})
    BY <1>1, <1>2 DEF QueueCount
  <2>2. ASSUME NEW i \in DOMAIN q_bandp, q_bandp[i].first # NoMsg
        PROVE  LET ms == Members(Band(q_bandp[i].first))
               IN  /\ q_bandp[i].count = Cardinality(ms)
                   /\ \E k \in ms : q_first[k] = q_bandp[i].first /\ \A j \in ms : k <= j
    <3>1. q_bandp[i].count = Cardinality(Idx(q_first, OfBand)) /\ Begins(q_first, q_bandp[i].first)
      BY <1>1, <2>2 DEF Bands, InUse
    <3>2. Band(q_bandp[i].first) = 1
      BY <1>1, <3>1, UsedIsOfBand
    <3> QED
      BY <1>3, <3>1, <3>2 DEF Begins
  <2>3. ASSUME Members(1) # {}
        PROVE  \E i \in DOMAIN q_bandp : q_bandp[i].first # NoMsg /\ Band(q_bandp[i].first) = 1
    <3>1. PICK i \in DOMAIN q_bandp : q_bandp[i].first # NoMsg
      BY <1>1, <1>3, <2>3 DEF Bands, InUse
    <3>2. Begins(q_first, q_bandp[i].first)
      BY <1>1, <3>1 DEF Bands, InUse
    <3> QED
      BY <1>1, <3>1, <3>2, UsedIsOfBand
  <2> QED
    BY <2>1, <2>2, <2>3 DEF CountsExact
<1>5. FullMeansFull
  BY <1>1 DEF FullMeansFull, QueueCount, BandsFull
<1>6. NoMessageForgotten
  BY <1>1 DEF NoMessageForgotten, Attended, Looking, TypeOK
<1> QED
  BY <1>1, <1>4, <1>5, <1>6 DEF Accounted

\* putq, putbq and the re-queueing of a flush (head/queue.c:536-631, 964-1020, 1513-1534)
\* keep the queue sorted, priority messages first and then by band; and until a flush,
\* those who put messages find them in the order in which they put them.
THEOREM QueueInOrder == Spec => []InOrder
  BY Invariance, OrderFollows, PTL

\* What updatequeue, adjust_q_count, find_qband and chk_band note (head/queue.c:406-517,
\* 680-799) is true of the messages: the counts, the full flags, where a band begins; and
\* when messages are there, somebody is about to look at them.
THEOREM QueueAccounted == Spec => []Accounted
  BY Invariance, AccountFollows, PTL
=============================================================================
