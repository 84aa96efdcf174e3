-------------------------- MODULE FriendshipProofs --------------------------
(***************************************************************************)
(* Theorems about the friendship manager, for any sets of identities,      *)
(* addresses and connections.                                              *)
(***************************************************************************)
EXTENDS Friendship, WellFoundedInduction, SequenceTheorems, TLAPS

-----------------------------------------------------------------------------
(* Induction over the naturals stated about sets, so that the provers can  *)
(* use it: the library's induction theorems take an operator as parameter. *)

\* A non-empty set of naturals has a least element.
LEMMA LeastNatural ==
    ASSUME NEW T \in SUBSET Nat, T # {}
    PROVE  \E x \in T : \A y \in T : x <= y
<1>1. \E R : /\ IsWellFoundedOn(R, Nat)
             /\ \A x, y \in Nat : <<y, x>> \in R <=> y < x
  <2> DEFINE R == OpToRel(<, Nat)
  <2>1. IsWellFoundedOn(R, Nat)
    BY NatLessThanWellFounded, Zenon
  <2>2. \A x, y \in Nat : <<y, x>> \in R <=> y < x
    BY DEF OpToRel
  <2> HIDE DEF R
  <2> QED BY <2>1, <2>2
<1>2. PICK R : /\ IsWellFoundedOn(R, Nat)
               /\ \A x, y \in Nat : <<y, x>> \in R <=> y < x
  BY <1>1
<1>3. PICK x \in T : \A y \in T : ~ (<<y, x>> \in R)
  BY <1>2, WFMin, Zenon
<1>4. \A y \in T : x \in Nat /\ y \in Nat /\ ~ (y < x)
  BY <1>2, <1>3, Zenon
<1> QED BY <1>4

\* A set of naturals that holds 0 and is closed under successor is Nat.
LEMMA NatSetInduction ==
    ASSUME NEW T \in SUBSET Nat,
           0 \in T,
           \A n \in T : n + 1 \in T
    PROVE  T = Nat
<1> SUFFICES ASSUME Nat \ T # {} PROVE FALSE
  OBVIOUS
<1>1. PICK x \in Nat \ T : \A y \in Nat \ T : x <= y
  BY LeastNatural
<1>2. /\ x - 1 \in Nat
      /\ ~ (x <= x - 1)
      /\ (x - 1) + 1 = x
  OBVIOUS
<1>3. x - 1 \in T
  BY <1>1, <1>2
<1> QED BY <1>2, <1>3

-----------------------------------------------------------------------------
(* The queue filter. *)

\* One step of the recursion that defines Without, for the function f.
KeptStep(f, q, p, i) ==
    IF i = 0 THEN <<>> ELSE IF q[i] = p THEN f[i-1] ELSE Append(f[i-1], q[i])

\* f solves the recursion on the first n elements of the queue.
Solves(f, q, p, n) == f = [i \in 0..n |-> KeptStep(f, q, p, i)]

\* The recursion has a solution on every prefix of the queue.
LEMMA KeptExists ==
    ASSUME NEW q, NEW p, NEW n \in Nat
    PROVE  \E f : Solves(f, q, p, n)
<1> DEFINE T == {m \in Nat : \E f : Solves(f, q, p, m)}
<1>1. 0 \in T
  <2> DEFINE f == [i \in 0..0 |-> <<>>]
  <2>1. Solves(f, q, p, 0)
    BY DEF KeptStep, Solves
  <2> HIDE DEF f
  <2> QED BY <2>1
<1>2. ASSUME NEW m \in T PROVE m + 1 \in T
  <2>1. PICK f : Solves(f, q, p, m)
    OBVIOUS
  <2> DEFINE g == [i \in 0..(m+1) |-> IF i = m + 1 THEN KeptStep(f, q, p, i) ELSE f[i]]
  <2>2. \A i \in 0..(m+1) : g[i] = KeptStep(g, q, p, i)
    <3> TAKE i \in 0..(m+1)
    <3>1. CASE i = 0
      BY <3>1, <2>1 DEF KeptStep, Solves
    <3>2. CASE i # 0
      <4>1. i - 1 \in 0..m
        BY <3>2
      <4>2. g[i-1] = f[i-1]
        BY <4>1
      <4>3. g[i] = KeptStep(f, q, p, i)
        BY <2>1 DEF Solves
      <4> QED BY <4>2, <4>3, <3>2 DEF KeptStep
    <3> QED BY <3>1, <3>2
  <2>3. g = [i \in 0..(m+1) |-> g[i]]
    OBVIOUS
  <2> HIDE DEF g
  <2>4. Solves(g, q, p, m+1)
    BY <2>2, <2>3 DEF Solves
  <2> QED BY <2>4
<1>3. T = Nat
  <2> HIDE DEF T
  <2>1. T \in SUBSET Nat
    BY DEF T
  <2> QED BY <1>1, <1>2, <2>1, NatSetInduction
<1> QED BY <1>3

\* Without(q, p) is the value at the end of the queue of a solution.
LEMMA WithoutUnfolds ==
    ASSUME NEW S, NEW q \in Seq(S), NEW p
    PROVE  \E f : /\ \A i \in 0..Len(q) : f[i] = KeptStep(f, q, p, i)
                  /\ Without(q, p) = f[Len(q)]
<1> DEFINE Sol(f) == f = [i \in 0..Len(q) |->
                            IF i = 0 THEN <<>>
                            ELSE IF q[i] = p THEN f[i-1] ELSE Append(f[i-1], q[i])]
           kept == CHOOSE f : Sol(f)
<1>1. \E f : Sol(f)
  <2>1. PICK f : Solves(f, q, p, Len(q))
    BY KeptExists, LenProperties
  <2>2. Sol(f)
    BY <2>1 DEF Solves, KeptStep
  <2> HIDE DEF Sol
  <2> QED BY <2>2
<1>2. Sol(kept)
  <2> HIDE DEF Sol
  <2> QED BY <1>1
<1>3. Without(q, p) = kept[Len(q)]
  BY DEF Without
<1>4. \A i \in 0..Len(q) : kept[i] = KeptStep(kept, q, p, i)
  BY <1>2 DEF KeptStep
<1> QED BY <1>3, <1>4

\* w is the subsequence of q's first n elements that leaves out p, and h
\* the positions in q of its elements.
Embeds(h, w, q, n, p) ==
    /\ h \in [1..Len(w) -> 1..n]
    /\ \A i \in 1..Len(w) : w[i] = q[h[i]] /\ w[i] # p
    /\ \A i, j \in 1..Len(w) : i < j => h[i] < h[j]
    /\ \A k \in 1..n : q[k] # p => \E i \in 1..Len(w) : h[i] = k

\* The filter keeps, in their order, exactly the elements other than p.
LEMMA WithoutProperties ==
    ASSUME NEW S, NEW q \in Seq(S), NEW p
    PROVE  /\ Without(q, p) \in Seq(S)
           /\ \E h : Embeds(h, Without(q, p), q, Len(q), p)
<1>1. PICK f : /\ \A i \in 0..Len(q) : f[i] = KeptStep(f, q, p, i)
               /\ Without(q, p) = f[Len(q)]
  BY WithoutUnfolds
<1>2. Len(q) \in Nat
  BY LenProperties
<1> DEFINE T == {n \in Nat : n <= Len(q) =>
                    f[n] \in Seq(S) /\ \E h : Embeds(h, f[n], q, n, p)}
<1>3. 0 \in T
  <2>1. f[0] = <<>>
    BY <1>1, <1>2 DEF KeptStep
  <2>2. Embeds(<<>>, <<>>, q, 0, p)
    BY DEF Embeds
  <2>3. f[0] \in Seq(S)
    BY <2>1
  <2> QED BY <2>1, <2>2, <2>3
<1>4. ASSUME NEW n \in T PROVE n + 1 \in T
  <2> SUFFICES ASSUME n + 1 <= Len(q)
               PROVE  /\ f[n+1] \in Seq(S)
                      /\ \E h : Embeds(h, f[n+1], q, n+1, p)
    OBVIOUS
  <2>1. /\ f[n] \in Seq(S)
        /\ Len(f[n]) \in Nat
    BY <1>2, LenProperties
  <2>2. PICK h : Embeds(h, f[n], q, n, p)
    BY <1>2
  <2>3. f[n+1] = IF q[n+1] = p THEN f[n] ELSE Append(f[n], q[n+1])
    BY <1>1, <1>2 DEF KeptStep
  <2>4. q[n+1] \in S
    BY <1>2, ElementOfSeq
  <2>5. CASE q[n+1] = p
    <3>1. Embeds(h, f[n], q, n+1, p)
      BY <2>1, <2>2, <2>5 DEF Embeds
    <3> QED BY <2>1, <2>3, <2>5, <3>1
  <2>6. CASE q[n+1] # p
    <3> DEFINE w == Append(f[n], q[n+1])
               m == Len(f[n])
               g == [i \in 1..(m+1) |-> IF i = m+1 THEN n+1 ELSE h[i]]
    <3>1. /\ w \in Seq(S)
          /\ Len(w) = m + 1
          /\ \A i \in 1..m : w[i] = f[n][i]
          /\ w[m+1] = q[n+1]
      BY <2>1, <2>4, AppendProperties
    <3>2. /\ m \in Nat
          /\ g \in [1..(m+1) -> 1..(n+1)]
          /\ g[m+1] = n + 1
          /\ \A i \in 1..m : g[i] = h[i] /\ h[i] \in 1..n
      <4>1. m \in Nat /\ n \in Nat
        BY <2>1
      <4>2. \A i \in 1..m : h[i] \in 1..n
        BY <2>2 DEF Embeds
      <4> HIDE DEF m
      <4> QED BY <4>1, <4>2
    <3>3. Embeds(g, w, q, n+1, p)
      <4> HIDE DEF w, g
      <4>1. \A i \in 1..(m+1) : w[i] = q[g[i]] /\ w[i] # p
        <5> SUFFICES ASSUME NEW i \in 1..m PROVE w[i] = q[g[i]] /\ w[i] # p
          BY <2>6, <3>1, <3>2, SMTT(30)
        <5> QED BY <2>2, <3>1, <3>2 DEF Embeds
      <4>2. \A i, j \in 1..(m+1) : i < j => g[i] < g[j]
        <5> SUFFICES ASSUME NEW i \in 1..(m+1), NEW j \in 1..(m+1), i < j
                     PROVE  g[i] < g[j]
          OBVIOUS
        <5>1. i \in 1..m /\ g[i] = h[i] /\ h[i] \in 1..n
          BY <3>2
        <5>2. CASE j = m + 1
          BY <3>2, <5>1, <5>2
        <5>3. CASE j # m + 1
          <6>1. j \in 1..m
            BY <3>2, <5>3, SMTT(30)
          <6>2. h[i] < h[j]
            BY <2>2, <5>1, <6>1 DEF Embeds
          <6> QED BY <3>2, <5>1, <6>1, <6>2
        <5> QED BY <5>2, <5>3
      <4>3. ASSUME NEW k \in 1..(n+1), q[k] # p
            PROVE  \E i \in 1..(m+1) : g[i] = k
        <5>1. CASE k = n + 1
          BY <3>2, <5>1
        <5>2. CASE k # n + 1
          <6>1. k \in 1..n
            BY <5>2
          <6>2. PICK i \in 1..m : h[i] = k
            BY <2>2, <4>3, <6>1 DEF Embeds
          <6>3. i \in 1..(m+1) /\ g[i] = k
            BY <3>2, <6>2
          <6> QED BY <6>3
        <5> QED BY <5>1, <5>2
      <4> QED BY <3>1, <3>2, <4>1, <4>2, <4>3 DEF Embeds
    <3> QED BY <2>3, <2>6, <3>1, <3>3
  <2> QED BY <2>5, <2>6
<1>5. T = Nat
  <2> HIDE DEF T
  <2>1. T \in SUBSET Nat
    BY DEF T
  <2> QED BY <1>3, <1>4, <2>1, NatSetInduction
<1>6. Len(q) \in T
  BY <1>2, <1>5
<1> QED BY <1>1, <1>2, <1>6

-----------------------------------------------------------------------------
(* Promotion. *)

\* A non-empty set of naturals has exactly the minimum that CHOOSE names.
LEMMA ChosenLeast ==
    ASSUME NEW T \in SUBSET Nat, T # {}
    PROVE  LET i == CHOOSE i \in T : \A j \in T : i <= j
           IN  i \in T /\ \A j \in T : i <= j
BY LeastNatural

\* Either nobody in the queue of st could be promoted, or position d was the
\* first that could and the queue behind it stays; the others are friends.
Pops(n, st, r, fs) ==
    /\ n \in PairStates
    /\ n.rejected = st.rejected
    /\ \/ /\ n.active = NoPeer /\ n.queued = <<>>
          /\ \A j \in 1..Len(st.queued) : {st.queued[j], r} \in fs
       \/ \E d \in 1..Len(st.queued) :
             /\ n.active = st.queued[d]
             /\ n.active \in Peers
             /\ {n.active, r} \notin fs
             /\ \A j \in 1..(d-1) : {st.queued[j], r} \in fs
             /\ Len(n.queued) = Len(st.queued) - d
             /\ \A i \in 1..Len(n.queued) : n.queued[i] = st.queued[d+i]

LEMMA PromoteNextPops ==
    ASSUME NEW st \in PairStates, NEW r, NEW fs
    PROVE  Pops(PromoteNext(st, r, fs), st, r, fs)
<1> DEFINE n == PromoteNext(st, r, fs)
           q == st.queued
           ready == Promotable(q, r, fs)
<1> SUFFICES Pops(n, st, r, fs)
  OBVIOUS
<1>1. /\ q \in Seq(Peers)
      /\ Len(q) \in Nat
      /\ DOMAIN q = 1..Len(q)
      /\ st.rejected \in BOOLEAN
  BY LenProperties DEF PairStates
<1>2. CASE ready = {}
  <2>1. n = [st EXCEPT !.active = NoPeer, !.queued = <<>>]
    BY <1>2 DEF PromoteNext
  <2>2. /\ n \in PairStates
        /\ n.rejected = st.rejected
        /\ n.active = NoPeer
        /\ n.queued = <<>>
    BY <1>1, <2>1, EmptySeq DEF PairStates
  <2>3. \A j \in 1..Len(q) : {q[j], r} \in fs
    BY <1>1, <1>2 DEF Promotable
  <2> HIDE DEF n
  <2> QED BY <2>2, <2>3 DEF Pops
<1>3. CASE ready # {}
  <2> DEFINE d == CHOOSE i \in ready : \A j \in ready : i <= j
  <2>1. d \in ready /\ \A j \in ready : d <= j
    <3>1. ready \in SUBSET Nat
      BY <1>1 DEF Promotable
    <3> HIDE DEF ready
    <3> QED BY <1>3, <3>1, ChosenLeast
  <2>2. /\ d \in 1..Len(q)
        /\ {q[d], r} \notin fs
        /\ \A j \in 1..(d-1) : {q[j], r} \in fs
    <3> HIDE DEF d
    <3>1. \A j \in 1..Len(q) : j \in ready <=> {q[j], r} \notin fs
      BY <1>1 DEF Promotable
    <3>2. d \in 1..Len(q) /\ {q[d], r} \notin fs
      BY <1>1, <2>1 DEF Promotable
    <3>3. \A j \in 1..(d-1) : j \in 1..Len(q) /\ ~ (d <= j)
      BY <1>1, <3>2
    <3> QED BY <2>1, <3>1, <3>2, <3>3
  <2>3. n = [st EXCEPT !.active = q[d], !.queued = SubSeq(q, d+1, Len(q))]
    BY <1>3 DEF PromoteNext
  <2> HIDE DEF d
  <2>4. q[d] \in Peers
    BY <1>1, <2>2, ElementOfSeq
  <2>5. /\ SubSeq(q, d+1, Len(q)) \in Seq(Peers)
        /\ Len(SubSeq(q, d+1, Len(q))) = Len(q) - d
        /\ \A k \in 1..(Len(q) - d) : SubSeq(q, d+1, Len(q))[k] = q[d+k]
    <3>1. \A k \in (d+1)..Len(q) : q[k] \in Peers
      BY <1>1, <2>2, ElementOfSeq
    <3> HIDE DEF q
    <3>2. d+1 \in Int /\ Len(q) \in Int /\ d \in Int
      BY <1>1, <2>2
    <3>3. /\ SubSeq(q, d+1, Len(q)) \in Seq(Peers)
          /\ Len(SubSeq(q, d+1, Len(q))) =
                IF d+1 <= Len(q) THEN Len(q) - (d+1) + 1 ELSE 0
          /\ \A k \in 1..(Len(q) - (d+1) + 1) :
                SubSeq(q, d+1, Len(q))[k] = q[(d+1)+k-1]
      BY <3>1, <3>2, SubSeqProperties
    <3>4. Len(SubSeq(q, d+1, Len(q))) = Len(q) - d
      BY <2>2, <3>2, <3>3
    <3>5. ASSUME NEW k \in 1..(Len(q) - d)
          PROVE  SubSeq(q, d+1, Len(q))[k] = q[d+k]
      <4>1. k \in 1..(Len(q) - (d+1) + 1) /\ (d+1)+k-1 = d+k
        BY <3>2
      <4> QED BY <3>3, <4>1
    <3> QED BY <3>3, <3>4, <3>5
  <2>6. /\ n.active = q[d]
        /\ n.queued = SubSeq(q, d+1, Len(q))
        /\ n.rejected = st.rejected
        /\ n \in PairStates
    BY <1>1, <2>3, <2>4, <2>5 DEF PairStates
  <2> HIDE DEF n, q
  <2>7. \E e \in 1..Len(q) :
            /\ n.active = q[e]
            /\ n.active \in Peers
            /\ {n.active, r} \notin fs
            /\ \A j \in 1..(e-1) : {q[j], r} \in fs
            /\ Len(n.queued) = Len(q) - e
            /\ \A i \in 1..Len(n.queued) : n.queued[i] = q[e+i]
    BY <2>2, <2>4, <2>5, <2>6
  <2> QED BY <2>6, <2>7 DEF Pops, q
<1> QED BY <1>2, <1>3

\* What a departure leaves of a bucket is a bucket state.
LEMMA AfterDepartureType ==
    ASSUME NEW st \in PairStates, NEW r, NEW p, NEW fs
    PROVE  AfterDeparture(st, r, p, fs) \in PairStates
<1> DEFINE kept == [st EXCEPT !.queued = Without(st.queued, p)]
<1>1. kept \in PairStates
  BY WithoutProperties DEF PairStates
<1>2. PromoteNext(kept, r, fs) \in PairStates
  BY <1>1, PromoteNextPops DEF Pops
<1>3. NoState \in PairStates
  BY DEF NoState, PairStates
<1> QED BY <1>1, <1>2, <1>3 DEF AfterDeparture

-----------------------------------------------------------------------------
(* Type correctness. *)

LEMMA NoticeType ==
    ASSUME NEW k \in {"invite-from", "accept-from", "reject-from",
                      "invite-deferred", "invite-auto-rejected"},
           NEW t \in Peers, NEW f \in Peers
    PROVE  Notice(k, t, f) \in Notices
BY DEF Notice, Notices

LEMMA PromotionNoticesType ==
    ASSUME NEW st \in PairStates, NEW r \in Peers
    PROVE  PromotionNotices(st, r) \subseteq Notices
BY NoticeType DEF PromotionNotices, PairStates

\* The record of a connection that is not idle names a peer and an address.
LEMMA SessionType ==
    ASSUME TypeOK, NEW c \in Conns, session[c] # NoSession
    PROVE  session[c].id \in Peers /\ session[c].ip \in Addrs
BY DEF TypeOK, PeerRecords

LEMMA TypeInit == Init => TypeOK
BY EmptySeq DEF Init, TypeOK, PairStates, NoState, NoSession, Buckets

LEMMA TypeStep == TypeOK /\ [Next]_vars => TypeOK'
<1> SUFFICES ASSUME TypeOK, [Next]_vars PROVE TypeOK'
  OBVIOUS
<1>1. ASSUME NEW c \in Conns, NEW p \in Peers, NEW a \in Addrs, Join(c, p, a)
      PROVE  TypeOK'
  BY <1>1, ConstantsAssumption DEF Join, TypeOK, Reading, PeerRecords, NoSession
<1>2. ASSUME NEW c \in Conns, Leave(c) PROVE TypeOK'
  BY <1>2, SessionType DEF Leave, TypeOK, Reading
<1>3. ASSUME NEW c \in Conns, LeaveDisplaced(c) PROVE TypeOK'
  BY <1>3 DEF LeaveDisplaced, TypeOK, Reading
<1>4. ASSUME NEW c \in Conns, OnPeerDisconnect(c) PROVE TypeOK'
  <2> DEFINE p == session[c].id
  <2>1. c \in leaving /\ p \in Peers
    BY <1>4, SessionType DEF OnPeerDisconnect, TypeOK
  <2>2. pairs' \in [Buckets -> PairStates]
    BY <1>4, AfterDepartureType DEF OnPeerDisconnect, TypeOK
  <2>3. sent' \subseteq Notices
    <3>1. sent' = UNION {PromotionNotices(pairs'[b], b[2]) :
                            b \in {k \in Buckets : k[2] # p /\ pairs[k].active = p}}
      BY <1>4 DEF OnPeerDisconnect
    <3>2. \A b \in Buckets : PromotionNotices(pairs'[b], b[2]) \subseteq Notices
      BY <2>2, PromotionNoticesType DEF Buckets
    <3> QED BY <3>1, <3>2
  <2>4. friends' \subseteq SUBSET Peers
    BY <1>4 DEF OnPeerDisconnect, TypeOK
  <2>5. /\ session' = [session EXCEPT ![c] = NoSession]
        /\ leaving' = leaving \ {c}
        /\ hub' = hub
    BY <1>4 DEF OnPeerDisconnect
  <2> QED BY <2>1, <2>2, <2>3, <2>4, <2>5 DEF TypeOK, Reading
<1>5. ASSUME NEW c \in Conns, NEW r \in Peers, HandleInvite(c, r) PROVE TypeOK'
  <2> DEFINE s == session[c].id
             b == <<session[c].ip, r>>
  <2>1. s \in Peers /\ b \in Buckets
    BY <1>5, SessionType DEF HandleInvite, Reading, Buckets
  <2>2. pairs[b] \in PairStates
    BY <2>1 DEF TypeOK
  <2>3. /\ pairs' \in [Buckets -> PairStates]
        /\ sent' \subseteq Notices
    <3>1. CASE UNCHANGED pairs /\ sent' = {Notice("invite-auto-rejected", s, r)}
      BY <2>1, <3>1, NoticeType DEF TypeOK
    <3>2. CASE /\ pairs' = [pairs EXCEPT ![b].queued = Append(@, s)]
               /\ sent' = {}
      <4>1. Append(pairs[b].queued, s) \in Seq(Peers)
        BY <2>1, <2>2, AppendProperties DEF PairStates
      <4>2. [pairs[b] EXCEPT !.queued = Append(@, s)] \in PairStates
        BY <2>2, <4>1 DEF PairStates
      <4> QED BY <2>1, <3>2, <4>2 DEF TypeOK
    <3>3. CASE /\ pairs' = [pairs EXCEPT ![b].active = s]
               /\ sent' = {Notice("invite-from", r, s)}
      <4>1. [pairs[b] EXCEPT !.active = s] \in PairStates
        BY <2>1, <2>2 DEF PairStates
      <4> QED BY <2>1, <3>3, <4>1, NoticeType DEF TypeOK
    <3> QED BY <1>5, <3>1, <3>2, <3>3 DEF HandleInvite
  <2> QED BY <1>5, <2>3 DEF HandleInvite, TypeOK, Reading
<1>6. ASSUME NEW c \in Conns, NEW o \in Peers, HandleAccept(c, o) PROVE TypeOK'
  <2> DEFINE r == session[c].id
  <2>1. r \in Peers
    BY <1>6, SessionType DEF HandleAccept, Reading
  <2>2. PICK b \in Buckets :
            /\ Answerable(b, r, o)
            /\ friends' = friends \cup {{r, o}}
            /\ \E moot \in Settled(b, r, o) :
                  /\ pairs' = [k \in Buckets |->
                                  IF k \in moot
                                  THEN PromoteNext(pairs[k], k[2], friends')
                                  ELSE pairs[k]]
                  /\ sent' = {Notice("accept-from", o, r)} \cup
                             UNION {PromotionNotices(pairs'[k], k[2]) : k \in moot}
    BY <1>6 DEF HandleAccept
  <2>3. PICK moot \in Settled(b, r, o) :
            /\ pairs' = [k \in Buckets |->
                            IF k \in moot
                            THEN PromoteNext(pairs[k], k[2], friends')
                            ELSE pairs[k]]
            /\ sent' = {Notice("accept-from", o, r)} \cup
                       UNION {PromotionNotices(pairs'[k], k[2]) : k \in moot}
    BY <2>2
  <2>4. moot \subseteq Buckets
    BY DEF Settled, Reciprocal
  <2>5. pairs' \in [Buckets -> PairStates]
    <3>1. \A k \in Buckets : pairs[k] \in PairStates
      BY DEF TypeOK
    <3>2. \A k \in Buckets : Pops(PromoteNext(pairs[k], k[2], friends'), pairs[k], k[2], friends')
      BY <3>1, PromoteNextPops
    <3>3. \A n, st, p, fs : Pops(n, st, p, fs) => n \in PairStates
      BY DEF Pops
    <3>4. \A k \in Buckets : PromoteNext(pairs[k], k[2], friends') \in PairStates
      BY <3>2, <3>3
    <3> QED BY <2>3, <3>1, <3>4
  <2>6. \A k \in moot : PromotionNotices(pairs'[k], k[2]) \subseteq Notices
    BY <2>4, <2>5, PromotionNoticesType DEF Buckets
  <2>7. sent' \subseteq Notices
    BY <2>1, <2>3, <2>6, NoticeType
  <2>8. friends' \subseteq SUBSET Peers
    BY <2>1, <2>2 DEF TypeOK
  <2>9. UNCHANGED <<hub, session, leaving>>
    BY <1>6 DEF HandleAccept
  <2> QED BY <2>5, <2>7, <2>8, <2>9 DEF TypeOK, Reading
<1>7. ASSUME NEW c \in Conns, NEW o \in Peers, HandleReject(c, o) PROVE TypeOK'
  <2> DEFINE r == session[c].id
  <2>1. r \in Peers
    BY <1>7, SessionType DEF HandleReject, Reading
  <2>2. PICK b \in Buckets :
            /\ pairs' = [pairs EXCEPT ![b] =
                            [rejected |-> TRUE, active |-> NoPeer, queued |-> <<>>]]
            /\ sent' = {Notice("reject-from", o, r)} \cup
                       {Notice("invite-auto-rejected", pairs[b].queued[i], r) :
                            i \in DOMAIN pairs[b].queued}
    BY <1>7 DEF HandleReject
  <2>3. [rejected |-> TRUE, active |-> NoPeer, queued |-> <<>>] \in PairStates
    BY EmptySeq DEF PairStates
  <2>4. pairs' \in [Buckets -> PairStates]
    BY <2>2, <2>3 DEF TypeOK
  <2>5. pairs[b].queued \in Seq(Peers)
    BY DEF TypeOK, PairStates
  <2>6. \A i \in DOMAIN pairs[b].queued : pairs[b].queued[i] \in Peers
    BY <2>5, ElementOfSeq, LenProperties
  <2>7. sent' \subseteq Notices
    BY <2>1, <2>2, <2>6, NoticeType
  <2>8. UNCHANGED <<hub, session, leaving, friends>>
    BY <1>7 DEF HandleReject
  <2> QED BY <2>4, <2>7, <2>8 DEF TypeOK, Reading
<1>8. CASE UNCHANGED vars
  BY <1>8 DEF vars, TypeOK, Reading
<1> QED BY <1>1, <1>2, <1>3, <1>4, <1>5, <1>6, <1>7, <1>8 DEF Next

\* Every variable keeps its shape; in particular the hub never maps an
\* identity to a connection whose goroutine has gone (Hub.add, Hub.remove).
THEOREM TypeCorrect == Spec => []TypeOK
BY TypeInit, TypeStep, PTL DEF Spec

-----------------------------------------------------------------------------
(* The safety invariants.  Every step but HandleInvite only takes invites  *)
(* away from the buckets; HandleInvite adds one, behind the guards of      *)
(* MayInvite.  So what a step does to one bucket state is stated once, as  *)
(* Shrinks, and the invariants follow from it.                             *)

\* Nobody waits in the bucket state st behind no active invite, and a
\* rejected one holds no invite.
Sane(st) ==
    /\ st.active = NoPeer => st.queued = <<>>
    /\ st.rejected => st.active = NoPeer

\* The bucket state st has an invite of s.
Mentions(st, s) ==
    \/ st.active = s
    \/ \E i \in 1..Len(st.queued) : st.queued[i] = s

\* No identity occurs twice in st.
Distinct(st) ==
    /\ \A i \in 1..Len(st.queued) : st.queued[i] # st.active
    /\ \A i, j \in 1..Len(st.queued) : i # j => st.queued[i] # st.queued[j]

\* A step that takes the bucket of recipient r from st to n only removes
\* invites, and moves up none that is between friends under fs.
Shrinks(n, st, r, fs) ==
    /\ \A s \in Peers : Mentions(n, s) => Mentions(st, s)
    /\ Distinct(st) => Distinct(n)
    /\ Sane(st) => Sane(n)
    /\ n # NoState => st # NoState
    /\ n.active \in {NoPeer, st.active} \/ {n.active, r} \notin fs

-----------------------------------------------------------------------------
(* What the operations do to one bucket. *)

\* A bucket that a step leaves alone.
LEMMA SameShrinks ==
    ASSUME NEW st, NEW r, NEW fs
    PROVE  Shrinks(st, st, r, fs)
BY DEF Shrinks

\* A bucket that a step clears.
LEMMA ClearedShrinks ==
    ASSUME NEW n \in PairStates, n.active = NoPeer, n.queued = <<>>,
           NEW st, NEW r, NEW fs,
           n # NoState => st # NoState
    PROVE  Shrinks(n, st, r, fs)
BY ConstantsAssumption DEF Shrinks, Mentions, Distinct, Sane

\* A promotion of a bucket that has an active invite; whom it moves up is
\* not a friend of the recipient.
LEMMA PromoteNextShrinks ==
    ASSUME NEW st \in PairStates, st.active # NoPeer, NEW r, NEW fs,
           NEW n, Pops(n, st, r, fs)
    PROVE  /\ Shrinks(n, st, r, fs)
           /\ n.active # NoPeer => {n.active, r} \notin fs
<1> DEFINE q == st.queued
<1>1. /\ Len(q) \in Nat
      /\ n \in PairStates
      /\ n.rejected = st.rejected
      /\ st # NoState
  BY LenProperties DEF PairStates, Pops, NoState
<1>2. CASE n.active = NoPeer /\ n.queued = <<>>
  BY <1>1, <1>2, ClearedShrinks
<1>3. ASSUME NEW d \in 1..Len(q),
             n.active = q[d],
             n.active \in Peers,
             {n.active, r} \notin fs,
             Len(n.queued) = Len(q) - d,
             \A i \in 1..Len(n.queued) : n.queued[i] = q[d+i]
      PROVE  /\ Shrinks(n, st, r, fs)
             /\ n.active # NoPeer => {n.active, r} \notin fs
  <2>1. \A i \in 1..Len(n.queued) : d+i \in 1..Len(q) /\ d+i # d
    BY <1>1, <1>3
  <2>2. \A s \in Peers : Mentions(n, s) => Mentions(st, s)
    BY <1>3, <2>1 DEF Mentions
  <2>3. ASSUME Distinct(st) PROVE Distinct(n)
    <3>1. \A i \in 1..Len(n.queued) : n.queued[i] # n.active
      BY <1>3, <2>1, <2>3 DEF Distinct
    <3>2. \A i, j \in 1..Len(n.queued) : i # j => n.queued[i] # n.queued[j]
      <4> SUFFICES ASSUME NEW i \in 1..Len(n.queued), NEW j \in 1..Len(n.queued), i # j
                   PROVE  q[d+i] # q[d+j]
        BY <1>3
      <4>1. d+i # d+j
        BY <1>1, <1>3
      <4> QED BY <2>1, <2>3, <4>1 DEF Distinct
    <3> QED BY <3>1, <3>2 DEF Distinct
  <2>4. Sane(st) => Sane(n)
    BY <1>1, <1>3, ConstantsAssumption DEF Sane
  <2> QED BY <1>1, <1>3, <2>2, <2>3, <2>4 DEF Shrinks
<1> QED BY <1>2, <1>3 DEF Pops

\* The queue w has only invites of q, none of them of p, and none twice
\* unless q has.
Filters(w, q, p) ==
    /\ w \in Seq(Peers)
    /\ q = <<>> => w = <<>>
    /\ \A i \in 1..Len(w) : w[i] # p /\ \E k \in 1..Len(q) : w[i] = q[k]
    /\ (\A i, j \in 1..Len(q) : i # j => q[i] # q[j]) =>
            \A i, j \in 1..Len(w) : i # j => w[i] # w[j]

LEMMA WithoutFilters ==
    ASSUME NEW q \in Seq(Peers), NEW p
    PROVE  Filters(Without(q, p), q, p)
<1> DEFINE w == Without(q, p)
<1> SUFFICES Filters(w, q, p)
  OBVIOUS
<1>1. w \in Seq(Peers)
  BY WithoutProperties
<1>2. PICK h : Embeds(h, w, q, Len(q), p)
  BY WithoutProperties
<1> HIDE DEF w
<1>3. Len(q) \in Nat /\ Len(w) \in Nat
  BY <1>1, LenProperties
<1>4. \A i \in 1..Len(w) : h[i] \in 1..Len(q) /\ w[i] = q[h[i]] /\ w[i] # p
  BY <1>2 DEF Embeds
<1>5. \A i, j \in 1..Len(w) : i # j => h[i] # h[j]
  <2> SUFFICES ASSUME NEW i \in 1..Len(w), NEW j \in 1..Len(w), i < j
               PROVE  h[i] # h[j]
    BY <1>3
  <2>1. h[i] < h[j]
    BY <1>2 DEF Embeds
  <2> QED BY <1>3, <1>4, <2>1
<1>6. q = <<>> => w = <<>>
  <2> SUFFICES ASSUME q = <<>>, w # <<>> PROVE FALSE
    OBVIOUS
  <2>1. Len(q) = 0 /\ Len(w) # 0
    BY <1>1, <1>3, EmptySeq
  <2> QED BY <1>3, <1>4, <2>1
<1>7. \A i \in 1..Len(w) : w[i] # p /\ \E k \in 1..Len(q) : w[i] = q[k]
  BY <1>4
<1>8. (\A i, j \in 1..Len(q) : i # j => q[i] # q[j]) =>
          \A i, j \in 1..Len(w) : i # j => w[i] # w[j]
  BY <1>4, <1>5
<1> QED BY <1>1, <1>6, <1>7, <1>8 DEF Filters

\* A departure: the recipient's own buckets go, from the others every
\* invite of p is filtered out, and where p's was active the next moves up.
LEMMA AfterDepartureShrinks ==
    ASSUME NEW st \in PairStates, NEW r, NEW p \in Peers, NEW fs
    PROVE  Shrinks(AfterDeparture(st, r, p, fs), st, r, fs)
<1> DEFINE w == Without(st.queued, p)
           kept == [st EXCEPT !.queued = w]
<1>1. st.queued \in Seq(Peers) /\ st.rejected \in BOOLEAN
  BY DEF PairStates
<1>2. Filters(w, st.queued, p)
  BY <1>1, WithoutFilters
<1>3. /\ kept \in PairStates
      /\ kept.active = st.active
      /\ kept.rejected = st.rejected
      /\ kept.queued = w
  <2> HIDE DEF w
  <2> QED BY <1>1, <1>2 DEF PairStates, Filters
<1>4. /\ r = p => AfterDeparture(st, r, p, fs) = NoState
      /\ r # p /\ st.active = p => AfterDeparture(st, r, p, fs) = PromoteNext(kept, r, fs)
      /\ r # p /\ st.active # p => AfterDeparture(st, r, p, fs) = kept
  BY DEF AfterDeparture
<1> HIDE DEF kept, w
<1>5. Shrinks(kept, st, r, fs)
  <2>1. \A s \in Peers : Mentions(kept, s) => Mentions(st, s)
    BY <1>2, <1>3 DEF Mentions, Filters
  <2>2. Distinct(st) => Distinct(kept)
    <3> SUFFICES ASSUME Distinct(st) PROVE Distinct(kept)
      OBVIOUS
    <3>1. \A i, j \in 1..Len(w) : i # j => w[i] # w[j]
      BY <1>2 DEF Distinct, Filters
    <3>2. \A i \in 1..Len(w) : w[i] # st.active
      BY <1>2 DEF Distinct, Filters
    <3> QED BY <1>3, <3>1, <3>2 DEF Distinct
  <2>3. Sane(st) => Sane(kept)
    BY <1>2, <1>3 DEF Sane, Filters
  <2>4. kept # NoState => st # NoState
    <3> SUFFICES ASSUME st = NoState PROVE kept = NoState
      OBVIOUS
    <3>1. kept.queued = <<>>
      BY <1>2, <1>3 DEF NoState, Filters
    <3> QED BY <1>3, <3>1 DEF NoState, PairStates
  <2> QED BY <1>3, <2>1, <2>2, <2>3, <2>4 DEF Shrinks
<1>6. CASE r = p
  <2>1. NoState \in PairStates /\ NoState.active = NoPeer /\ NoState.queued = <<>>
    BY EmptySeq DEF NoState, PairStates
  <2>2. Shrinks(NoState, st, r, fs)
    BY <2>1, ClearedShrinks
  <2> QED BY <1>4, <1>6, <2>2
<1>7. CASE r # p /\ st.active = p
  <2> DEFINE m == PromoteNext(kept, r, fs)
  <2>1. Pops(m, kept, r, fs)
    BY <1>3, PromoteNextPops
  <2> HIDE DEF m
  <2>2. /\ Shrinks(m, kept, r, fs)
        /\ m.active # NoPeer => {m.active, r} \notin fs
    BY <1>3, <1>7, <2>1, PromoteNextShrinks, ConstantsAssumption
  <2>3. Shrinks(m, st, r, fs)
    BY <1>5, <2>2 DEF Shrinks
  <2> QED BY <1>4, <1>7, <2>3 DEF m
<1>8. CASE r # p /\ st.active # p
  BY <1>4, <1>5, <1>8
<1> QED BY <1>6, <1>7, <1>8

-----------------------------------------------------------------------------
(* What the steps do to all buckets. *)

\* No identity has invites to one recipient in the buckets of two IPs.
Uncrossed(ps) ==
    \A r \in Peers, a1, a2 \in Addrs, s \in Peers :
        Mentions(ps[<<a1, r>>], s) /\ Mentions(ps[<<a2, r>>], s) => a1 = a2

\* The step only takes invites away.
BucketsShrink == \A b \in Buckets : Shrinks(pairs'[b], pairs[b], b[2], friends')

\* The step adds an invite of s to bucket b, which had none of s and no
\* other bucket of the recipient has.
BucketGrows(b, s) ==
    /\ b \in Buckets
    /\ s \in Peers
    /\ \A a \in Addrs : ~ Mentions(pairs[<<a, b[2]>>], s)
    /\ \A k \in Buckets \ {b} : pairs'[k] = pairs[k]
    /\ \/ /\ pairs'[b].active = pairs[b].active
          /\ pairs'[b].queued = Append(pairs[b].queued, s)
          /\ pairs[b].active # NoPeer
       \/ /\ pairs[b].active = NoPeer
          /\ pairs'[b].active = s
          /\ pairs'[b].queued = pairs[b].queued
    /\ pairs'[b].rejected = pairs[b].rejected
    /\ ~ pairs[b].rejected
    /\ {s, b[2]} \notin friends
    /\ friends' = friends

LEMMA JoinShrinks ==
    ASSUME NEW c, NEW p, NEW a, Join(c, p, a)
    PROVE  BucketsShrink
BY SameShrinks DEF Join, BucketsShrink

LEMMA LeaveShrinks ==
    ASSUME NEW c, Leave(c) \/ LeaveDisplaced(c)
    PROVE  BucketsShrink
BY SameShrinks DEF Leave, LeaveDisplaced, BucketsShrink

LEMMA DisconnectShrinks ==
    ASSUME TypeOK, NEW c \in Conns, OnPeerDisconnect(c)
    PROVE  BucketsShrink
<1>1. session[c].id \in Peers
  BY SessionType DEF OnPeerDisconnect, TypeOK
<1>2. \A b \in Buckets : pairs[b] \in PairStates
  BY DEF TypeOK
<1>3. \A b \in Buckets :
         pairs'[b] = AfterDeparture(pairs[b], b[2], session[c].id, friends')
  BY DEF OnPeerDisconnect
<1> QED BY <1>1, <1>2, <1>3, AfterDepartureShrinks DEF BucketsShrink

\* An invite is refused, or added to a bucket behind the guards of MayInvite.
LEMMA InviteGrows ==
    ASSUME TypeOK, NEW c \in Conns, NEW r \in Peers, HandleInvite(c, r)
    PROVE  BucketsShrink \/ BucketGrows(<<session[c].ip, r>>, session[c].id)
<1> DEFINE s == session[c].id
           b == <<session[c].ip, r>>
<1>1. s \in Peers /\ b \in Buckets
  BY SessionType DEF HandleInvite, Reading, Buckets
<1>2. /\ pairs[b] \in PairStates
      /\ pairs \in [Buckets -> PairStates]
  BY <1>1 DEF TypeOK
<1>3. \A a \in Addrs : ~ Mentions(pairs[<<a, r>>], s)
  <2> TAKE a \in Addrs
  <2>1. pairs[<<a, r>>].queued \in Seq(Peers)
    BY DEF TypeOK, PairStates, Buckets
  <2>2. DOMAIN pairs[<<a, r>>].queued = 1..Len(pairs[<<a, r>>].queued)
    BY <2>1, LenProperties
  <2>3. ~ InFlight(s, r)
    BY DEF HandleInvite, MayInvite
  <2> QED BY <2>2, <2>3 DEF InFlight, Mentions
<1>4. {s, r} \notin friends /\ friends' = friends
  BY DEF HandleInvite, MayInvite
<1>5. CASE UNCHANGED pairs
  BY <1>5, SameShrinks DEF BucketsShrink
<1>6. CASE /\ ~ pairs[b].rejected
           /\ pairs[b].active # NoPeer
           /\ pairs' = [pairs EXCEPT ![b].queued = Append(@, s)]
  <2>1. pairs'[b] = [pairs[b] EXCEPT !.queued = Append(@, s)]
    BY <1>1, <1>2, <1>6
  <2>2. /\ pairs'[b].queued = Append(pairs[b].queued, s)
        /\ pairs'[b].active = pairs[b].active
        /\ pairs'[b].rejected = pairs[b].rejected
    BY <1>2, <2>1 DEF PairStates
  <2>3. \A k \in Buckets \ {b} : pairs'[k] = pairs[k]
    BY <1>2, <1>6
  <2> QED BY <1>1, <1>3, <1>4, <1>6, <2>2, <2>3 DEF BucketGrows
<1>7. CASE /\ ~ pairs[b].rejected
           /\ pairs[b].active = NoPeer
           /\ pairs' = [pairs EXCEPT ![b].active = s]
  <2>1. pairs'[b] = [pairs[b] EXCEPT !.active = s]
    BY <1>1, <1>2, <1>7
  <2>2. /\ pairs'[b].queued = pairs[b].queued
        /\ pairs'[b].active = s
        /\ pairs'[b].rejected = pairs[b].rejected
    BY <1>2, <2>1 DEF PairStates
  <2>3. \A k \in Buckets \ {b} : pairs'[k] = pairs[k]
    BY <1>2, <1>7
  <2> QED BY <1>1, <1>3, <1>4, <1>7, <2>2, <2>3 DEF BucketGrows
<1> QED BY <1>5, <1>6, <1>7 DEF HandleInvite

\* What an accept does, as a fact about one bucket b and one set moot.
AcceptEffect(c, o, b, moot) ==
    LET r == session[c].id
    IN  /\ r \in Peers
        /\ b \in Buckets
        /\ b[2] = r
        /\ hub[o] # NoConn
        /\ pairs[b].active = o
        /\ friends' = friends \cup {{r, o}}
        /\ b \in moot
        /\ moot \in SUBSET Buckets
        /\ \A k \in moot \ {b} : k[2] = o /\ pairs[k].active = r
        /\ (\E k \in Buckets : k[2] = o /\ pairs[k].active = r) =>
              \E k \in moot : k[2] = o /\ pairs[k].active = r
        /\ \A k \in Buckets \ moot : pairs'[k] = pairs[k]
        /\ \A k \in moot : Pops(pairs'[k], pairs[k], k[2], friends')

LEMMA AcceptHasEffect ==
    ASSUME TypeOK, NEW c \in Conns, NEW o \in Peers, HandleAccept(c, o)
    PROVE  \E b, moot : AcceptEffect(c, o, b, moot)
<1> DEFINE r == session[c].id
<1>1. r \in Peers
  BY SessionType DEF HandleAccept, Reading
<1>2. PICK b \in Buckets :
         /\ Answerable(b, r, o)
         /\ friends' = friends \cup {{r, o}}
         /\ \E moot \in Settled(b, r, o) :
               pairs' = [k \in Buckets |->
                            IF k \in moot
                            THEN PromoteNext(pairs[k], k[2], friends')
                            ELSE pairs[k]]
  BY DEF HandleAccept
<1>3. PICK moot \in Settled(b, r, o) :
         pairs' = [k \in Buckets |->
                      IF k \in moot
                      THEN PromoteNext(pairs[k], k[2], friends')
                      ELSE pairs[k]]
  BY <1>2
<1>4. /\ b \in moot
      /\ moot \in SUBSET Buckets
      /\ \A k \in moot \ {b} : k[2] = o /\ pairs[k].active = r
      /\ (\E k \in Buckets : k[2] = o /\ pairs[k].active = r) =>
            \E k \in moot : k[2] = o /\ pairs[k].active = r
  BY DEF Settled, Reciprocal
<1>5. \A k \in Buckets \ moot : pairs'[k] = pairs[k]
  BY <1>3
<1>6. \A k \in moot : Pops(pairs'[k], pairs[k], k[2], friends')
  <2> TAKE k \in moot
  <2>1. pairs[k] \in PairStates
    BY <1>4 DEF TypeOK
  <2>2. pairs'[k] = PromoteNext(pairs[k], k[2], friends')
    BY <1>3, <1>4
  <2> QED BY <2>1, <2>2, PromoteNextPops
<1>7. /\ b[2] = r
      /\ hub[o] # NoConn
      /\ pairs[b].active = o
  BY <1>2 DEF Answerable
<1>8. AcceptEffect(c, o, b, moot)
  BY <1>1, <1>2, <1>4, <1>5, <1>6, <1>7 DEF AcceptEffect
<1> QED BY <1>8

LEMMA AcceptShrinks ==
    ASSUME TypeOK, NEW c \in Conns, NEW o \in Peers, HandleAccept(c, o)
    PROVE  BucketsShrink
<1>1. PICK b, moot : AcceptEffect(c, o, b, moot)
  BY AcceptHasEffect
<1> SUFFICES ASSUME NEW k \in Buckets
             PROVE  Shrinks(pairs'[k], pairs[k], k[2], friends')
  BY DEF BucketsShrink
<1>2. CASE k \in moot
  <2>1. pairs[k] \in PairStates
    BY DEF TypeOK
  <2>2. pairs[k].active # NoPeer
    BY <1>1, <1>2, ConstantsAssumption DEF AcceptEffect
  <2>3. Pops(pairs'[k], pairs[k], k[2], friends')
    BY <1>1, <1>2 DEF AcceptEffect
  <2> QED BY <2>1, <2>2, <2>3, PromoteNextShrinks
<1>3. CASE k \notin moot
  BY <1>1, <1>3, SameShrinks DEF AcceptEffect
<1> QED BY <1>2, <1>3

LEMMA RejectShrinks ==
    ASSUME TypeOK, NEW c \in Conns, NEW o \in Peers, HandleReject(c, o)
    PROVE  BucketsShrink
<1> DEFINE refused == [rejected |-> TRUE, active |-> NoPeer, queued |-> <<>>]
<1>1. PICK b \in Buckets : /\ pairs[b].active = o
                           /\ pairs' = [pairs EXCEPT ![b] = refused]
  BY DEF HandleReject, Answerable
<1>2. /\ refused \in PairStates
      /\ refused.active = NoPeer
      /\ refused.queued = <<>>
  BY EmptySeq DEF PairStates
<1> HIDE DEF refused
<1> SUFFICES ASSUME NEW k \in Buckets
             PROVE  Shrinks(pairs'[k], pairs[k], k[2], friends')
  BY DEF BucketsShrink
<1>3. CASE k = b
  <2>1. pairs'[k] = refused
    BY <1>1, <1>3 DEF TypeOK
  <2>2. pairs[k] # NoState
    BY <1>1, <1>3, ConstantsAssumption DEF NoState
  <2> QED BY <1>2, <2>1, <2>2, ClearedShrinks
<1>4. CASE k # b
  <2>1. pairs'[k] = pairs[k]
    BY <1>1, <1>4 DEF TypeOK
  <2> QED BY <2>1, SameShrinks
<1> QED BY <1>3, <1>4

\* Every step takes invites away, or adds one behind the guards.
LEMMA StepEffect ==
    ASSUME TypeOK, [Next]_vars
    PROVE  \/ BucketsShrink
           \/ \E c \in Conns, r \in Peers :
                 /\ HandleInvite(c, r)
                 /\ BucketGrows(<<session[c].ip, r>>, session[c].id)
<1>1. CASE UNCHANGED vars
  BY <1>1, SameShrinks DEF vars, BucketsShrink
<1> QED BY <1>1, JoinShrinks, LeaveShrinks, DisconnectShrinks, InviteGrows,
           AcceptShrinks, RejectShrinks DEF Next

-----------------------------------------------------------------------------
(* No invite waits behind nothing. *)

LEMMA NoStrandedStep ==
    ASSUME TypeOK, NoStrandedQueue, [Next]_vars
    PROVE  NoStrandedQueue'
<1> SUFFICES ASSUME NEW k \in Buckets PROVE Sane(pairs'[k])
  BY DEF NoStrandedQueue, Sane
<1>1. Sane(pairs[k])
  BY DEF NoStrandedQueue, Sane
<1>2. CASE BucketsShrink
  BY <1>1, <1>2 DEF BucketsShrink, Shrinks
<1>3. ASSUME NEW b, NEW s, BucketGrows(b, s) PROVE Sane(pairs'[k])
  <2>1. CASE k = b
    BY <1>1, <1>3, <2>1, ConstantsAssumption DEF BucketGrows, Sane
  <2>2. CASE k # b
    BY <1>1, <1>3, <2>2 DEF BucketGrows
  <2> QED BY <2>1, <2>2
<1> QED BY <1>2, <1>3, StepEffect

\* Whichever handler takes the active invite of a bucket away promotes or
\* clears the queue, and a rejected bucket stays empty (promoteNext,
\* HandleReject, OnPeerDisconnect).
THEOREM NothingStranded == Spec => []NoStrandedQueue
<1>1. Init => NoStrandedQueue
  BY DEF Init, NoStrandedQueue, NoState
<1>2. TypeOK /\ NoStrandedQueue /\ [Next]_vars => NoStrandedQueue'
  BY NoStrandedStep
<1> QED BY <1>1, <1>2, TypeCorrect, PTL DEF Spec

-----------------------------------------------------------------------------
(* One invite per sender and recipient. *)

\* OneInviteInFlight, in terms of the bucket states.
OneInv ==
    /\ \A b \in Buckets : Distinct(pairs[b])
    /\ Uncrossed(pairs)

LEMMA OneInvInit == Init => OneInv
<1> SUFFICES ASSUME Init PROVE OneInv
  OBVIOUS
<1>1. \A b \in Buckets : pairs[b] = NoState
  BY DEF Init
<1>2. Distinct(NoState) /\ \A s \in Peers : ~ Mentions(NoState, s)
  BY ConstantsAssumption DEF NoState, Mentions, Distinct
<1> QED BY <1>1, <1>2 DEF OneInv, Uncrossed, Buckets

\* The bucket that grows keeps its invites and gains that of s.
LEMMA GrownBucket ==
    ASSUME TypeOK, NEW b, NEW s, BucketGrows(b, s), Distinct(pairs[b])
    PROVE  /\ \A t \in Peers : Mentions(pairs'[b], t) => t = s \/ Mentions(pairs[b], t)
           /\ Distinct(pairs'[b])
<1> DEFINE q == pairs[b].queued
<1>1. /\ q \in Seq(Peers)
      /\ Len(q) \in Nat
      /\ s \in Peers
  BY LenProperties DEF TypeOK, PairStates, BucketGrows
<1>2. ~ Mentions(pairs[b], s)
  BY DEF BucketGrows, Buckets
<1>3. CASE /\ pairs'[b].active = pairs[b].active
           /\ pairs'[b].queued = Append(q, s)
  <2>1. /\ Len(Append(q, s)) = Len(q) + 1
        /\ \A i \in 1..Len(q) : Append(q, s)[i] = q[i]
        /\ Append(q, s)[Len(q) + 1] = s
    BY <1>1, AppendProperties
  <2> DEFINE w == Append(q, s)
  <2> HIDE DEF w
  <2>2. \A i \in 1..Len(w) : (i \in 1..Len(q) /\ w[i] = q[i]) \/ (i = Len(q) + 1 /\ w[i] = s)
    BY <1>1, <2>1 DEF w
  <2>3. pairs'[b].queued = w
    BY <1>3 DEF w
  <2>4. ASSUME NEW t \in Peers, Mentions(pairs'[b], t)
        PROVE  t = s \/ Mentions(pairs[b], t)
    BY <1>3, <2>2, <2>3, <2>4 DEF Mentions
  <2>5. \A i \in 1..Len(w) : w[i] # pairs[b].active
    BY <1>2, <2>2 DEF Mentions, Distinct
  <2>6. \A i, j \in 1..Len(w) : i # j => w[i] # w[j]
    BY <1>2, <2>2 DEF Mentions, Distinct
  <2> QED BY <1>3, <2>3, <2>4, <2>5, <2>6 DEF Distinct
<1>4. CASE /\ pairs'[b].active = s
           /\ pairs'[b].queued = q
  <2>1. \A t \in Peers : Mentions(pairs'[b], t) => t = s \/ Mentions(pairs[b], t)
    BY <1>4 DEF Mentions
  <2>2. Distinct(pairs'[b])
    BY <1>2, <1>4 DEF Mentions, Distinct
  <2> QED BY <2>1, <2>2
<1> QED BY <1>3, <1>4 DEF BucketGrows

LEMMA OneInvStep ==
    ASSUME TypeOK, OneInv, [Next]_vars
    PROVE  OneInv'
<1>1. CASE BucketsShrink
  <2>1. \A b \in Buckets : Distinct(pairs'[b])
    BY <1>1 DEF BucketsShrink, Shrinks, OneInv
  <2>2. \A b \in Buckets, s \in Peers : Mentions(pairs'[b], s) => Mentions(pairs[b], s)
    BY <1>1 DEF BucketsShrink, Shrinks
  <2>3. Uncrossed(pairs')
    BY <2>2 DEF OneInv, Uncrossed, Buckets
  <2> QED BY <2>1, <2>3 DEF OneInv
<1>2. ASSUME NEW b, NEW s, BucketGrows(b, s) PROVE OneInv'
  <2>1. b \in Buckets /\ s \in Peers
    BY <1>2 DEF BucketGrows
  <2>2. /\ \A t \in Peers : Mentions(pairs'[b], t) => t = s \/ Mentions(pairs[b], t)
        /\ Distinct(pairs'[b])
    BY <1>2, <2>1, GrownBucket DEF OneInv
  <2>3. \A k \in Buckets : Distinct(pairs'[k])
    BY <1>2, <2>2 DEF BucketGrows, OneInv
  <2>4. \A k \in Buckets, t \in Peers :
           Mentions(pairs'[k], t) => (k = b /\ t = s) \/ Mentions(pairs[k], t)
    BY <1>2, <2>2 DEF BucketGrows
  <2>5. ASSUME NEW r \in Peers, NEW a1 \in Addrs, NEW a2 \in Addrs, NEW t \in Peers,
               Mentions(pairs'[<<a1, r>>], t), Mentions(pairs'[<<a2, r>>], t)
        PROVE  a1 = a2
    <3>1. <<a1, r>> \in Buckets /\ <<a2, r>> \in Buckets
      BY DEF Buckets
    <3>2. \A a \in Addrs : b[2] = r => ~ Mentions(pairs[<<a, r>>], s)
      BY <1>2 DEF BucketGrows
    <3>3. Mentions(pairs[<<a1, r>>], t) /\ Mentions(pairs[<<a2, r>>], t) => a1 = a2
      BY DEF OneInv, Uncrossed
    <3>4. /\ (<<a1, r>> = b /\ t = s) \/ Mentions(pairs[<<a1, r>>], t)
          /\ (<<a2, r>> = b /\ t = s) \/ Mentions(pairs[<<a2, r>>], t)
      BY <2>4, <2>5, <3>1
    <3> QED BY <3>2, <3>3, <3>4
  <2>6. Uncrossed(pairs')
    BY <2>5 DEF Uncrossed
  <2> QED BY <2>3, <2>6 DEF OneInv
<1> QED BY <1>1, <1>2, StepEffect

LEMMA OneInvAlways == Spec => []OneInv
<1>1. TypeOK /\ OneInv /\ [Next]_vars => OneInv'
  BY OneInvStep
<1> QED BY <1>1, OneInvInit, TypeCorrect, PTL DEF Spec

\* The positions of Line(b), in terms of the bucket state.
LEMMA LinePositions ==
    ASSUME TypeOK, NEW b \in Buckets
    PROVE  /\ Line(b) \in Seq(Peers)
           /\ DOMAIN Line(b) = 1..Len(Line(b))
           /\ \A i \in DOMAIN Line(b) :
                 /\ Line(b)[i] \in Peers
                 /\ Mentions(pairs[b], Line(b)[i])
           /\ Distinct(pairs[b]) =>
                 \A i, j \in DOMAIN Line(b) : Line(b)[i] = Line(b)[j] => i = j
<1> DEFINE q == pairs[b].queued
           x == pairs[b].active
<1>1. /\ q \in Seq(Peers)
      /\ Len(q) \in Nat
      /\ DOMAIN q = 1..Len(q)
      /\ \A i \in 1..Len(q) : q[i] \in Peers
      /\ x \in Peers \cup {NoPeer}
  BY LenProperties, ElementOfSeq DEF TypeOK, PairStates
<1>2. CASE x = NoPeer
  <2>1. Line(b) = q
    BY <1>2 DEF Line
  <2> QED BY <1>1, <2>1 DEF Mentions, Distinct
<1>3. CASE x # NoPeer
  <2>1. Line(b) = <<x>> \o q
    BY <1>3 DEF Line
  <2>2. /\ <<x>> \in Seq(Peers)
        /\ Len(<<x>>) = 1
        /\ <<x>>[1] = x
    BY <1>1, <1>3
  <2> DEFINE l == <<x>> \o q
  <2>3. /\ l \in Seq(Peers)
        /\ Len(l) = 1 + Len(q)
        /\ DOMAIN l = 1..Len(l)
        /\ l[1] = x
        /\ \A i \in 1..Len(q) : l[1 + i] = q[i]
    <3>1. /\ l \in Seq(Peers)
          /\ Len(l) = 1 + Len(q)
          /\ \A i \in 1..(1 + Len(q)) : l[i] = IF i <= 1 THEN <<x>>[i] ELSE q[i - 1]
      BY <1>1, <2>2, ConcatProperties
    <3> HIDE DEF l
    <3>2. DOMAIN l = 1..Len(l)
      BY <3>1, LenProperties
    <3>3. l[1] = x
      BY <1>1, <2>2, <3>1
    <3>4. \A i \in 1..Len(q) : l[1 + i] = q[i]
      <4> TAKE i \in 1..Len(q)
      <4>1. 1 + i \in 1..(1 + Len(q)) /\ ~ (1 + i <= 1) /\ (1 + i) - 1 = i
        BY <1>1
      <4> QED BY <3>1, <4>1
    <3> QED BY <3>1, <3>2, <3>3, <3>4
  <2> HIDE DEF l
  <2>4. \A i \in 1..Len(l) :
           (i = 1 /\ l[i] = x) \/ (i - 1 \in 1..Len(q) /\ l[i] = q[i-1])
    <3> TAKE i \in 1..Len(l)
    <3>1. CASE i = 1
      BY <2>3, <3>1
    <3>2. CASE i # 1
      <4>1. i - 1 \in 1..Len(q) /\ 1 + (i - 1) = i
        BY <1>1, <2>3, <3>2
      <4> QED BY <2>3, <4>1
    <3> QED BY <3>1, <3>2
  <2>5. x \in Peers
    BY <1>1, <1>3
  <2>6. \A i \in 1..Len(l) : l[i] \in Peers /\ Mentions(pairs[b], l[i])
    BY <1>1, <2>4, <2>5 DEF Mentions
  <2>7. ASSUME Distinct(pairs[b]), NEW i \in 1..Len(l), NEW j \in 1..Len(l), l[i] = l[j]
        PROVE  i = j
    <3>1. \A k \in 1..Len(q) : q[k] # x
      BY <2>7 DEF Distinct
    <3>2. \A k, m \in 1..Len(q) : k # m => q[k] # q[m]
      BY <2>7 DEF Distinct
    <3>3. i - 1 \in 1..Len(q) /\ j - 1 \in 1..Len(q) => i - 1 = j - 1
      BY <2>4, <2>7, <3>1, <3>2
    <3> QED BY <2>4, <2>7, <3>1, <3>3
  <2> QED BY <2>1, <2>3, <2>6, <2>7 DEF l
<1> QED BY <1>2, <1>3

\* An identity never has two invites to one recipient, in one bucket or in
\* those of two IPs (the cross-bucket dedup of HandleInvite).
THEOREM OneInvite == Spec => []OneInviteInFlight
<1>1. TypeOK /\ OneInv => OneInviteInFlight
  <2> SUFFICES ASSUME TypeOK, OneInv,
                      NEW r \in Peers, NEW a1 \in Addrs, NEW a2 \in Addrs,
                      NEW i \in DOMAIN Line(<<a1, r>>), NEW j \in DOMAIN Line(<<a2, r>>),
                      Line(<<a1, r>>)[i] = Line(<<a2, r>>)[j]
               PROVE  a1 = a2 /\ i = j
    BY DEF OneInviteInFlight
  <2>1. <<a1, r>> \in Buckets /\ <<a2, r>> \in Buckets
    BY DEF Buckets
  <2>2. a1 = a2
    BY <2>1, LinePositions DEF OneInv, Uncrossed
  <2> QED BY <2>1, <2>2, LinePositions DEF OneInv
<1> QED BY <1>1, OneInvAlways, TypeCorrect, PTL

-----------------------------------------------------------------------------
(* No invite waits between friends. *)

\* An accept makes r and o friends.  An active invite of one to the other
\* that the step left alone would be a second one of the same sender.
LEMMA AcceptKeepsApart ==
    ASSUME TypeOK, OneInv, NoInviteBetweenFriends,
           NEW c \in Conns, NEW o \in Peers, HandleAccept(c, o)
    PROVE  NoInviteBetweenFriends'
<1> DEFINE r == session[c].id
<1>1. PICK b, moot : AcceptEffect(c, o, b, moot)
  BY AcceptHasEffect
<1>2. /\ b \in Buckets
      /\ b[2] = r
      /\ pairs[b].active = o
      /\ b \in moot
      /\ moot \in SUBSET Buckets
      /\ r \in Peers
      /\ friends' = friends \cup {{r, o}}
  BY <1>1 DEF AcceptEffect
<1>3. \A k, l \in Buckets : \A s \in Peers :
         pairs[k].active = s /\ pairs[l].active = s /\ k[2] = l[2] => k = l
  BY DEF OneInv, Uncrossed, Mentions, Buckets
<1> SUFFICES ASSUME NEW k \in Buckets, pairs'[k].active # NoPeer
             PROVE  {pairs'[k].active, k[2]} \notin friends'
  BY DEF NoInviteBetweenFriends
<1>4. CASE k \in moot
  <2>1. Pops(pairs'[k], pairs[k], k[2], friends')
    BY <1>1, <1>4 DEF AcceptEffect
  <2>2. pairs[k].active # NoPeer /\ pairs[k] \in PairStates
    BY <1>1, <1>4, ConstantsAssumption DEF AcceptEffect, TypeOK
  <2> QED BY <2>1, <2>2, PromoteNextShrinks
<1>5. CASE k \notin moot
  <2>1. pairs'[k] = pairs[k]
    BY <1>1, <1>5 DEF AcceptEffect
  <2>2. {pairs[k].active, k[2]} \notin friends
    BY <2>1 DEF NoInviteBetweenFriends
  <2>3. ~ (pairs[k].active = o /\ k[2] = r)
    BY <1>2, <1>3, <1>5
  <2>4. ~ (pairs[k].active = r /\ k[2] = o)
    <3> SUFFICES ASSUME pairs[k].active = r, k[2] = o PROVE FALSE
      OBVIOUS
    <3>1. PICK l \in moot : l[2] = o /\ pairs[l].active = r
      BY <1>1 DEF AcceptEffect
    <3>2. l = k
      BY <1>2, <1>3, <3>1
    <3> QED BY <1>5, <3>1, <3>2
  <2>5. {pairs[k].active, k[2]} # {r, o}
    BY <2>3, <2>4
  <2> QED BY <1>2, <2>1, <2>2, <2>5
<1> QED BY <1>4, <1>5

\* Every other step adds no friendship.
LEMMA FriendsShrink ==
    ASSUME [Next]_vars, ~ \E c \in Conns, o \in Peers : HandleAccept(c, o)
    PROVE  friends' \subseteq friends
BY DEF Next, vars, Join, Leave, LeaveDisplaced, OnPeerDisconnect, HandleInvite, HandleReject

LEMMA ApartStep ==
    ASSUME TypeOK, OneInv, NoInviteBetweenFriends, [Next]_vars
    PROVE  NoInviteBetweenFriends'
<1>1. CASE \E c \in Conns, o \in Peers : HandleAccept(c, o)
  BY <1>1, AcceptKeepsApart
<1>2. CASE ~ \E c \in Conns, o \in Peers : HandleAccept(c, o)
  <2>1. friends' \subseteq friends
    BY <1>2, FriendsShrink
  <2> SUFFICES ASSUME NEW k \in Buckets, pairs'[k].active # NoPeer
               PROVE  {pairs'[k].active, k[2]} \notin friends'
    BY DEF NoInviteBetweenFriends
  <2>2. pairs[k].active # NoPeer => {pairs[k].active, k[2]} \notin friends
    BY DEF NoInviteBetweenFriends
  <2>3. CASE BucketsShrink
    BY <2>1, <2>2, <2>3 DEF BucketsShrink, Shrinks
  <2>4. ASSUME NEW b, NEW s, BucketGrows(b, s)
        PROVE  {pairs'[k].active, k[2]} \notin friends'
    BY <2>1, <2>2, <2>4 DEF BucketGrows
  <2> QED BY <2>3, <2>4, StepEffect
<1> QED BY <1>1, <1>2

\* The invite a bucket waits on is never one between friends (the reciprocal
\* cleanup of HandleAccept, the skipping in promoteNext).
THEOREM FriendsApart == Spec => []NoInviteBetweenFriends
<1>1. Init => NoInviteBetweenFriends
  BY DEF Init, NoInviteBetweenFriends, NoState
<1>2. TypeOK /\ OneInv /\ NoInviteBetweenFriends /\ [Next]_vars => NoInviteBetweenFriends'
  BY ApartStep
<1> QED BY <1>1, <1>2, TypeCorrect, OneInvAlways, PTL DEF Spec

-----------------------------------------------------------------------------
(* Whatever is kept has somebody who will clean it up. *)

\* An identity is accounted for until a cleanup of it has run.
LEMMA AccountedKept ==
    ASSUME TypeOK, [Next]_vars, NEW p \in Peers, Accounted(p),
           ~ \E c \in Conns : OnPeerDisconnect(c) /\ session[c].id = p
    PROVE  Accounted(p)'
<1>1. CASE hub[p] # NoConn
  <2>1. ASSUME NEW c \in Conns, NEW q \in Peers, NEW a \in Addrs, Join(c, q, a)
        PROVE  hub'[p] # NoConn
    BY <1>1, <2>1, ConstantsAssumption DEF Join, TypeOK
  <2>2. ASSUME NEW c \in Conns, Leave(c)
        PROVE  Accounted(p)'
    <3>1. CASE session[c].id = p
      <4>1. c \in leaving' /\ session'[c].id = p
        BY <2>2, <3>1 DEF Leave
      <4> QED BY <4>1 DEF Accounted
    <3>2. CASE session[c].id # p
      BY <1>1, <2>2, <3>2 DEF Leave, TypeOK, Accounted
    <3> QED BY <3>1, <3>2
  <2>3. CASE hub' = hub
    BY <1>1, <2>3 DEF Accounted
  <2> QED BY <2>1, <2>2, <2>3 DEF Next, vars, Accounted, LeaveDisplaced,
             OnPeerDisconnect, HandleInvite, HandleAccept, HandleReject
<1>2. ASSUME NEW d \in leaving, session[d].id = p PROVE Accounted(p)'
  <2>1. d \in Conns /\ session[d] # NoSession
    BY DEF TypeOK
  <2>2. d \in leaving' /\ session'[d] = session[d]
    <3>1. ASSUME NEW c \in Conns, NEW q \in Peers, NEW a \in Addrs, Join(c, q, a)
          PROVE  d \in leaving' /\ session'[d] = session[d]
      BY <2>1, <3>1 DEF Join, TypeOK
    <3>2. ASSUME NEW c \in Conns, Leave(c) \/ LeaveDisplaced(c)
          PROVE  d \in leaving' /\ session'[d] = session[d]
      BY <2>1, <3>2 DEF Leave, LeaveDisplaced, Reading, TypeOK
    <3>3. ASSUME NEW c \in Conns, OnPeerDisconnect(c)
          PROVE  d \in leaving' /\ session'[d] = session[d]
      <4>1. c # d
        BY <1>2, <3>3
      <4> QED BY <2>1, <3>3, <4>1 DEF OnPeerDisconnect, TypeOK
    <3>4. CASE UNCHANGED <<session, leaving>>
      BY <3>4
    <3> QED BY <3>1, <3>2, <3>3, <3>4 DEF Next, vars,
               HandleInvite, HandleAccept, HandleReject
  <2> QED BY <1>2, <2>2 DEF Accounted
<1> QED BY <1>1, <1>2 DEF Accounted

LEMMA AccountedStep ==
    ASSUME TypeOK, RecipientsAccounted, FriendsAccounted, [Next]_vars
    PROVE  RecipientsAccounted' /\ FriendsAccounted'
<1>1. \A b \in Buckets : b[2] \in Peers
  BY DEF Buckets
<1>2. \A f \in friends : \A p \in f : p \in Peers
  BY DEF TypeOK
<1>3. ASSUME NEW c \in Conns, OnPeerDisconnect(c)
      PROVE  RecipientsAccounted' /\ FriendsAccounted'
  <2> DEFINE q == session[c].id
  <2>1. \A p \in Peers : Accounted(p) /\ p # q => Accounted(p)'
    <3> TAKE p \in Peers
    <3> SUFFICES ASSUME Accounted(p), p # q PROVE Accounted(p)'
      OBVIOUS
    <3>1. CASE hub[p] # NoConn
      BY <1>3, <3>1 DEF OnPeerDisconnect, Accounted
    <3>2. ASSUME NEW d \in leaving, session[d].id = p PROVE Accounted(p)'
      <4>1. d # c
        BY <3>2
      <4>2. d \in leaving' /\ session'[d] = session[d]
        BY <1>3, <4>1 DEF OnPeerDisconnect, TypeOK
      <4> QED BY <3>2, <4>2 DEF Accounted
    <3> QED BY <3>1, <3>2 DEF Accounted
  <2>2. ASSUME NEW b \in Buckets, pairs'[b] # NoState PROVE Accounted(b[2])'
    <3>1. Shrinks(pairs'[b], pairs[b], b[2], friends')
      BY <1>3, DisconnectShrinks DEF BucketsShrink
    <3>2. b[2] # q
      BY <1>3, <2>2 DEF OnPeerDisconnect, AfterDeparture
    <3>3. Accounted(b[2])
      BY <2>2, <3>1 DEF Shrinks, RecipientsAccounted
    <3> QED BY <1>1, <2>1, <3>2, <3>3
  <2>3. ASSUME NEW f \in friends', NEW p \in f PROVE Accounted(p)'
    <3>1. f \in friends /\ p # q
      BY <1>3, <2>3 DEF OnPeerDisconnect
    <3> QED BY <1>2, <2>1, <3>1 DEF FriendsAccounted
  <2> QED BY <2>2, <2>3 DEF RecipientsAccounted, FriendsAccounted
<1>4. CASE ~ \E c \in Conns : OnPeerDisconnect(c)
  <2>1. \A p \in Peers : Accounted(p) => Accounted(p)'
    BY <1>4, AccountedKept
  <2>2. ASSUME NEW b \in Buckets, pairs'[b] # NoState PROVE Accounted(b[2])'
    <3>1. CASE BucketsShrink
      <4>1. Accounted(b[2])
        BY <2>2, <3>1 DEF BucketsShrink, Shrinks, RecipientsAccounted
      <4> QED BY <1>1, <2>1, <4>1
    <3>2. ASSUME NEW c \in Conns, NEW r \in Peers, HandleInvite(c, r),
                 BucketGrows(<<session[c].ip, r>>, session[c].id)
          PROVE  Accounted(b[2])'
      <4>1. CASE b[2] = r
        BY <3>2, <4>1, <2>1 DEF HandleInvite, MayInvite, Accounted
      <4>2. CASE b[2] # r
        <5>1. b # <<session[c].ip, r>>
          BY <4>2
        <5>2. pairs'[b] = pairs[b]
          BY <3>2, <5>1 DEF BucketGrows
        <5>3. Accounted(b[2])
          BY <2>2, <5>2 DEF RecipientsAccounted
        <5> QED BY <1>1, <2>1, <5>3
      <4> QED BY <4>1, <4>2
    <3> QED BY <3>1, <3>2, StepEffect
  <2>3. ASSUME NEW f \in friends', NEW p \in f PROVE Accounted(p)'
    <3>1. CASE f \in friends
      BY <1>2, <2>1, <2>3, <3>1 DEF FriendsAccounted
    <3>2. CASE f \notin friends
      <4>1. PICK c \in Conns, o \in Peers : HandleAccept(c, o)
        BY <2>3, <3>2, FriendsShrink
      <4>2. PICK b, moot : AcceptEffect(c, o, b, moot)
        BY <4>1, AcceptHasEffect
      <4>3. /\ b \in Buckets
            /\ pairs[b] # NoState
            /\ b[2] \in Peers
            /\ hub[o] # NoConn
            /\ p \in {b[2], o}
        BY <1>1, <2>3, <3>2, <4>2, ConstantsAssumption DEF AcceptEffect, NoState
      <4>4. Accounted(b[2]) /\ Accounted(o)
        BY <4>3 DEF RecipientsAccounted, Accounted
      <4> QED BY <2>1, <4>3, <4>4
    <3> QED BY <3>1, <3>2
  <2> QED BY <2>2, <2>3 DEF RecipientsAccounted, FriendsAccounted
<1> QED BY <1>3, <1>4

LEMMA AccountedInit == Init => RecipientsAccounted /\ FriendsAccounted
BY DEF Init, RecipientsAccounted, FriendsAccounted

\* The buckets of a recipient, and the rejected flags in them, go when the
\* recipient goes (HandleInvite looks the recipient up under fm.mu), and so
\* do friendships, although HandleAccept looks up only one of the two ends.
THEOREM GoneForgotten == Spec => []GoneAreForgotten
<1>1. TypeOK /\ RecipientsAccounted /\ FriendsAccounted /\ [Next]_vars =>
         RecipientsAccounted' /\ FriendsAccounted'
  BY AccountedStep
<1>2. Spec => [](RecipientsAccounted /\ FriendsAccounted)
  BY <1>1, AccountedInit, TypeCorrect, PTL DEF Spec
<1> QED BY <1>2, PTL DEF GoneAreForgotten

-----------------------------------------------------------------------------
(* The invites of a bucket in their order. *)

\* The places of a bucket state that hold an invite, 0 that of the active one.
Places(st) == (IF st.active = NoPeer THEN {} ELSE {0}) \cup 1..Len(st.queued)

At(st, k) == IF k = 0 THEN st.active ELSE st.queued[k]

\* The invites of n are some of those of st, in their order.
Follows(n, st) ==
    \E g : /\ \A k \in Places(n) : g[k] \in Places(st) /\ At(n, k) = At(st, g[k])
           /\ \A k, l \in Places(n) : k < l => g[k] < g[l]

LEMMA SameFollows == ASSUME NEW st PROVE Follows(st, st)
<1> DEFINE g == [k \in Places(st) |-> k]
<1>1. /\ \A k \in Places(st) : g[k] \in Places(st) /\ At(st, k) = At(st, g[k])
      /\ \A k, l \in Places(st) : k < l => g[k] < g[l]
  OBVIOUS
<1> HIDE DEF g
<1> QED BY <1>1 DEF Follows

LEMMA FollowsOn ==
    ASSUME NEW m, NEW n, NEW st, Follows(m, n), Follows(n, st)
    PROVE  Follows(m, st)
<1>1. PICK h : /\ \A k \in Places(m) : h[k] \in Places(n) /\ At(m, k) = At(n, h[k])
               /\ \A k, l \in Places(m) : k < l => h[k] < h[l]
  BY DEF Follows
<1>2. PICK g : /\ \A k \in Places(n) : g[k] \in Places(st) /\ At(n, k) = At(st, g[k])
               /\ \A k, l \in Places(n) : k < l => g[k] < g[l]
  BY DEF Follows
<1> DEFINE f == [k \in Places(m) |-> g[h[k]]]
<1>3. /\ \A k \in Places(m) : f[k] \in Places(st) /\ At(m, k) = At(st, f[k])
      /\ \A k, l \in Places(m) : k < l => f[k] < f[l]
  BY <1>1, <1>2
<1> HIDE DEF f
<1> QED BY <1>3 DEF Follows

LEMMA EmptyFollows ==
    ASSUME NEW n, n.active = NoPeer, n.queued = <<>>, NEW st
    PROVE  Follows(n, st)
<1>1. Places(n) = {}
  BY DEF Places
<1> QED BY <1>1 DEF Follows

\* A promotion leaves the end of the queue.
LEMMA PromotedFollows ==
    ASSUME NEW st \in PairStates, NEW r, NEW fs, NEW n, Pops(n, st, r, fs)
    PROVE  Follows(n, st)
<1>1. CASE n.active = NoPeer /\ n.queued = <<>>
  BY <1>1, EmptyFollows
<1>2. ASSUME NEW d \in 1..Len(st.queued), n.active = st.queued[d],
             Len(n.queued) = Len(st.queued) - d,
             \A i \in 1..Len(n.queued) : n.queued[i] = st.queued[d+i]
      PROVE  Follows(n, st)
  <2> DEFINE g == [k \in Places(n) |-> d + k]
  <2>1. Len(st.queued) \in Nat /\ Len(n.queued) \in Nat
    BY LenProperties DEF PairStates, Pops
  <2>2. \A k \in Places(n) : k = 0 \/ k \in 1..Len(n.queued)
    BY DEF Places
  <2>3. 1..Len(st.queued) \subseteq Places(st)
    BY DEF Places
  <2>4. \A k \in Places(n) : g[k] \in Places(st) /\ At(n, k) = At(st, g[k])
    <3> TAKE k \in Places(n)
    <3>1. g[k] = d + k /\ d + k \in 1..Len(st.queued) /\ d + k # 0
      BY <1>2, <2>1, <2>2
    <3> QED BY <1>2, <2>2, <2>3, <3>1 DEF At
  <2>5. \A k, l \in Places(n) : k < l => g[k] < g[l]
    BY <2>1, <2>2
  <2> HIDE DEF g
  <2> QED BY <2>4, <2>5 DEF Follows
<1> QED BY <1>1, <1>2 DEF Pops

\* So does the filter of a departure, which leaves the active invite alone.
LEMMA KeptFollows ==
    ASSUME NEW st \in PairStates, NEW p, NEW kept, kept.active = st.active,
           kept.queued = Without(st.queued, p)
    PROVE  Follows(kept, st)
<1>1. st.queued \in Seq(Peers) /\ Len(st.queued) \in Nat
  BY LenProperties DEF PairStates
<1>2. PICK w : w = Without(st.queued, p)
  OBVIOUS
<1>3. w \in Seq(Peers)
  BY <1>1, <1>2, WithoutProperties
<1>4. PICK h : Embeds(h, w, st.queued, Len(st.queued), p)
  BY <1>1, <1>2, WithoutProperties
<1>5. Len(w) \in Nat
  BY <1>3, LenProperties
<1> DEFINE g == [k \in Places(kept) |-> IF k = 0 THEN 0 ELSE h[k]]
<1>6. \A k \in 1..Len(w) : h[k] \in 1..Len(st.queued) /\ w[k] = st.queued[h[k]]
  BY <1>4 DEF Embeds
<1>7. \A k \in Places(kept) :
         \/ k = 0 /\ 0 \in Places(st) /\ g[k] = 0
         \/ k \in 1..Len(w) /\ k # 0 /\ h[k] # 0 /\ g[k] = h[k] /\ h[k] \in 1..Len(st.queued)
  BY <1>1, <1>2, <1>5, <1>6 DEF Places
<1>8. \A k \in Places(kept) : g[k] \in Places(st) /\ At(kept, k) = At(st, g[k])
  <2> TAKE k \in Places(kept)
  <2>1. 1..Len(st.queued) \subseteq Places(st)
    BY DEF Places
  <2> HIDE DEF g
  <2>2. CASE k = 0
    <3>1. g[k] = 0 /\ 0 \in Places(st)
      BY <1>7, <2>2
    <3> QED BY <2>2, <3>1 DEF At
  <2>3. CASE k \in 1..Len(w) /\ k # 0 /\ h[k] # 0 /\ g[k] = h[k] /\ h[k] \in 1..Len(st.queued)
    BY <1>2, <1>6, <2>1, <2>3 DEF At
  <2> QED BY <1>7, <2>2, <2>3
<1>9. \A k, l \in Places(kept) : k < l => g[k] < g[l]
  <2> SUFFICES ASSUME NEW k \in Places(kept), NEW l \in Places(kept), k < l
               PROVE  g[k] < g[l]
    OBVIOUS
  <2>1. \A i, j \in 1..Len(w) : i < j => h[i] < h[j]
    BY <1>4 DEF Embeds
  <2> HIDE DEF g
  <2>2. l \in 1..Len(w) /\ g[l] = h[l] /\ h[l] \in 1..Len(st.queued)
    BY <1>5, <1>7
  <2>3. (k = 0 /\ g[k] = 0) \/ (k \in 1..Len(w) /\ g[k] = h[k])
    BY <1>7
  <2> QED BY <1>1, <1>5, <2>1, <2>2, <2>3
<1> HIDE DEF g
<1> QED BY <1>8, <1>9 DEF Follows

LEMMA DepartureFollows ==
    ASSUME NEW st \in PairStates, NEW r, NEW p, NEW fs
    PROVE  Follows(AfterDeparture(st, r, p, fs), st)
<1> DEFINE kept == [st EXCEPT !.queued = Without(st.queued, p)]
           m == PromoteNext(kept, r, fs)
<1>1. kept \in PairStates /\ kept.active = st.active /\ kept.queued = Without(st.queued, p)
  BY WithoutProperties DEF PairStates
<1>2. Pops(m, kept, r, fs)
  BY <1>1, PromoteNextPops
<1>3. \/ AfterDeparture(st, r, p, fs) = NoState
      \/ AfterDeparture(st, r, p, fs) = m
      \/ AfterDeparture(st, r, p, fs) = kept
  BY DEF AfterDeparture
<1>4. Follows(NoState, st)
  BY EmptyFollows DEF NoState
<1> HIDE DEF kept, m
<1>5. Follows(kept, st)
  BY <1>1, KeptFollows
<1>6. Follows(m, st)
  BY <1>1, <1>2, <1>5, PromotedFollows, FollowsOn
<1> QED BY <1>3, <1>4, <1>5, <1>6

LEMMA RejectClears ==
    ASSUME TypeOK, NEW c \in Conns, NEW o \in Peers, HandleReject(c, o)
    PROVE  \E b \in Buckets :
              /\ b[2] = session[c].id /\ pairs[b].active = o
              /\ pairs'[b].active = NoPeer /\ pairs'[b].queued = <<>>
              /\ \A k \in Buckets \ {b} : pairs'[k] = pairs[k]
              /\ sent' = {Notice("reject-from", o, session[c].id)} \cup
                         {Notice("invite-auto-rejected", pairs[b].queued[i], session[c].id) :
                              i \in DOMAIN pairs[b].queued}
<1> DEFINE refused == [rejected |-> TRUE, active |-> NoPeer, queued |-> <<>>]
           r == session[c].id
<1>1. PICK b \in Buckets :
         /\ Answerable(b, r, o)
         /\ pairs' = [pairs EXCEPT ![b] = refused]
         /\ sent' = {Notice("reject-from", o, r)} \cup
                    {Notice("invite-auto-rejected", pairs[b].queued[i], r) :
                         i \in DOMAIN pairs[b].queued}
  BY DEF HandleReject
<1>2. pairs'[b] = refused /\ \A k \in Buckets \ {b} : pairs'[k] = pairs[k]
  BY <1>1 DEF TypeOK
<1> QED BY <1>1, <1>2 DEF Answerable

\* Every step keeps the order of the invites in a bucket, or adds one last.
LEMMA StepFollows ==
    ASSUME TypeOK, [Next]_vars
    PROVE  \/ \A b \in Buckets : Follows(pairs'[b], pairs[b])
           \/ \E b \in Buckets, s \in Peers : BucketGrows(b, s)
<1>1. CASE UNCHANGED pairs
  BY <1>1, SameFollows
<1>2. ASSUME NEW c \in Conns, OnPeerDisconnect(c)
      PROVE  \A b \in Buckets : Follows(pairs'[b], pairs[b])
  <2> TAKE b \in Buckets
  <2>1. pairs[b] \in PairStates
    BY DEF TypeOK
  <2>2. pairs'[b] = AfterDeparture(pairs[b], b[2], session[c].id, friends')
    BY <1>2 DEF OnPeerDisconnect
  <2> QED BY <2>1, <2>2, DepartureFollows
<1>3. ASSUME NEW c \in Conns, NEW r \in Peers, HandleInvite(c, r), pairs' # pairs
      PROVE  \E b \in Buckets, s \in Peers : BucketGrows(b, s)
  <2> DEFINE b == <<session[c].ip, r>>
             s == session[c].id
  <2>1. s \in Peers /\ b \in Buckets
    BY <1>3, SessionType DEF HandleInvite, Reading, Buckets
  <2>2. BucketsShrink \/ BucketGrows(b, s)
    BY <1>3, InviteGrows
  <2>3. ~ BucketsShrink
    <3> SUFFICES ASSUME BucketsShrink PROVE FALSE
      OBVIOUS
    <3>1. ~ Mentions(pairs[b], s)
      <4>1. pairs[b].queued \in Seq(Peers)
        BY <2>1 DEF TypeOK, PairStates
      <4>2. DOMAIN pairs[b].queued = 1..Len(pairs[b].queued)
        BY <4>1, LenProperties
      <4>3. ~ InFlight(s, r) /\ session[c].ip \in Addrs
        BY <1>3, <2>1 DEF HandleInvite, MayInvite, Buckets
      <4> QED BY <4>2, <4>3 DEF InFlight, Mentions
    <3>2. Mentions(pairs'[b], s)
      <4>1. pairs \in [Buckets -> PairStates] /\ pairs[b] \in PairStates
        BY <2>1 DEF TypeOK
      <4>2. CASE pairs' = [pairs EXCEPT ![b].active = s]
        <5>1. pairs'[b] = [pairs[b] EXCEPT !.active = s]
          BY <2>1, <4>1, <4>2
        <5> QED BY <4>1, <5>1 DEF Mentions, PairStates
      <4>3. CASE pairs' = [pairs EXCEPT ![b].queued = Append(@, s)]
        <5>1. pairs'[b] = [pairs[b] EXCEPT !.queued = Append(@, s)]
          BY <2>1, <4>1, <4>3
        <5>2. pairs'[b].queued = Append(pairs[b].queued, s) /\ pairs[b].queued \in Seq(Peers)
          BY <4>1, <5>1 DEF PairStates
        <5>3. /\ Len(pairs'[b].queued) = Len(pairs[b].queued) + 1
              /\ pairs'[b].queued[Len(pairs[b].queued) + 1] = s
              /\ Len(pairs[b].queued) \in Nat
          BY <2>1, <5>2, AppendProperties, LenProperties
        <5>4. Len(pairs[b].queued) + 1 \in 1..Len(pairs'[b].queued)
          BY <5>3
        <5> QED BY <5>3, <5>4 DEF Mentions
      <4> QED BY <1>3, <4>2, <4>3 DEF HandleInvite
    <3> QED BY <2>1, <3>1, <3>2 DEF BucketsShrink, Shrinks
  <2> QED BY <2>1, <2>2, <2>3
<1>4. ASSUME NEW c \in Conns, NEW o \in Peers, HandleAccept(c, o)
      PROVE  \A b \in Buckets : Follows(pairs'[b], pairs[b])
  <2>1. PICK b, moot : AcceptEffect(c, o, b, moot)
    BY <1>4, AcceptHasEffect
  <2> TAKE k \in Buckets
  <2>2. CASE k \in moot
    <3>1. pairs[k] \in PairStates
      BY DEF TypeOK
    <3>2. Pops(pairs'[k], pairs[k], k[2], friends')
      BY <2>1, <2>2 DEF AcceptEffect
    <3> QED BY <3>1, <3>2, PromotedFollows
  <2>3. CASE k \notin moot
    BY <2>1, <2>3, SameFollows DEF AcceptEffect
  <2> QED BY <2>2, <2>3
<1>5. ASSUME NEW c \in Conns, NEW o \in Peers, HandleReject(c, o)
      PROVE  \A b \in Buckets : Follows(pairs'[b], pairs[b])
  BY <1>5, RejectClears, SameFollows, EmptyFollows
<1>6. CASE \E c \in Conns : (\E p \in Peers, a \in Addrs : Join(c, p, a))
                            \/ Leave(c) \/ LeaveDisplaced(c)
  BY <1>1, <1>6 DEF Join, Leave, LeaveDisplaced
<1>7. CASE UNCHANGED vars
  BY <1>1, <1>7 DEF vars
<1> QED BY <1>1, <1>2, <1>3, <1>4, <1>5, <1>6, <1>7 DEF Next

\* The line of a bucket state, and its places.
Row(st) == IF st.active = NoPeer THEN st.queued ELSE <<st.active>> \o st.queued

Shift(st) == IF st.active = NoPeer THEN 0 ELSE 1

LEMMA RowPlaces ==
    ASSUME NEW st \in PairStates
    PROVE  /\ DOMAIN Row(st) \subseteq Nat
           /\ \A i \in DOMAIN Row(st) :
                 i - Shift(st) \in Places(st) /\ Row(st)[i] = At(st, i - Shift(st))
           /\ \A k \in Places(st) :
                 k + Shift(st) \in DOMAIN Row(st) /\ Row(st)[k + Shift(st)] = At(st, k)
<1> DEFINE q == st.queued
           x == st.active
<1>1. /\ q \in Seq(Peers)
      /\ Len(q) \in Nat
      /\ DOMAIN q = 1..Len(q)
      /\ x \in Peers \cup {NoPeer}
  BY LenProperties DEF PairStates
<1>2. CASE x = NoPeer
  <2>1. Row(st) = q /\ Shift(st) = 0 /\ Places(st) = 1..Len(q)
    BY <1>2 DEF Row, Shift, Places
  <2>2. \A i \in 1..Len(q) : i \in Nat /\ i - 0 = i /\ i + 0 = i /\ i # 0
    BY <1>1
  <2> QED BY <1>1, <2>1, <2>2 DEF At
<1>3. CASE x # NoPeer
  <2> DEFINE l == <<x>> \o q
  <2>1. Row(st) = l /\ Shift(st) = 1 /\ Places(st) = {0} \cup 1..Len(q)
    BY <1>3 DEF Row, Shift, Places
  <2>2. <<x>> \in Seq(Peers) /\ Len(<<x>>) = 1 /\ <<x>>[1] = x
    BY <1>1, <1>3
  <2>3. /\ l \in Seq(Peers)
        /\ Len(l) = 1 + Len(q)
        /\ \A i \in 1..(1 + Len(q)) : l[i] = IF i <= 1 THEN <<x>>[i] ELSE q[i - 1]
    BY <1>1, <2>2, ConcatProperties
  <2> HIDE DEF l
  <2>4. DOMAIN l = 1..(1 + Len(q))
    BY <2>3, LenProperties
  <2>5. l[1] = x
    BY <1>1, <2>2, <2>3
  <2>6. \A i \in 1..(1 + Len(q)) : i # 1 => i - 1 \in 1..Len(q) /\ l[i] = q[i - 1]
    BY <1>1, <2>3
  <2>7. \A k \in 1..Len(q) : k + 1 \in 1..(1 + Len(q)) /\ k + 1 # 1 /\ (k + 1) - 1 = k /\ k # 0
    BY <1>1
  <2>8. \A i \in 1..(1 + Len(q)) : i - 1 \in {0} \cup 1..Len(q) /\ l[i] = At(st, i - 1)
    <3> TAKE i \in 1..(1 + Len(q))
    <3>1. CASE i = 1
      BY <2>5, <3>1 DEF At
    <3>2. CASE i # 1
      <4>1. i - 1 \in 1..Len(q) /\ l[i] = q[i - 1] /\ i - 1 # 0
        BY <1>1, <2>6, <3>2
      <4> QED BY <4>1 DEF At
    <3> QED BY <3>1, <3>2
  <2>9. \A k \in {0} \cup 1..Len(q) : k + 1 \in 1..(1 + Len(q)) /\ l[k + 1] = At(st, k)
    <3> TAKE k \in {0} \cup 1..Len(q)
    <3>1. CASE k = 0
      BY <1>1, <2>5, <3>1 DEF At
    <3>2. CASE k \in 1..Len(q)
      <4>1. l[k + 1] = q[k] /\ k # 0 /\ k + 1 \in 1..(1 + Len(q))
        BY <2>6, <2>7, <3>2
      <4> QED BY <4>1 DEF At
    <3> QED BY <3>1, <3>2
  <2>10. 1..(1 + Len(q)) \subseteq Nat
    BY <1>1
  <2> QED BY <2>1, <2>4, <2>8, <2>9, <2>10
<1> QED BY <1>2, <1>3

\* No two places of a bucket state without repetitions hold the same invite.
LEMMA PlacesApart ==
    ASSUME NEW st, Distinct(st), NEW i \in Places(st), NEW j \in Places(st), At(st, i) = At(st, j)
    PROVE  i = j
  BY DEF Distinct, Places, At

\* Two invites that stay keep their order, also when one is added.
LEMMA OrderKept ==
    ASSUME TypeOK, OneInv, [Next]_vars, NEW b \in Buckets,
           NEW i \in Places(pairs[b]), NEW j \in Places(pairs[b]), i < j,
           NEW k \in Places(pairs'[b]), NEW l \in Places(pairs'[b]),
           At(pairs'[b], k) = At(pairs[b], i), At(pairs'[b], l) = At(pairs[b], j),
           k \in Nat, l \in Nat, i \in Nat, j \in Nat
    PROVE  k < l
<1>d. Distinct(pairs[b])
  BY DEF OneInv
<1>1. CASE Follows(pairs'[b], pairs[b])
  <2>1. PICK g : /\ \A m \in Places(pairs'[b]) :
                       g[m] \in Places(pairs[b]) /\ At(pairs'[b], m) = At(pairs[b], g[m])
                 /\ \A m, n \in Places(pairs'[b]) : m < n => g[m] < g[n]
    BY <1>1 DEF Follows
  <2>2. g[k] = i /\ g[l] = j
    BY <1>d, <2>1, PlacesApart
  <2>3. k = l \/ l < k \/ k < l
    OBVIOUS
  <2> QED BY <2>1, <2>2, <2>3
<1>2. ASSUME NEW c \in Buckets, NEW s \in Peers, BucketGrows(c, s) PROVE k < l
  <2>1. CASE b # c
    <3>1. pairs'[b] = pairs[b]
      BY <1>2, <2>1 DEF BucketGrows
    <3> QED BY <1>d, <3>1, PlacesApart
  <2>2. CASE b = c
    <3>1. ~ Mentions(pairs[b], s)
      BY <1>2, <2>2 DEF BucketGrows, Buckets
    <3>2. CASE /\ pairs'[b].active = pairs[b].active
               /\ pairs'[b].queued = Append(pairs[b].queued, s)
      <4>1. pairs[b].queued \in Seq(Peers) /\ Len(pairs[b].queued) \in Nat
        BY LenProperties DEF TypeOK, PairStates
      <4>2. PICK w : w = Append(pairs[b].queued, s)
        OBVIOUS
      <4>3. /\ Len(w) = Len(pairs[b].queued) + 1
            /\ \A m \in 1..Len(pairs[b].queued) : w[m] = pairs[b].queued[m]
            /\ w[Len(pairs[b].queued) + 1] = s
        BY <4>1, <4>2, AppendProperties
      <4>4. \A m \in Places(pairs'[b]) :
               \/ m \in Places(pairs[b]) /\ At(pairs'[b], m) = At(pairs[b], m)
               \/ At(pairs'[b], m) = s
        BY <3>2, <4>1, <4>2, <4>3 DEF Places, At
      <4>5. \A m \in Places(pairs[b]) : At(pairs[b], m) # s
        BY <3>1 DEF Places, At, Mentions
      <4> QED BY <1>d, <4>4, <4>5, PlacesApart
    <3>3. CASE /\ pairs'[b].active = s
               /\ pairs'[b].queued = pairs[b].queued
               /\ pairs[b].active = NoPeer
      <4>1. \A m \in Places(pairs'[b]) :
               \/ m \in Places(pairs[b]) /\ At(pairs'[b], m) = At(pairs[b], m)
               \/ At(pairs'[b], m) = s
        BY <3>3 DEF Places, At
      <4>2. \A m \in Places(pairs[b]) : At(pairs[b], m) # s
        BY <3>1 DEF Places, At, Mentions
      <4> QED BY <1>d, <4>1, <4>2, PlacesApart
    <3> QED BY <1>2, <2>2, <3>2, <3>3 DEF BucketGrows
  <2> QED BY <2>1, <2>2
<1> QED BY <1>1, <1>2, StepFollows

\* First come, first served (HandleInvite appends, promoteNext takes the
\* first that is not moot, OnPeerDisconnect filters in order).
THEOREM InOrder == Spec => NoOvertaking
<1> DEFINE Kept == \A b \in Changed :
                      \A i, j \in DOMAIN Line(b) : \A k, l \in DOMAIN Line(b)' :
                         (i < j /\ Line(b)'[k] = Line(b)[i] /\ Line(b)'[l] = Line(b)[j]) => k < l
<1>1. TypeOK /\ OneInv /\ TypeOK' /\ [Next]_vars => Kept
  <2> SUFFICES ASSUME TypeOK, OneInv, TypeOK', [Next]_vars, NEW b \in Buckets,
                      NEW i \in DOMAIN Line(b), NEW j \in DOMAIN Line(b),
                      NEW k \in DOMAIN Line(b)', NEW l \in DOMAIN Line(b)',
                      i < j, Line(b)'[k] = Line(b)[i], Line(b)'[l] = Line(b)[j]
               PROVE  k < l
    BY DEF Changed
  <2>1. pairs[b] \in PairStates /\ pairs'[b] \in PairStates
    BY DEF TypeOK
  <2>2. Line(b) = Row(pairs[b]) /\ Line(b)' = Row(pairs'[b])
    BY DEF Line, Row
  <2> DEFINE o == Shift(pairs[b])
             n == Shift(pairs'[b])
  <2>3. o \in {0, 1} /\ n \in {0, 1}
    BY DEF Shift
  <2>4. /\ i \in Nat /\ j \in Nat
        /\ i - o \in Places(pairs[b]) /\ Line(b)[i] = At(pairs[b], i - o)
        /\ j - o \in Places(pairs[b]) /\ Line(b)[j] = At(pairs[b], j - o)
    BY <2>1, <2>2, RowPlaces
  <2>5. /\ k \in Nat /\ l \in Nat
        /\ k - n \in Places(pairs'[b]) /\ Line(b)'[k] = At(pairs'[b], k - n)
        /\ l - n \in Places(pairs'[b]) /\ Line(b)'[l] = At(pairs'[b], l - n)
    BY <2>1, <2>2, RowPlaces
  <2>6. \A st \in PairStates : Places(st) \subseteq Nat
    BY LenProperties DEF Places, PairStates
  <2>7. i - o \in Nat /\ j - o \in Nat /\ k - n \in Nat /\ l - n \in Nat
    BY <2>1, <2>4, <2>5, <2>6
  <2> HIDE DEF o, n
  <2>8. i - o < j - o
    BY <2>3, <2>4
  <2>9. k - n < l - n
    BY <2>4, <2>5, <2>7, <2>8, OrderKept
  <2> QED BY <2>3, <2>5, <2>9
<1>2. [][Kept]_vars <=> NoOvertaking
  BY DEF NoOvertaking
<1> HIDE DEF Kept
<1> QED BY <1>1, <1>2, TypeCorrect, OneInvAlways, PTL DEF Spec

-----------------------------------------------------------------------------
(* No invite vanishes with its sender still waiting on it. *)

\* A promotion drops the active invite, and others between friends only.
LEMMA PopsMoot ==
    ASSUME NEW st \in PairStates, NEW r, NEW fs, NEW n, Pops(n, st, r, fs),
           NEW s \in Peers, Mentions(st, s)
    PROVE  s = st.active \/ Mentions(n, s) \/ {s, r} \in fs
<1> SUFFICES ASSUME NEW i \in 1..Len(st.queued), st.queued[i] = s
             PROVE  Mentions(n, s) \/ {s, r} \in fs
  BY DEF Mentions
<1>1. CASE \A j \in 1..Len(st.queued) : {st.queued[j], r} \in fs
  BY <1>1
<1>2. ASSUME NEW d \in 1..Len(st.queued), n.active = st.queued[d],
             \A j \in 1..(d-1) : {st.queued[j], r} \in fs,
             Len(n.queued) = Len(st.queued) - d,
             \A j \in 1..Len(n.queued) : n.queued[j] = st.queued[d+j]
      PROVE  Mentions(n, s) \/ {s, r} \in fs
  <2>1. Len(st.queued) \in Nat
    BY LenProperties DEF PairStates
  <2>2. i \in 1..(d-1) \/ i = d \/ (i - d \in 1..Len(n.queued) /\ d + (i - d) = i)
    BY <1>2, <2>1
  <2>3. CASE i \in 1..(d-1)
    BY <1>2, <2>3
  <2>4. CASE i = d
    BY <1>2, <2>4 DEF Mentions
  <2>5. CASE i - d \in 1..Len(n.queued) /\ d + (i - d) = i
    <3>1. n.queued[i - d] = s
      BY <1>2, <2>5
    <3> QED BY <2>5, <3>1 DEF Mentions
  <2> QED BY <2>2, <2>3, <2>4, <2>5
<1> QED BY <1>1, <1>2 DEF Pops

\* A departure leaves the invites between two others.
LEMMA DepartureKeeps ==
    ASSUME NEW st \in PairStates, NEW r, NEW p, NEW fs, r # p,
           NEW s \in Peers, s # p, Mentions(st, s)
    PROVE  Mentions(AfterDeparture(st, r, p, fs), s) \/ {s, r} \in fs
<1> DEFINE kept == [st EXCEPT !.queued = Without(st.queued, p)]
           m == PromoteNext(kept, r, fs)
<1>1. st.queued \in Seq(Peers)
  BY DEF PairStates
<1>2. kept \in PairStates /\ kept.active = st.active /\ kept.queued = Without(st.queued, p)
  BY WithoutProperties DEF PairStates
<1>3. Pops(m, kept, r, fs)
  BY <1>2, PromoteNextPops
<1>4. AfterDeparture(st, r, p, fs) = IF st.active = p THEN m ELSE kept
  BY DEF AfterDeparture
<1> HIDE DEF kept, m
<1>5. Mentions(kept, s)
  <2>1. CASE st.active = s
    BY <1>2, <2>1 DEF Mentions
  <2>2. ASSUME NEW k \in 1..Len(st.queued), st.queued[k] = s PROVE Mentions(kept, s)
    <3>1. PICK w : w = Without(st.queued, p)
      OBVIOUS
    <3>2. PICK h : Embeds(h, w, st.queued, Len(st.queued), p)
      BY <1>1, <3>1, WithoutProperties
    <3>3. PICK i \in 1..Len(w) : h[i] = k
      BY <2>2, <3>2 DEF Embeds
    <3>4. w[i] = s
      BY <2>2, <3>2, <3>3 DEF Embeds
    <3> QED BY <1>2, <3>1, <3>3, <3>4 DEF Mentions
  <2> QED BY <2>1, <2>2 DEF Mentions
<1>6. s = kept.active \/ Mentions(m, s) \/ {s, r} \in fs
  BY <1>2, <1>3, <1>5, PopsMoot
<1> QED BY <1>2, <1>4, <1>5, <1>6

\* What a sender hears of an invite that is refused.
Told(s, r) == \E n \in sent' : /\ n.to = s /\ n.from = r
                               /\ n.kind \in {"reject-from", "invite-auto-rejected"}

\* Why an invite of s to r is in its bucket no more.
Excused(s, r) == {s, r} \in friends' \/ Departed(s) \/ Departed(r) \/ Told(s, r)

LEMMA StepTells ==
    ASSUME TypeOK, [Next]_vars, NEW b \in Buckets, NEW s \in Peers, Mentions(pairs[b], s)
    PROVE  Mentions(pairs'[b], s) \/ Excused(s, b[2])
<1>t. pairs[b] \in PairStates /\ pairs \in [Buckets -> PairStates]
  BY DEF TypeOK
<1>1. CASE UNCHANGED pairs
  BY <1>1
<1>2. ASSUME NEW c \in Conns, OnPeerDisconnect(c) PROVE Mentions(pairs'[b], s) \/ Excused(s, b[2])
  <2>1. pairs'[b] = AfterDeparture(pairs[b], b[2], session[c].id, friends')
    BY <1>2 DEF OnPeerDisconnect
  <2>2. Departed(session[c].id)
    BY <1>2 DEF OnPeerDisconnect, Departed
  <2> QED BY <1>t, <2>1, <2>2, DepartureKeeps DEF Excused
<1>3. ASSUME NEW c \in Conns, NEW r \in Peers, HandleInvite(c, r)
      PROVE  Mentions(pairs'[b], s)
  <2> DEFINE k == <<session[c].ip, r>>
             t == session[c].id
  <2>1. t \in Peers /\ k \in Buckets
    BY <1>3, SessionType DEF HandleInvite, Reading, Buckets
  <2>2. CASE pairs' = [pairs EXCEPT ![k].queued = Append(@, t)]
    <3>1. pairs'[b] = pairs[b] \/ pairs'[b] = [pairs[b] EXCEPT !.queued = Append(@, t)]
      BY <1>t, <2>1, <2>2
    <3>2. pairs[b].queued \in Seq(Peers) /\ Len(pairs[b].queued) \in Nat
      BY <1>t, LenProperties DEF PairStates
    <3>3. PICK w : w = Append(pairs[b].queued, t)
      OBVIOUS
    <3>4. /\ Len(w) = Len(pairs[b].queued) + 1
          /\ \A m \in 1..Len(pairs[b].queued) : w[m] = pairs[b].queued[m]
      BY <2>1, <3>2, <3>3, AppendProperties
    <3>5. \A m \in 1..Len(pairs[b].queued) : m \in 1..Len(w)
      BY <3>2, <3>4
    <3>6. CASE pairs'[b] = [pairs[b] EXCEPT !.queued = Append(@, t)]
      <4>1. pairs'[b].active = pairs[b].active /\ pairs'[b].queued = w
        BY <1>t, <3>3, <3>6 DEF PairStates
      <4> QED BY <3>4, <3>5, <4>1 DEF Mentions
    <3> QED BY <3>1, <3>6
  <2>3. CASE pairs[k].active = NoPeer /\ pairs' = [pairs EXCEPT ![k].active = t]
    <3>1. \/ pairs'[b] = pairs[b]
          \/ pairs[b].active = NoPeer /\ pairs'[b] = [pairs[b] EXCEPT !.active = t]
      BY <1>t, <2>1, <2>3
    <3>2. CASE pairs[b].active = NoPeer /\ pairs'[b] = [pairs[b] EXCEPT !.active = t]
      <4>1. pairs'[b].queued = pairs[b].queued /\ pairs[b].active # s
        BY <1>t, <3>2, ConstantsAssumption DEF PairStates
      <4> QED BY <4>1 DEF Mentions
    <3> QED BY <3>1, <3>2
  <2> QED BY <1>3, <2>2, <2>3 DEF HandleInvite
<1>4. ASSUME NEW c \in Conns, NEW o \in Peers, HandleAccept(c, o)
      PROVE  Mentions(pairs'[b], s) \/ {s, b[2]} \in friends'
  <2>1. PICK k, moot : AcceptEffect(c, o, k, moot)
    BY <1>4, AcceptHasEffect
  <2>2. CASE b \in moot
    <3>1. Pops(pairs'[b], pairs[b], b[2], friends')
      BY <2>1, <2>2 DEF AcceptEffect
    <3>2. {pairs[b].active, b[2]} \in friends'
      BY <2>1, <2>2 DEF AcceptEffect
    <3> QED BY <1>t, <3>1, <3>2, PopsMoot
  <2>3. CASE b \notin moot
    BY <2>1, <2>3 DEF AcceptEffect
  <2> QED BY <2>2, <2>3
<1>5. ASSUME NEW c \in Conns, NEW o \in Peers, HandleReject(c, o)
      PROVE  Mentions(pairs'[b], s) \/ Told(s, b[2])
  <2> DEFINE r == session[c].id
  <2>1. PICK k \in Buckets :
           /\ k[2] = r /\ pairs[k].active = o
           /\ \A m \in Buckets \ {k} : pairs'[m] = pairs[m]
           /\ sent' = {Notice("reject-from", o, r)} \cup
                      {Notice("invite-auto-rejected", pairs[k].queued[i], r) :
                           i \in DOMAIN pairs[k].queued}
    BY <1>5, RejectClears
  <2>2. CASE b = k
    <3>1. pairs[b].queued \in Seq(Peers)
      BY <1>t DEF PairStates
    <3>2. DOMAIN pairs[b].queued = 1..Len(pairs[b].queued)
      BY <3>1, LenProperties
    <3>3. CASE pairs[b].active = s
      <4>1. Notice("reject-from", s, r) \in sent'
        BY <2>1, <2>2, <3>3
      <4> QED BY <2>1, <2>2, <4>1 DEF Told, Notice
    <3>4. ASSUME NEW i \in 1..Len(pairs[b].queued), pairs[b].queued[i] = s PROVE Told(s, b[2])
      <4>1. Notice("invite-auto-rejected", s, r) \in sent'
        BY <2>1, <2>2, <3>2, <3>4
      <4> QED BY <2>1, <2>2, <4>1 DEF Told, Notice
    <3> QED BY <3>3, <3>4 DEF Mentions
  <2>3. CASE b # k
    BY <2>1, <2>3
  <2> QED BY <2>2, <2>3
<1>6. CASE \E c \in Conns : (\E p \in Peers, a \in Addrs : Join(c, p, a))
                            \/ Leave(c) \/ LeaveDisplaced(c)
  BY <1>1, <1>6 DEF Join, Leave, LeaveDisplaced
<1>7. CASE UNCHANGED vars
  BY <1>1, <1>7 DEF vars
<1> QED BY <1>2, <1>3, <1>4, <1>5, <1>6, <1>7 DEF Next, Excused

\* An invite leaves its bucket only when its ends became friends, when one of
\* them disconnected, or with a notice to its sender that it was rejected.
THEOREM NobodyDropped == Spec => NoSilentDrop
<1> DEFINE Kept == \A b \in Changed : \A i \in DOMAIN Line(b) :
                      LET s == Line(b)[i]
                          r == b[2]
                      IN  \/ \E j \in DOMAIN Line(b)' : Line(b)'[j] = s
                          \/ {s, r} \in friends'
                          \/ Departed(s) \/ Departed(r)
                          \/ \E n \in sent' : /\ n.to = s /\ n.from = r
                                              /\ n.kind \in {"reject-from", "invite-auto-rejected"}
<1>1. TypeOK /\ TypeOK' /\ [Next]_vars => Kept
  <2> SUFFICES ASSUME TypeOK, TypeOK', [Next]_vars, NEW b \in Buckets, NEW i \in DOMAIN Line(b)
               PROVE  \/ \E j \in DOMAIN Line(b)' : Line(b)'[j] = Line(b)[i]
                      \/ Excused(Line(b)[i], b[2])
    BY DEF Changed, Excused, Told
  <2>1. pairs[b] \in PairStates /\ pairs'[b] \in PairStates
    BY DEF TypeOK
  <2>2. Line(b)' = Row(pairs'[b])
    BY DEF Line, Row
  <2>3. Line(b)[i] \in Peers /\ Mentions(pairs[b], Line(b)[i])
    BY LinePositions
  <2>4. PICK s \in Peers : s = Line(b)[i]
    BY <2>3
  <2>5. Mentions(pairs'[b], s) \/ Excused(s, b[2])
    BY <2>3, <2>4, StepTells
  <2>6. ASSUME Mentions(pairs'[b], s) PROVE \E j \in DOMAIN Row(pairs'[b]) : Row(pairs'[b])[j] = s
    <3>1. \E k \in Places(pairs'[b]) : At(pairs'[b], k) = s
      <4>1. CASE pairs'[b].active = s
        <5>1. 0 \in Places(pairs'[b])
          BY <4>1, ConstantsAssumption DEF Places
        <5> QED BY <4>1, <5>1 DEF At
      <4>2. ASSUME NEW m \in 1..Len(pairs'[b].queued), pairs'[b].queued[m] = s
            PROVE  \E k \in Places(pairs'[b]) : At(pairs'[b], k) = s
        <5>1. m \in Places(pairs'[b]) /\ m # 0
          BY DEF Places
        <5> QED BY <4>2, <5>1 DEF At
      <4> QED BY <2>6, <4>1, <4>2 DEF Mentions
    <3> QED BY <2>1, <3>1, RowPlaces
  <2> QED BY <2>2, <2>4, <2>5, <2>6
<1>2. [][Kept]_vars <=> NoSilentDrop
  BY DEF NoSilentDrop
<1> HIDE DEF Kept
<1> QED BY <1>1, <1>2, TypeCorrect, PTL DEF Spec

=============================================================================
