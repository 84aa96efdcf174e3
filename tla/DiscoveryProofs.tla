-------------------------- MODULE DiscoveryProofs ---------------------------
(***************************************************************************)
(* Theorems about discovery, for any sets of identities and connections.   *)
(***************************************************************************)
EXTENDS Discovery, FiniteSetTheorems, TLAPS

\* The frames of a broadcast go to connections that are in the hub.
LEMMA BroadcastType ==
    ASSUME TypeOK, NEW k \in {"joined", "left"}, NEW p \in Peers
    PROVE  BroadcastExcept(k, p) \subseteq Frames
BY DEF BroadcastExcept, Snapshot, Frames, TypeOK

LEMMA TypeInit == Init => TypeOK
BY ConstantsAssumption DEF Init, TypeOK, Phases

LEMMA TypeStep == TypeOK /\ [Next]_vars => TypeOK'
<1> SUFFICES ASSUME TypeOK, [Next]_vars PROVE TypeOK'
  OBVIOUS
<1> USE ConstantsAssumption
<1>1. ASSUME NEW c \in Conns, NEW p \in Peers, Add(c, p) PROVE TypeOK'
  BY <1>1 DEF Add, TypeOK, Phases
<1>2. ASSUME NEW c \in Conns, TakeSnapshot(c) PROVE TypeOK'
  BY <1>2 DEF TakeSnapshot, TypeOK, Phases, Snapshot
<1>3. ASSUME NEW c \in Conns, WritePeerList(c) PROVE TypeOK'
  BY <1>3 DEF WritePeerList, TypeOK, Phases
<1>4. ASSUME NEW c \in Conns, PeerListFails(c) PROVE TypeOK'
  BY <1>4 DEF PeerListFails, TypeOK, Phases
<1>5. ASSUME NEW c \in Conns, AnnounceJoined(c) PROVE TypeOK'
  <2>1. owner[c] \in Peers
    BY <1>5 DEF AnnounceJoined, TypeOK
  <2> QED BY <1>5, <2>1, BroadcastType DEF AnnounceJoined, TypeOK, Phases
<1>6. ASSUME NEW c \in Conns, AnnounceLeft(c) PROVE TypeOK'
  <2>1. owner[c] \in Peers
    BY <1>6 DEF AnnounceLeft, TypeOK
  <2> QED BY <1>6, <2>1, BroadcastType DEF AnnounceLeft, TypeOK, Phases
<1>7. ASSUME NEW c \in Conns, Remove(c) PROVE TypeOK'
  BY <1>7 DEF Remove, TypeOK, Phases
<1>8. ASSUME NEW f \in posted, Deliver(f) PROVE TypeOK'
  <2>1. f \in Frames
    BY DEF TypeOK
  <2> QED BY <1>8, <2>1 DEF Deliver, TypeOK, Frames
<1>9. CASE UNCHANGED vars
  BY <1>9 DEF vars, TypeOK
<1> QED BY <1>1, <1>2, <1>3, <1>4, <1>5, <1>6, <1>7, <1>8, <1>9 DEF Next, Handler

\* The hub never maps an identity to a connection whose handler has passed
\* remove(), and broadcastMu is held exactly through the join sequence, its
\* early return included (Hub.add, Hub.remove, HandleWebSocket).
THEOREM TypeCorrect == Spec => []TypeOK
BY TypeInit, TypeStep, PTL DEF Spec

-----------------------------------------------------------------------------

\* Identity p is in the hub, or its departure will still be announced.
Backed(p) == hub[p] # NoConn \/ LeftToCome(p)

\* Only the announcement of a departure ends that, and needs broadcastMu.
LEMMA BackedKept ==
    ASSUME TypeOK, [Next]_vars, NEW p \in Peers, Backed(p),
           \A c \in Conns : ~ AnnounceLeft(c)
    PROVE  Backed(p)'
<1>1. CASE hub[p] # NoConn
  <2>1. ASSUME NEW c \in Conns, Remove(c) PROVE Backed(p)'
    <3>1. CASE hub[owner[c]] = c
      <4>1. CASE owner[c] = p
        <5>1. phase'[c] = "removed" /\ owner'[c] = p
          BY <2>1, <3>1, <4>1 DEF Remove, TypeOK
        <5> QED BY <5>1 DEF Backed, LeftToCome
      <4>2. CASE owner[c] # p
        BY <1>1, <2>1, <4>2 DEF Remove, TypeOK, Backed
      <4> QED BY <4>1, <4>2
    <3>2. CASE hub[owner[c]] # c
      BY <1>1, <2>1, <3>2 DEF Remove, Backed
    <3> QED BY <3>1, <3>2
  <2>2. ASSUME NEW c \in Conns, NEW q \in Peers, Add(c, q) PROVE Backed(p)'
    BY <1>1, <2>2, ConstantsAssumption DEF Add, TypeOK, Backed
  <2>3. CASE hub' = hub
    BY <1>1, <2>3 DEF Backed
  <2> QED BY <2>1, <2>2, <2>3 DEF Next, Handler, vars, TakeSnapshot, WritePeerList,
             PeerListFails, AnnounceJoined, AnnounceLeft, Deliver
<1>2. ASSUME NEW x \in Conns, owner[x] = p, phase[x] = "removed" PROVE Backed(p)'
  <2>1. owner'[x] = p /\ phase'[x] = "removed"
    <3>1. ASSUME NEW c \in Conns, NEW q \in Peers, Add(c, q)
          PROVE  owner'[x] = p /\ phase'[x] = "removed"
      BY <1>2, <3>1 DEF Add, TypeOK
    <3>2. ASSUME NEW c \in Conns,
                 TakeSnapshot(c) \/ WritePeerList(c) \/ PeerListFails(c) \/ AnnounceJoined(c)
          PROVE  owner'[x] = p /\ phase'[x] = "removed"
      BY <1>2, <3>2 DEF TakeSnapshot, WritePeerList, PeerListFails, AnnounceJoined, TypeOK
    <3>3. ASSUME NEW c \in Conns, Remove(c)
          PROVE  owner'[x] = p /\ phase'[x] = "removed"
      BY <1>2, <3>3 DEF Remove, TypeOK
    <3>4. CASE UNCHANGED <<owner, phase>>
      BY <1>2, <3>4
    <3> QED BY <3>1, <3>2, <3>3, <3>4 DEF Next, Handler, vars, Deliver
  <2> QED BY <2>1 DEF Backed, LeftToCome
<1> QED BY <1>1, <1>2 DEF Backed, LeftToCome

LEMMA BackedStep ==
    ASSUME TypeOK, SnapshotIsBacked, [Next]_vars
    PROVE  SnapshotIsBacked'
<1> SUFFICES ASSUME NEW d \in Conns, phase'[d] = "listing", NEW p \in snap'[d]
             PROVE  Backed(p)'
  BY DEF SnapshotIsBacked, Backed
<1>1. CASE \E c \in Conns : AnnounceLeft(c)
  \* Nobody is between its snapshot and its peer-list then.
  <2>1. broadcastMu = NoConn /\ phase[d] = "listing"
    BY <1>1 DEF AnnounceLeft, TypeOK
  <2> QED BY <2>1, ConstantsAssumption DEF TypeOK
<1>2. CASE \E c \in Conns : TakeSnapshot(c)
  <2>1. PICK c \in Conns : TakeSnapshot(c)
    BY <1>2
  <2>2. d = c
    BY <2>1, ConstantsAssumption DEF TakeSnapshot, TypeOK
  <2>3. p \in Peers /\ hub[p] # NoConn /\ hub' = hub
    BY <2>1, <2>2 DEF TakeSnapshot, TypeOK, Snapshot
  <2> QED BY <2>3 DEF Backed
<1>3. CASE ~ (\E c \in Conns : AnnounceLeft(c)) /\ ~ (\E c \in Conns : TakeSnapshot(c))
  <2>1. phase[d] = "listing" /\ snap'[d] = snap[d]
    <3>1. ASSUME NEW c \in Conns, NEW q \in Peers, Add(c, q)
          PROVE  phase[d] = "listing" /\ snap'[d] = snap[d]
      BY <3>1 DEF Add, TypeOK
    <3>2. ASSUME NEW c \in Conns, WritePeerList(c) \/ PeerListFails(c) \/ AnnounceJoined(c)
          PROVE  phase[d] = "listing" /\ snap'[d] = snap[d]
      BY <3>2 DEF WritePeerList, PeerListFails, AnnounceJoined, TypeOK
    <3>3. ASSUME NEW c \in Conns, Remove(c)
          PROVE  phase[d] = "listing" /\ snap'[d] = snap[d]
      BY <3>3 DEF Remove, TypeOK
    <3>4. CASE UNCHANGED <<phase, snap>>
      BY <3>4
    <3> QED BY <1>3, <3>1, <3>2, <3>3, <3>4 DEF Next, Handler, vars, Deliver
  <2>2. p \in Peers /\ Backed(p)
    BY <2>1 DEF SnapshotIsBacked, Backed, TypeOK
  <2> QED BY <1>3, <2>2, BackedKept
<1> QED BY <1>1, <1>2, <1>3

\* A peer-list about to be written names no peer whose peer-left went out
\* before it: the promise of the comment on Hub.broadcastMu.
THEOREM ListIsBacked == Spec => []SnapshotIsBacked
<1>1. Init => SnapshotIsBacked
  BY DEF Init, SnapshotIsBacked
<1>2. TypeOK /\ SnapshotIsBacked /\ [Next]_vars => SnapshotIsBacked'
  BY BackedStep
<1> QED BY <1>1, <1>2, TypeCorrect, PTL DEF Spec

-----------------------------------------------------------------------------
(* Nobody is missing. *)

\* A peer-left on its way is of an identity one of whose connections is gone.
LeftOfGone ==
    \A f \in posted : f.kind = "left" => \E c \in Conns : owner[c] = f.about /\ phase[c] = "gone"

\* The connections of an identity, which are finitely many.
Owned(p) == {c \in Conns : owner[c] = p}

Countable == \A p \in Peers : IsFiniteSet(Owned(p))

\* The only connection of p has announced it.
Announced(p) ==
    /\ hub[p] # NoConn /\ phase[hub[p]] = "reading"
    /\ \A c \in Conns : owner[c] = p /\ phase[c] # "new" => c = hub[p]

Joined(p, d) == [kind |-> "joined", about |-> p, to |-> d]

\* Whoever takes its snapshot after that has p in it; whoever has written its
\* list by then is sent a peer-joined.
Informed(p, d) ==
    /\ phase[d] = "listing" => p \in snap[d]
    /\ (phase[d] \in {"listed", "reading"} /\ hub[owner[d]] = d) =>
           p \in view[d] \/ Joined(p, d) \in posted

InformedInv == \A p \in Peers, d \in Conns : Announced(p) /\ owner[d] # p => Informed(p, d)

LEMMA LeftStep == ASSUME TypeOK, LeftOfGone, [Next]_vars PROVE LeftOfGone'
<1> USE DEF LeftOfGone
<1>1. ASSUME NEW c \in Conns, NEW p \in Peers, Add(c, p) PROVE LeftOfGone'
  BY <1>1 DEF Add, TypeOK
<1>2. ASSUME NEW c \in Conns, TakeSnapshot(c) \/ WritePeerList(c) \/ PeerListFails(c)
      PROVE  LeftOfGone'
  BY <1>2 DEF TakeSnapshot, WritePeerList, PeerListFails, TypeOK
<1>3. ASSUME NEW c \in Conns, AnnounceJoined(c) PROVE LeftOfGone'
  <2>1. \A f \in BroadcastExcept("joined", owner[c]) : f.kind = "joined"
    BY DEF BroadcastExcept
  <2> QED BY <1>3, <2>1 DEF AnnounceJoined, TypeOK
<1>4. ASSUME NEW c \in Conns, AnnounceLeft(c) PROVE LeftOfGone'
  <2>1. \A f \in BroadcastExcept("left", owner[c]) : f.about = owner[c]
    BY DEF BroadcastExcept
  <2>2. owner' = owner /\ phase'[c] = "gone"
        /\ \A x \in Conns : phase[x] = "gone" => phase'[x] = "gone"
    BY <1>4 DEF AnnounceLeft, TypeOK
  <2> QED BY <1>4, <2>1, <2>2 DEF AnnounceLeft
<1>5. ASSUME NEW c \in Conns, Remove(c) PROVE LeftOfGone'
  <2>1. owner' = owner /\ posted' \subseteq posted
        /\ \A x \in Conns : phase[x] = "gone" => phase'[x] = "gone"
    BY <1>5 DEF Remove, TypeOK
  <2> QED BY <2>1
<1>6. ASSUME NEW f \in posted, Deliver(f) PROVE LeftOfGone'
  BY <1>6 DEF Deliver
<1>7. CASE UNCHANGED vars
  BY <1>7 DEF vars
<1> QED BY <1>1, <1>2, <1>3, <1>4, <1>5, <1>6, <1>7 DEF Next, Handler

LEMMA CountStep == ASSUME TypeOK, Countable, [Next]_vars PROVE Countable'
<1>1. CASE UNCHANGED owner
  BY <1>1 DEF Countable, Owned
<1>2. ASSUME NEW c \in Conns, NEW q \in Peers, Add(c, q) PROVE Countable'
  <2> SUFFICES ASSUME NEW p \in Peers PROVE IsFiniteSet(Owned(p)')
    BY DEF Countable
  <2>1. IsFiniteSet(Owned(p) \cup {c})
    BY FS_AddElement DEF Countable
  <2>2. Owned(p)' \subseteq Owned(p) \cup {c}
    BY <1>2 DEF Owned, Add, TypeOK
  <2> QED BY <2>1, <2>2, FS_Subset
<1> QED BY <1>1, <1>2 DEF Next, Handler, TakeSnapshot, WritePeerList, PeerListFails,
           AnnounceJoined, AnnounceLeft, Remove, Deliver, vars

\* No peer-left of a peer whose only connection has announced it.
LEMMA NoneLeft ==
    ASSUME TypeOK, LeftOfGone, NEW p \in Peers, Announced(p)
    PROVE  \A f \in posted : ~ (f.kind = "left" /\ f.about = p)
  BY DEF LeftOfGone, Announced

LEMMA InformedStep ==
    ASSUME TypeOK, LeftOfGone, InformedInv, [Next]_vars
    PROVE  InformedInv'
<1> SUFFICES ASSUME NEW p \in Peers, NEW d \in Conns, Announced(p)', owner'[d] # p
             PROVE  Informed(p, d)'
  BY DEF InformedInv
<1> USE ConstantsAssumption
<1>1. ASSUME NEW c \in Conns, NEW q \in Peers, Add(c, q) PROVE Informed(p, d)'
  <2>1. phase'[c] = "added" /\ owner'[c] = q /\ hub'[q] = c
    BY <1>1 DEF Add, TypeOK
  <2>2. \A x \in Conns \ {c} : owner'[x] = owner[x] /\ phase'[x] = phase[x]
    BY <1>1 DEF Add, TypeOK
  <2>3. \A r \in Peers \ {q} : hub'[r] = hub[r]
    BY <1>1 DEF Add, TypeOK
  <2>4. p # q
    BY <2>1 DEF Announced
  <2>5. hub[p] \in Conns /\ hub[p] # c
    BY <1>1, <2>3, <2>4 DEF Announced, Add, TypeOK
  <2>6. phase[c] = "new"
    BY <1>1 DEF Add
  <2>7. Announced(p)
    BY <2>2, <2>3, <2>4, <2>5, <2>6 DEF Announced
  <2>8. CASE d = c
    BY <2>1, <2>8 DEF Informed
  <2>9. CASE d # c
    <3>1. owner[d] # p /\ owner'[d] = owner[d] /\ phase'[d] = phase[d]
      BY <2>2, <2>9
    <3>2. Informed(p, d)
      BY <2>7, <3>1 DEF InformedInv
    <3>3. phase[d] \in {"listed", "reading"} /\ hub'[owner[d]] = d => hub[owner[d]] = d
      BY <2>1, <2>3, <2>9, <3>1 DEF TypeOK
    <3>4. snap' = snap /\ view' = view /\ posted' = posted
      BY <1>1 DEF Add
    <3> QED BY <3>1, <3>2, <3>3, <3>4 DEF Informed, Joined
  <2> QED BY <2>8, <2>9
<1>2. ASSUME NEW c \in Conns, TakeSnapshot(c) PROVE Informed(p, d)'
  <2>1. /\ owner' = owner /\ hub' = hub /\ view' = view /\ posted' = posted
        /\ phase'[c] = "listing" /\ snap'[c] = Snapshot(owner[c])
        /\ \A x \in Conns \ {c} : phase'[x] = phase[x] /\ snap'[x] = snap[x]
    BY <1>2 DEF TakeSnapshot, TypeOK
  <2>2. hub[p] # NoConn /\ hub[p] # c /\ hub[p] \in Conns
    BY <2>1 DEF Announced, TypeOK
  <2>3. Announced(p)
    BY <2>1, <2>2 DEF Announced
  <2>4. CASE d = c
    BY <2>1, <2>2, <2>4 DEF Informed, Snapshot
  <2>5. CASE d # c
    BY <2>1, <2>3, <2>5 DEF InformedInv, Informed, Joined
  <2> QED BY <2>4, <2>5
<1>3. ASSUME NEW c \in Conns, WritePeerList(c) PROVE Informed(p, d)'
  <2>1. /\ owner' = owner /\ hub' = hub /\ posted' = posted
        /\ phase[c] = "listing" /\ phase'[c] = "listed" /\ broadcastMu = c
        /\ \A x \in Conns \ {c} : phase'[x] = phase[x] /\ snap'[x] = snap[x]
        /\ owner[c] \in Peers /\ hub[owner[c]] \in Conns
        /\ view'[hub[owner[c]]] = snap[c]
        /\ \A x \in Conns \ {hub[owner[c]]} : view'[x] = view[x]
    BY <1>3 DEF WritePeerList, TypeOK
  <2>2. Announced(p)
    BY <2>1 DEF Announced, TypeOK
  <2>3. owner[hub[owner[c]]] = owner[c]
    BY <2>1 DEF TypeOK
  <2>4. CASE d = hub[owner[c]]
    <3>1. owner[c] # p /\ p \in snap[c]
      BY <2>1, <2>2, <2>3, <2>4 DEF InformedInv, Informed
    <3>2. phase'[d] # "listing"
      <4>1. d # c => phase[d] # "listing"
        BY <2>1 DEF TypeOK
      <4> QED BY <2>1, <4>1
    <3> QED BY <2>1, <2>4, <3>1, <3>2 DEF Informed
  <2>5. CASE d # hub[owner[c]]
    <3>1. Informed(p, d)
      BY <2>1, <2>2 DEF InformedInv
    <3>2. CASE d = c
      BY <2>1, <2>5, <3>2 DEF Informed
    <3>3. CASE d # c
      BY <2>1, <2>5, <3>1, <3>3 DEF Informed, Joined
    <3> QED BY <3>2, <3>3
  <2> QED BY <2>4, <2>5
<1>4. ASSUME NEW c \in Conns, PeerListFails(c) PROVE Informed(p, d)'
  <2>1. /\ owner' = owner /\ hub' = hub /\ posted' = posted /\ view' = view
        /\ phase'[c] = "failed"
        /\ \A x \in Conns \ {c} : phase'[x] = phase[x] /\ snap'[x] = snap[x]
    BY <1>4 DEF PeerListFails, TypeOK
  <2>2. Announced(p)
    BY <2>1 DEF Announced, TypeOK
  <2> QED BY <2>1, <2>2 DEF InformedInv, Informed, Joined
<1>5. ASSUME NEW c \in Conns, AnnounceJoined(c) PROVE Informed(p, d)'
  <2>1. /\ owner' = owner /\ hub' = hub /\ snap' = snap /\ view' = view
        /\ posted' = posted \cup BroadcastExcept("joined", owner[c])
        /\ phase[c] = "listed" /\ phase'[c] = "reading" /\ broadcastMu = c
        /\ \A x \in Conns \ {c} : phase'[x] = phase[x]
        /\ owner[c] \in Peers
    BY <1>5 DEF AnnounceJoined, TypeOK
  <2>2. CASE c = hub[p]
    <3>1. owner[c] = p /\ d # c
      BY <2>1, <2>2 DEF TypeOK
    <3>2. phase'[d] # "listing"
      BY <2>1, <3>1 DEF TypeOK
    <3>3. ASSUME phase'[d] \in {"listed", "reading"}, hub[owner[d]] = d
          PROVE  Joined(p, d) \in posted'
      <4>1. owner[d] \in Peers
        BY <2>1, <3>1, <3>3 DEF TypeOK
      <4>2. owner[d] \in Snapshot(p)
        BY <2>1, <3>3, <4>1 DEF Snapshot
      <4>3. Joined(p, d) \in BroadcastExcept("joined", p)
        BY <3>3, <4>2 DEF BroadcastExcept, Joined
      <4> QED BY <2>1, <3>1, <4>3
    <3> QED BY <2>1, <3>2, <3>3 DEF Informed, Joined
  <2>3. CASE c # hub[p]
    <3>1. Announced(p)
      BY <2>1, <2>3 DEF Announced, TypeOK
    <3>2. Informed(p, d)
      BY <2>1, <3>1 DEF InformedInv
    <3> QED BY <2>1, <3>2 DEF Informed, Joined
  <2> QED BY <2>2, <2>3
<1>6. ASSUME NEW c \in Conns, AnnounceLeft(c) PROVE Informed(p, d)'
  <2>1. /\ owner' = owner /\ hub' = hub /\ snap' = snap /\ view' = view
        /\ posted \subseteq posted' /\ phase'[c] = "gone"
        /\ \A x \in Conns \ {c} : phase'[x] = phase[x]
    BY <1>6 DEF AnnounceLeft, TypeOK
  <2>2. Announced(p)
    BY <2>1 DEF Announced, TypeOK
  <2>3. Informed(p, d)
    BY <2>1, <2>2 DEF InformedInv
  <2> QED BY <2>1, <2>3 DEF Informed, Joined
<1>7. ASSUME NEW c \in Conns, Remove(c) PROVE Informed(p, d)'
  <2>1. /\ owner' = owner /\ snap' = snap
        /\ posted' = {f \in posted : f.to # c}
        /\ phase[c] \in {"reading", "failed"} /\ phase'[c] \in {"removed", "gone"}
        /\ \A x \in Conns \ {c} : phase'[x] = phase[x] /\ view'[x] = view[x]
        /\ \A r \in Peers : hub'[r] \in {hub[r], NoConn}
    BY <1>7 DEF Remove, TypeOK
  <2>2. Announced(p)
    BY <2>1 DEF Announced, TypeOK
  <2>3. CASE d = c
    BY <2>1, <2>3 DEF Informed
  <2>4. CASE d # c
    <3>1. Informed(p, d)
      BY <2>1, <2>2 DEF InformedInv
    <3>2. phase[d] \in {"listed", "reading"} => owner[d] \in Peers
      BY DEF TypeOK
    <3>3. Joined(p, d) \in posted => Joined(p, d) \in posted'
      BY <2>1, <2>4 DEF Joined
    <3> QED BY <2>1, <2>4, <3>1, <3>2, <3>3 DEF Informed, Joined
  <2> QED BY <2>3, <2>4
<1>8. ASSUME NEW f \in posted, Deliver(f) PROVE Informed(p, d)'
  <2>1. /\ owner' = owner /\ hub' = hub /\ snap' = snap /\ phase' = phase
        /\ posted' = posted \ {f}
    BY <1>8 DEF Deliver
  <2>2. Announced(p)
    BY <2>1 DEF Announced
  <2>3. Informed(p, d)
    BY <2>1, <2>2 DEF InformedInv
  <2>4. f.kind \in {"joined", "left"} /\ f \in Frames
    BY DEF TypeOK, Frames
  <2>5. ~ (f.kind = "left" /\ f.about = p)
    BY <2>2, NoneLeft
  <2>6. view'[d] = IF f.to = d THEN (IF f.kind = "joined" THEN view[d] \cup {f.about}
                                                         ELSE view[d] \ {f.about})
                              ELSE view[d]
    BY <1>8 DEF Deliver, TypeOK
  <2>7. p \in view[d] => p \in view'[d]
    <3>1. f.kind = "joined" \/ f.about # p
      BY <2>4, <2>5
    <3>2. CASE f.to = d /\ f.kind = "joined"
      BY <2>6, <3>2
    <3>3. CASE f.to = d /\ f.kind # "joined"
      BY <2>6, <3>1, <3>3
    <3>4. CASE f.to # d
      BY <2>6, <3>4
    <3> QED BY <3>2, <3>3, <3>4
  <2>8. f = Joined(p, d) => p \in view'[d]
    BY <2>6 DEF Joined
  <2> QED BY <2>1, <2>3, <2>7, <2>8 DEF Informed, Joined
<1>9. CASE UNCHANGED vars
  BY <1>9 DEF vars, InformedInv, Announced, Informed, Joined
<1> QED BY <1>1, <1>2, <1>3, <1>4, <1>5, <1>6, <1>7, <1>8, <1>9 DEF Next, Handler

\* A peer that connected once and has been announced is shown by everyone
\* whose own join sequence is over: it was in the snapshot, or the broadcast
\* found the other, because both happen under Hub.broadcastMu.
THEOREM EveryoneShown == Spec => []NobodyMissing
<1>1. Init => LeftOfGone /\ Countable /\ InformedInv
  <2>1. Init => Countable
    <3> SUFFICES ASSUME Init, NEW p \in Peers PROVE IsFiniteSet(Owned(p))
      BY DEF Countable
    <3>1. Owned(p) = {}
      BY ConstantsAssumption DEF Init, Owned
    <3> QED BY <3>1, FS_EmptySet
  <2> QED BY <2>1 DEF Init, LeftOfGone, InformedInv, Announced
<1>2. TypeOK /\ LeftOfGone /\ Countable /\ InformedInv /\ [Next]_vars
         => (LeftOfGone /\ Countable /\ InformedInv)'
  BY LeftStep, CountStep, InformedStep
<1>3. TypeOK /\ Countable /\ InformedInv => NobodyMissing
  <2> SUFFICES ASSUME TypeOK, Countable, InformedInv, NEW p \in Peers, NEW d \in Conns,
                      ConnectedOnce(p), hub[p] # NoConn, phase[hub[p]] = "reading",
                      Settled(d, p), owner[d] # p
               PROVE  p \in view[d]
    BY DEF NobodyMissing
  <2>1. hub[p] \in Owned(p)
    BY DEF Owned, TypeOK
  <2>2. IsFiniteSet(Owned(p)) /\ Cardinality(Owned(p)) = 1
    BY DEF Countable, ConnectedOnce, Owned
  <2>3. PICK x : Owned(p) = {x}
    BY <2>2, FS_Singleton
  <2>4. Announced(p)
    BY <2>1, <2>3 DEF Announced, Owned
  <2>5. Informed(p, d)
    BY <2>4 DEF InformedInv
  <2>6. Joined(p, d) \notin posted
    BY DEF Settled, Joined
  <2> QED BY <2>5, <2>6 DEF Informed, Settled
<1> QED BY <1>1, <1>2, <1>3, TypeCorrect, PTL DEF Spec
=============================================================================
