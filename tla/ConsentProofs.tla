---------------------------- MODULE ConsentProofs ----------------------------
(***************************************************************************)
(* What holds of the portal's friendship view for any number of peers,     *)
(* connections and frames.  Whatever the relay says, session keys are kept *)
(* for friends only, and invites are on show only while open; and with the *)
(* first peer that connects, the page agrees with the relay at rest.       *)
(***************************************************************************)
EXTENDS Consent, SequenceTheorems, TLAPS

\* Every step of the others and of the relay leaves the page as it is.
LEMMA ElsewhereSteps ==
    ASSUME Others \/ RelayReads
    PROVE  UNCHANGED <<pageVars, viewVars>> /\ toRelay' \in {toRelay, Tail(toRelay)}
           /\ (toRelay' = toRelay \/ toRelay # <<>>)
<1>1. CASE Others
  BY <1>1 DEF Others, TheyJoin, TheyLeave, TheyAreGone, TheyDirect
<1>2. CASE RelayReads
  BY <1>2 DEF RelayReads
<1> QED
  BY <1>1, <1>2

\* The two invariants, each inductive by itself.
Kept == KeysOfFriendsOnly /\ InvitesAreOpen

LEMMA InitKept == Init => Kept
  BY DEF Init, Kept, KeysOfFriendsOnly, InvitesAreOpen

LEMMA NextKept == ASSUME Kept, [Next]_vars PROVE Kept'
<1> USE DEF Kept, KeysOfFriendsOnly, InvitesAreOpen
<1>1. CASE Others \/ RelayReads
  BY <1>1, ElsewhereSteps DEF pageVars
<1>2. ASSUME NEW p \in Them, PeerJoined(p) PROVE Kept'
  BY <1>2 DEF PeerJoined
<1>3. ASSUME NEW p \in Them, PeerLeft(p) PROVE Kept'
  BY <1>3 DEF PeerLeft
<1>4. ASSUME NEW p \in Them, StaleNotice(p) PROVE Kept'
  BY <1>4 DEF StaleNotice, pageVars
<1>5. ASSUME NEW p \in Them, InviteFrom(p) PROVE Kept'
  BY <1>5 DEF InviteFrom, Current
<1>6. ASSUME NEW p \in Them, AcceptFrom(p) PROVE Kept'
  BY <1>6 DEF AcceptFrom
<1>7. ASSUME NEW p \in Them, Answered(p) PROVE Kept'
  BY <1>7 DEF Answered
<1>8. ASSUME NEW p \in Them, SendInvite(p) \/ SendAccept(p) \/ SendReject(p) PROVE Kept'
  BY <1>8 DEF SendInvite, SendAccept, SendReject, Click
<1>9. CASE Render \/ SyncPeersRef
  BY <1>9 DEF Render, SyncPeersRef, pageVars
<1>10. CASE UNCHANGED vars
  BY <1>10 DEF vars, pageVars
<1> QED
  BY <1>1, <1>2, <1>3, <1>4, <1>5, <1>6, <1>7, <1>8, <1>9, <1>10 DEF Next, OnMessage, User

LEMMA AlwaysKept == Spec => []Kept
  BY InitKept, NextKept, PTL DEF Spec

\* No session key outlives the friendship it was derived for, whichever of
\* the handlers of App.tsx that make, end and undo friendships ran, and
\* however far the ref they look peers up in lags behind.
THEOREM KeysOfFriends == Spec => []KeysOfFriendsOnly
  BY AlwaysKept, PTL DEF Kept

\* No invite stays on show of a peer that was seen leaving or is a friend:
\* the stale-notification gate of App.tsx against frames in any order.
THEOREM InvitesOpen == Spec => []InvitesAreOpen
  BY AlwaysKept, PTL DEF Kept
-----------------------------------------------------------------------------
LEMMA InitType == Init => TypeOK
  BY DEF Init, TypeOK, View

LEMMA NextType == ASSUME TypeOK, [Next]_vars PROVE TypeOK'
<1> USE DEF TypeOK
<1>v. View' = [peers |-> peers', invitesIn |-> invitesIn', invitesOut |-> invitesOut',
               friends |-> friendsRef']
  BY DEF View
<1>1. CASE Others \/ RelayReads
  <2>1. toRelay' \in Seq(Directives)
    BY <1>1, ElsewhereSteps, HeadTailProperties
  <2> QED
    BY <1>1, <2>1, ElsewhereSteps DEF pageVars, viewVars
<1>2. ASSUME NEW p \in Them,
             PeerJoined(p) \/ PeerLeft(p) \/ InviteFrom(p) \/ AcceptFrom(p) \/ Answered(p)
      PROVE  TypeOK'
  BY <1>2 DEF PeerJoined, PeerLeft, InviteFrom, AcceptFrom, Answered, Receive, viewVars
<1>3. ASSUME NEW p \in Them, StaleNotice(p) PROVE TypeOK'
  BY <1>3 DEF StaleNotice, Receive, pageVars, viewVars
<1>4. ASSUME NEW p \in Them, SendInvite(p) \/ SendAccept(p) \/ SendReject(p) PROVE TypeOK'
  <2>1. PICK d \in Directives : Click(d)
    BY <1>4 DEF SendInvite, SendAccept, SendReject, Directives
  <2>2. toRelay' \in Seq(Directives)
    BY <2>1, AppendProperties DEF Click
  <2>3. /\ peers' \subseteq Them /\ peersRef' \subseteq Them /\ seenLeft' \subseteq Them
        /\ shown' = View'
    BY <2>1 DEF Click
  <2>4. /\ invitesIn' \subseteq Them /\ invitesOut' \subseteq Them
        /\ friendsRef' \subseteq Them /\ sessionCache' \subseteq Them
    BY <1>4 DEF SendInvite, SendAccept, SendReject
  <2> QED
    BY <2>2, <2>3, <2>4, <1>v
<1>5. CASE Render
  BY <1>5 DEF Render, pageVars, View
<1>6. CASE SyncPeersRef
  BY <1>6 DEF SyncPeersRef, pageVars
<1>7. CASE UNCHANGED vars
  BY <1>7 DEF vars, pageVars, viewVars
<1> QED
  BY <1>1, <1>2, <1>3, <1>4, <1>5, <1>6, <1>7 DEF Next, OnMessage, User

\* The page's directory, invites, friends and keys are sets of peers, and it
\* sends directives about peers only.
THEOREM TypeCorrect == Spec => []TypeOK
  BY InitType, NextType, PTL DEF Spec
-----------------------------------------------------------------------------
(* Agreement of page and relay: what the relay holds about the first peer, *)
(* what is on its way either way and what the page shows fit together.     *)

\* A directive that waits somewhere in the queue s; one at most that does
\* among those of S; one that is never behind another.
Holds(s, x) == \E i \in 1..Len(s) : s[i] = x

HoldsOnce(s, S) == \A i, j \in 1..Len(s) : s[i] \in S /\ s[j] \in S => i = j

HoldsFirst(s, x, y) == \A i, j \in 1..Len(s) : s[i] = x /\ s[j] = y => i < j

LEMMA HoldsAppend ==
    ASSUME NEW D, NEW s \in Seq(D), NEW d \in D
    PROVE  /\ \A x : Holds(Append(s, d), x) <=> Holds(s, x) \/ x = d
           /\ \A S : HoldsOnce(s, S) /\ (d \in S => \A x \in S : ~ Holds(s, x))
                        => HoldsOnce(Append(s, d), S)
           /\ \A x, y : HoldsFirst(s, x, y) /\ (d = x => d # y /\ ~ Holds(s, y))
                        => HoldsFirst(Append(s, d), x, y)
<1> DEFINE t == Append(s, d)
           n == Len(s)
<1>1. /\ n \in Nat /\ Len(t) = n + 1 /\ t[n + 1] = d
      /\ \A i \in 1..n : t[i] = s[i]
  BY AppendProperties, LenProperties
<1>2. 1..n + 1 = 1..n \cup {n + 1}
  BY <1>1
<1> HIDE DEF t, n
<1>3. \A x : Holds(t, x) <=> (\E i \in 1..n : s[i] = x) \/ x = d
  BY <1>1, <1>2 DEF Holds
<1>4. ASSUME NEW S, HoldsOnce(s, S), d \in S => \A x \in S : ~ Holds(s, x)
      PROVE  HoldsOnce(t, S)
  <2> SUFFICES ASSUME NEW i \in 1..n + 1, NEW j \in 1..n + 1, t[i] \in S, t[j] \in S
               PROVE  i = j
    BY <1>1 DEF HoldsOnce
  <2>1. CASE i \in 1..n /\ j \in 1..n
    BY <2>1, <1>1, <1>4 DEF HoldsOnce, n
  <2>2. CASE i = n + 1 /\ j \in 1..n
    BY <2>2, <1>1, <1>4 DEF Holds, n
  <2>3. CASE j = n + 1 /\ i \in 1..n
    BY <2>3, <1>1, <1>4 DEF Holds, n
  <2> QED
    BY <2>1, <2>2, <2>3, <1>2
<1>5. ASSUME NEW x, NEW y, HoldsFirst(s, x, y), d = x => d # y /\ ~ Holds(s, y)
      PROVE  HoldsFirst(t, x, y)
  <2> SUFFICES ASSUME NEW i \in 1..n + 1, NEW j \in 1..n + 1, t[i] = x, t[j] = y
               PROVE  i < j
    BY <1>1 DEF HoldsFirst
  <2>1. CASE i \in 1..n /\ j \in 1..n
    BY <2>1, <1>1, <1>5 DEF HoldsFirst, n
  <2>2. CASE i = n + 1
    <3>1. j # n + 1
      BY <2>2, <1>1, <1>5
    <3>2. j \in 1..n /\ s[j] = y
      BY <3>1, <1>1, <1>2
    <3> QED BY <3>2, <2>2, <1>1, <1>5 DEF Holds, n
  <2>3. CASE i \in 1..n /\ j = n + 1
    BY <2>3, <1>1
  <2> QED
    BY <2>1, <2>2, <2>3, <1>2
<1> QED
  BY <1>3, <1>4, <1>5 DEF t, n, Holds

LEMMA HoldsTail ==
    ASSUME NEW D, NEW s \in Seq(D), s # <<>>
    PROVE  /\ Head(s) \in D /\ Tail(s) \in Seq(D)
           /\ \A x : Holds(s, x) <=> x = Head(s) \/ Holds(Tail(s), x)
           /\ \A S : HoldsOnce(s, S) => HoldsOnce(Tail(s), S)
           /\ \A S : HoldsOnce(s, S) /\ Head(s) \in S => \A x \in S : ~ Holds(Tail(s), x)
           /\ \A x, y : HoldsFirst(s, x, y) => HoldsFirst(Tail(s), x, y)
           /\ \A x : HoldsFirst(s, x, Head(s)) => ~ Holds(Tail(s), x)
<1> DEFINE t == Tail(s)
           n == Len(s)
<1>1. /\ n \in Nat /\ n > 0 /\ Len(t) = n - 1
      /\ s[1] = Head(s) /\ \A i \in 1..n - 1 : t[i] = s[i + 1]
      /\ t \in Seq(D) /\ Head(s) \in D
  BY HeadTailProperties, LenProperties, EmptySeq
<1> HIDE DEF t, n
<1>2. \A i \in 1..n - 1 : i + 1 \in 1..n /\ i + 1 # 1
  BY <1>1
<1>3. \A i \in 1..n : i = 1 \/ \E k \in 1..n - 1 : i = k + 1
  <2> TAKE i \in 1..n
  <2>1. i # 1 => i - 1 \in 1..n - 1 /\ i = (i - 1) + 1
    BY <1>1
  <2> QED BY <2>1
<1>4. \A x : Holds(t, x) <=> \E i \in 1..n - 1 : s[i + 1] = x
  BY <1>1 DEF Holds
<1>5. \A x : Holds(s, x) <=> \E i \in 1..n : s[i] = x
  BY DEF Holds, n
<1>6. \A x : Holds(s, x) <=> x = Head(s) \/ Holds(t, x)
  <2> TAKE x
  <2>1. ASSUME Holds(s, x) PROVE x = Head(s) \/ Holds(t, x)
    <3>1. PICK i \in 1..n : s[i] = x
      BY <2>1, <1>5
    <3> QED BY <3>1, <1>1, <1>3, <1>4
  <2>2. ASSUME Holds(t, x) PROVE Holds(s, x)
    BY <2>2, <1>2, <1>4, <1>5
  <2>3. Holds(s, Head(s))
    <3>1. 1 \in 1..n BY <1>1
    <3> QED BY <3>1, <1>1, <1>5
  <2> QED BY <2>1, <2>2, <2>3
<1>7. ASSUME NEW S, HoldsOnce(s, S) PROVE HoldsOnce(t, S)
  <2> SUFFICES ASSUME NEW i \in 1..n - 1, NEW j \in 1..n - 1, t[i] \in S, t[j] \in S
               PROVE  i = j
    BY <1>1 DEF HoldsOnce
  <2>1. i + 1 = j + 1
    BY <1>1, <1>2, <1>7 DEF HoldsOnce, n
  <2> QED BY <2>1
<1>8. ASSUME NEW S, HoldsOnce(s, S), Head(s) \in S, NEW x \in S, Holds(t, x) PROVE FALSE
  <2>1. PICK i \in 1..n - 1 : s[i + 1] = x
    BY <1>8, <1>4
  <2>2. 1 \in 1..n /\ i + 1 \in 1..n /\ i + 1 # 1
    BY <1>1, <1>2
  <2> QED BY <2>1, <2>2, <1>1, <1>8 DEF HoldsOnce, n
<1>9. ASSUME NEW x, NEW y, HoldsFirst(s, x, y) PROVE HoldsFirst(t, x, y)
  <2> SUFFICES ASSUME NEW i \in 1..n - 1, NEW j \in 1..n - 1, t[i] = x, t[j] = y
               PROVE  i < j
    BY <1>1 DEF HoldsFirst
  <2>1. i + 1 < j + 1
    BY <1>1, <1>2, <1>9 DEF HoldsFirst, n
  <2> QED BY <2>1
<1>10. ASSUME NEW x, HoldsFirst(s, x, Head(s)), Holds(t, x) PROVE FALSE
  <2>1. PICK i \in 1..n - 1 : s[i + 1] = x
    BY <1>10, <1>4
  <2>2. 1 \in 1..n /\ i + 1 \in 1..n /\ ~ (i + 1 < 1)
    BY <1>1, <1>2
  <2> QED BY <2>1, <2>2, <1>1, <1>10 DEF HoldsFirst, n
<1> QED
  BY <1>1, <1>6, <1>7, <1>8, <1>9, <1>10 DEF t

\* The bucket an invite of connection c to t goes to; the invite of the
\* peer, the invite of the page, and the friendship.
Own(c, t) == <<session[c].ip, t>>

Fr(p)  == {Me, p} \in friends
In(p)  == pairs[Own(hub[p], Me)].active = p
Out(p) == pairs[Own(MyConn, p)].active = Me

Flies(k, p) == <<k, p>> \in air
Asked(k, p) == Holds(toRelay, <<k, p>>)

\* p is the only other peer there is, over one connection, and each of the
\* two has at most one invite with the relay, in the bucket of its address.
Alone(p) ==
    /\ hub[Me] = MyConn /\ session[MyConn].id = Me /\ session[MyConn].ip \in Addrs
    /\ hub[p] \in Conns \ {MyConn} /\ session[hub[p]].id = p /\ session[hub[p]].ip \in Addrs
    /\ \A q \in Them \ {p} : hub[q] = NoConn
    /\ \A c \in Conns \ {MyConn, hub[p]} : session[c] = Relay!NoSession
    /\ leaving = {}
    /\ pairs \in [Relay!Buckets -> Relay!PairStates]
    /\ \A b \in Relay!Buckets : b[2] \in {Me, p} => pairs[b].queued = <<>>
    /\ \A b \in Relay!Buckets :
          b[2] = Me => pairs[b].active = NoPeer \/ (pairs[b].active = p /\ b = Own(hub[p], Me))
    /\ \A b \in Relay!Buckets :
          b[2] = p => pairs[b].active = NoPeer \/ (pairs[b].active = Me /\ b = Own(MyConn, p))

\* One of the two, s over connection c, and the other, t over d.
Side(p, s, c, t, d) ==
    \/ s = Me /\ c = MyConn /\ t = p /\ d = hub[p]
    \/ s = p /\ c = hub[p] /\ t = Me /\ d = MyConn

LEMMA SideFacts ==
    ASSUME NEW p \in Them, Alone(p), NEW s, NEW c, NEW t, NEW d, Side(p, s, c, t, d)
    PROVE  /\ s \in Them \cup {Me} /\ t \in Them \cup {Me} /\ s # t /\ s # NoPeer /\ t # NoPeer
           /\ session[c].id = s /\ hub[s] = c /\ hub[t] = d /\ hub[t] # NoConn
           /\ \A r \in Them \cup {Me} : r # s /\ r # t => hub[r] = NoConn
           /\ Own(c, t) \in Relay!Buckets /\ Own(d, s) \in Relay!Buckets
           /\ Own(c, t)[2] = t /\ Own(d, s)[2] = s /\ Own(c, t) # Own(d, s)
           /\ \A b \in Relay!Buckets : b[2] \in {s, t} => pairs[b].queued = <<>>
           /\ \A b \in Relay!Buckets :
                b[2] = t => pairs[b].active = NoPeer \/ (pairs[b].active = s /\ b = Own(c, t))
           /\ \A b \in Relay!Buckets :
                b[2] = s => pairs[b].active = NoPeer \/ (pairs[b].active = t /\ b = Own(d, s))
           /\ {s, t} = {Me, p}
<1>1. CASE s = Me /\ c = MyConn /\ t = p /\ d = hub[p]
  BY <1>1, ConsentAssumption DEF Alone, Own, Relay!Buckets
<1>2. CASE s = p /\ c = hub[p] /\ t = Me /\ d = MyConn
  BY <1>2, ConsentAssumption DEF Alone, Own, Relay!Buckets
<1> QED BY <1>1, <1>2 DEF Side

\* What stays as it is about who is there.
Placed == UNCHANGED <<hub, session, leaving>>

LEMMA AloneKept ==
    ASSUME NEW p \in Them, Alone(p), Placed,
           pairs' \in [Relay!Buckets -> Relay!PairStates],
           NEW s, NEW c, NEW t, NEW d, Side(p, s, c, t, d),
           \A b \in Relay!Buckets : b[2] \in {s, t} => pairs'[b].queued = <<>>,
           \A b \in Relay!Buckets \ {Own(c, t)} :
              pairs'[b].active \in {pairs[b].active, NoPeer},
           pairs'[Own(c, t)].active \in {NoPeer, s}
    PROVE  Alone(p)'
<1>1. Own(hub[p], Me)' = Own(hub[p], Me) /\ Own(MyConn, p)' = Own(MyConn, p)
  BY DEF Own, Placed
<1>2. \/ s = Me /\ c = MyConn /\ t = p /\ d = hub[p]
      \/ s = p /\ c = hub[p] /\ t = Me /\ d = MyConn
  BY DEF Side
<1>3. {s, t} = {Me, p} /\ Own(c, t)[2] = t /\ Own(d, s)[2] = s /\ s # t
  BY <1>2, ConsentAssumption DEF Own
<1>4. \A b \in Relay!Buckets :
         b[2] = Me => pairs'[b].active = NoPeer \/ (pairs'[b].active = p /\ b = Own(hub[p], Me))
  BY <1>2, <1>3 DEF Alone
<1>5. \A b \in Relay!Buckets :
         b[2] = p => pairs'[b].active = NoPeer \/ (pairs'[b].active = Me /\ b = Own(MyConn, p))
  BY <1>2, <1>3 DEF Alone
<1>6. \A b \in Relay!Buckets : b[2] \in {Me, p} => pairs'[b].queued = <<>>
  BY <1>2
<1> QED
  BY <1>1, <1>4, <1>5, <1>6 DEF Alone, Placed

LEMMA InviteEffect ==
    ASSUME NEW p \in Them, Alone(p), NEW s, NEW c, NEW t, NEW d, Side(p, s, c, t, d),
           NEW r \in Them \cup {Me}, Relay!HandleInvite(c, r)
    PROVE  /\ r = t /\ ~ Fr(p) /\ pairs[Own(c, t)].active = NoPeer
           /\ Placed /\ friends' = friends /\ Alone(p)'
           /\ pairs'[Own(d, s)].active = pairs[Own(d, s)].active
           /\ \/ /\ pairs'[Own(c, t)].active = NoPeer
                 /\ sent' = {Relay!Notice("invite-auto-rejected", s, t)}
              \/ /\ pairs'[Own(c, t)].active = s
                 /\ sent' = {Relay!Notice("invite-from", t, s)}
<1>1. /\ session[c].id = s /\ s # t /\ s # NoPeer /\ {s, t} = {Me, p}
      /\ \A q \in Them \cup {Me} : q # s /\ q # t => hub[q] = NoConn
      /\ Own(c, t) \in Relay!Buckets /\ Own(d, s) \in Relay!Buckets /\ Own(c, t) # Own(d, s)
      /\ Own(c, t)[2] = t
      /\ \A b \in Relay!Buckets : b[2] \in {s, t} => pairs[b].queued = <<>>
      /\ \A b \in Relay!Buckets :
           b[2] = t => pairs[b].active = NoPeer \/ (pairs[b].active = s /\ b = Own(c, t))
  BY SideFacts
<1>2. r # s /\ hub[r] # NoConn /\ {s, r} \notin friends /\ ~ Relay!InFlight(s, r)
  BY <1>1 DEF Relay!HandleInvite, Relay!MayInvite
<1>3. r = t
  BY <1>1, <1>2
<1>4. session[c].ip \in Addrs /\ <<session[c].ip, t>> = Own(c, t)
  BY DEF Side, Alone, Own
<1>5. pairs[Own(c, t)].active = NoPeer
  BY <1>1, <1>2, <1>3, <1>4 DEF Relay!InFlight
<1>6. /\ Placed /\ friends' = friends
      /\ \/ pairs' = pairs /\ sent' = {Relay!Notice("invite-auto-rejected", s, t)}
         \/ /\ pairs' = [pairs EXCEPT ![Own(c, t)].active = s]
            /\ sent' = {Relay!Notice("invite-from", t, s)}
  BY <1>1, <1>3, <1>4, <1>5 DEF Relay!HandleInvite, Placed
<1>7. pairs \in [Relay!Buckets -> Relay!PairStates] /\ s \in Them \cup {Me}
  BY SideFacts DEF Alone
<1>8. /\ pairs' \in [Relay!Buckets -> Relay!PairStates]
      /\ \A b \in Relay!Buckets \ {Own(c, t)} : pairs'[b] = pairs[b]
      /\ pairs'[Own(c, t)].queued = pairs[Own(c, t)].queued
      /\ \/ /\ pairs'[Own(c, t)].active = NoPeer
            /\ sent' = {Relay!Notice("invite-auto-rejected", s, t)}
         \/ /\ pairs'[Own(c, t)].active = s
            /\ sent' = {Relay!Notice("invite-from", t, s)}
  <2>1. CASE pairs' = pairs /\ sent' = {Relay!Notice("invite-auto-rejected", s, t)}
    BY <2>1, <1>5, <1>7
  <2>2. CASE /\ pairs' = [pairs EXCEPT ![Own(c, t)].active = s]
             /\ sent' = {Relay!Notice("invite-from", t, s)}
    <3> DEFINE st == [pairs[Own(c, t)] EXCEPT !.active = s]
    <3>1. st \in Relay!PairStates /\ st.active = s /\ st.queued = pairs[Own(c, t)].queued
      BY <1>1, <1>7 DEF Relay!PairStates
    <3>2. pairs' = [pairs EXCEPT ![Own(c, t)] = st]
      BY <2>2
    <3> QED BY <2>2, <3>1, <3>2, <1>1, <1>7
  <2> QED BY <2>1, <2>2, <1>6
<1>9. Alone(p)'
  <2>1. \A b \in Relay!Buckets : b[2] \in {s, t} => pairs'[b].queued = <<>>
    BY <1>1, <1>8
  <2>2. /\ \A b \in Relay!Buckets \ {Own(c, t)} : pairs'[b].active \in {pairs[b].active, NoPeer}
        /\ pairs'[Own(c, t)].active \in {NoPeer, s}
    BY <1>8
  <2> QED
    BY <2>1, <2>2, <1>6, <1>8, AloneKept
<1> QED
  BY <1>1, <1>2, <1>3, <1>5, <1>6, <1>8, <1>9 DEF Fr

\* An invite that is cleared with nothing queued behind it.
LEMMA Cleared ==
    ASSUME NEW st \in Relay!PairStates, st.queued = <<>>, NEW r, NEW fs
    PROVE  /\ Relay!PromoteNext(st, r, fs) \in Relay!PairStates
           /\ Relay!PromoteNext(st, r, fs).active = NoPeer
           /\ Relay!PromoteNext(st, r, fs).queued = <<>>
<1>1. Relay!Promotable(st.queued, r, fs) = {}
  BY DEF Relay!Promotable
<1>2. Relay!PromoteNext(st, r, fs) = [st EXCEPT !.active = NoPeer, !.queued = <<>>]
  BY <1>1 DEF Relay!PromoteNext
<1> QED
  BY <1>2, EmptySeq DEF Relay!PairStates

LEMMA AcceptEffect ==
    ASSUME NEW p \in Them, Alone(p), NEW s, NEW c, NEW t, NEW d, Side(p, s, c, t, d),
           NEW o \in Them \cup {Me}, Relay!HandleAccept(c, o)
    PROVE  /\ o = t /\ pairs[Own(d, s)].active = t
           /\ Placed /\ Alone(p)' /\ Fr(p)'
           /\ pairs'[Own(c, t)].active = NoPeer /\ pairs'[Own(d, s)].active = NoPeer
           /\ sent' = {Relay!Notice("accept-from", t, s)}
<1>1. /\ session[c].id = s /\ s # t /\ s # NoPeer /\ t # NoPeer /\ {s, t} = {Me, p}
      /\ \A q \in Them \cup {Me} : q # s /\ q # t => hub[q] = NoConn
      /\ Own(c, t) \in Relay!Buckets /\ Own(d, s) \in Relay!Buckets /\ Own(c, t) # Own(d, s)
      /\ Own(c, t)[2] = t /\ Own(d, s)[2] = s
      /\ \A b \in Relay!Buckets : b[2] \in {s, t} => pairs[b].queued = <<>>
  BY SideFacts
<1>1a. \A b \in Relay!Buckets :
           b[2] = t => pairs[b].active = NoPeer \/ (pairs[b].active = s /\ b = Own(c, t))
  BY SideFacts
<1>1b. \A b \in Relay!Buckets :
           b[2] = s => pairs[b].active = NoPeer \/ (pairs[b].active = t /\ b = Own(d, s))
  BY SideFacts
<1>2. PICK b \in Relay!Buckets :
         /\ Relay!Answerable(b, s, o)
         /\ friends' = friends \cup {{s, o}}
         /\ \E moot \in Relay!Settled(b, s, o) :
               /\ pairs' = [k \in Relay!Buckets |->
                               IF k \in moot
                               THEN Relay!PromoteNext(pairs[k], k[2], friends')
                               ELSE pairs[k]]
               /\ sent' = {Relay!Notice("accept-from", o, s)} \cup
                          UNION {Relay!PromotionNotices(pairs'[k], k[2]) : k \in moot}
  BY <1>1 DEF Relay!HandleAccept
<1>3. b[2] = s /\ hub[o] # NoConn /\ pairs[b].active = o
  BY <1>2 DEF Relay!Answerable
<1>4. o # NoPeer
  BY ConsentAssumption
<1>5. o = t /\ b = Own(d, s)
  BY <1>1b, <1>3, <1>4
<1>6. PICK moot \in Relay!Settled(b, s, t) :
         /\ pairs' = [k \in Relay!Buckets |->
                         IF k \in moot
                         THEN Relay!PromoteNext(pairs[k], k[2], friends')
                         ELSE pairs[k]]
         /\ sent' = {Relay!Notice("accept-from", t, s)} \cup
                    UNION {Relay!PromotionNotices(pairs'[k], k[2]) : k \in moot}
  BY <1>2, <1>5
<1>7. \A k \in Relay!Reciprocal(s, t) : k = Own(c, t)
  BY <1>1, <1>1a DEF Relay!Reciprocal
<1>8. /\ moot \subseteq {Own(c, t), Own(d, s)} /\ Own(d, s) \in moot
      /\ Own(c, t) \notin moot => pairs[Own(c, t)].active = NoPeer
  <2>1. CASE Relay!Reciprocal(s, t) = {}
    <3>1. moot = {b}
      BY <2>1, <1>6 DEF Relay!Settled
    <3>2. pairs[Own(c, t)].active # s
      BY <2>1, <1>1 DEF Relay!Reciprocal
    <3> QED BY <3>1, <3>2, <1>1, <1>1a, <1>5
  <2>2. CASE Relay!Reciprocal(s, t) # {}
    <3>1. PICK k \in Relay!Reciprocal(s, t) : moot = {b, k}
      BY <2>2, <1>6 DEF Relay!Settled
    <3> QED BY <3>1, <1>5, <1>7
  <2> QED BY <2>1, <2>2
<1>9. pairs \in [Relay!Buckets -> Relay!PairStates]
  BY DEF Alone
<1>10. \A k \in moot : /\ k \in Relay!Buckets /\ k[2] \in {s, t}
                       /\ pairs[k] \in Relay!PairStates /\ pairs[k].queued = <<>>
  BY <1>1, <1>8, <1>9
<1>11. \A k \in moot : /\ pairs'[k] \in Relay!PairStates
                       /\ pairs'[k].active = NoPeer /\ pairs'[k].queued = <<>>
  BY <1>6, <1>10, Cleared
<1>12. \A k \in Relay!Buckets \ moot : pairs'[k] = pairs[k]
  BY <1>6
<1>13. pairs' \in [Relay!Buckets -> Relay!PairStates]
  <2>1. \A k \in Relay!Buckets : pairs'[k] \in Relay!PairStates
    BY <1>9, <1>11, <1>12
  <2> QED BY <2>1, <1>6
<1>14. sent' = {Relay!Notice("accept-from", t, s)}
  <2>1. \A k \in moot : Relay!PromotionNotices(pairs'[k], k[2]) = {}
    BY <1>11 DEF Relay!PromotionNotices
  <2> QED BY <2>1, <1>6
<1>15. Placed
  BY DEF Relay!HandleAccept, Placed
<1>16. pairs'[Own(c, t)].active = NoPeer /\ pairs'[Own(d, s)].active = NoPeer
  BY <1>1, <1>8, <1>11, <1>12
<1>17. Alone(p)'
  <2>1. \A k \in Relay!Buckets : k[2] \in {s, t} => pairs'[k].queued = <<>>
    BY <1>1, <1>11, <1>12
  <2>2. /\ \A k \in Relay!Buckets \ {Own(c, t)} : pairs'[k].active \in {pairs[k].active, NoPeer}
        /\ pairs'[Own(c, t)].active \in {NoPeer, s}
    BY <1>11, <1>12, <1>16
  <2> QED
    BY <2>1, <2>2, <1>13, <1>15, AloneKept
<1>18. Fr(p)'
  BY <1>1, <1>2, <1>5 DEF Fr
<1> QED
  BY <1>3, <1>5, <1>14, <1>15, <1>16, <1>17, <1>18

LEMMA RejectEffect ==
    ASSUME NEW p \in Them, Alone(p), NEW s, NEW c, NEW t, NEW d, Side(p, s, c, t, d),
           NEW o \in Them \cup {Me}, Relay!HandleReject(c, o)
    PROVE  /\ o = t /\ pairs[Own(d, s)].active = t
           /\ Placed /\ friends' = friends /\ Alone(p)'
           /\ pairs'[Own(c, t)].active = pairs[Own(c, t)].active
           /\ pairs'[Own(d, s)].active = NoPeer
           /\ sent' = {Relay!Notice("reject-from", t, s)}
<1>1. /\ session[c].id = s /\ s # t /\ s # NoPeer /\ t # NoPeer
      /\ Own(c, t) \in Relay!Buckets /\ Own(d, s) \in Relay!Buckets /\ Own(c, t) # Own(d, s)
      /\ Own(c, t)[2] = t /\ Own(d, s)[2] = s
      /\ \A b \in Relay!Buckets : b[2] \in {s, t} => pairs[b].queued = <<>>
      /\ \A b \in Relay!Buckets :
           b[2] = s => pairs[b].active = NoPeer \/ (pairs[b].active = t /\ b = Own(d, s))
  BY SideFacts
<1>1a. \A b \in Relay!Buckets :
           b[2] = t => pairs[b].active = NoPeer \/ (pairs[b].active = s /\ b = Own(c, t))
  BY SideFacts
<1>2. PICK b \in Relay!Buckets :
         /\ Relay!Answerable(b, session[c].id, o)
         /\ pairs' = [pairs EXCEPT ![b] = [rejected |-> TRUE, active |-> NoPeer, queued |-> <<>>]]
         /\ sent' = {Relay!Notice("reject-from", o, session[c].id)} \cup
                    {Relay!Notice("invite-auto-rejected", pairs[b].queued[i], session[c].id) :
                        i \in DOMAIN pairs[b].queued}
  BY DEF Relay!HandleReject
<1>3. b[2] = s /\ pairs[b].active = o
  BY <1>1, <1>2 DEF Relay!Answerable
<1>4. o = t /\ b = Own(d, s)
  BY <1>1, <1>3, ConsentAssumption
<1>5. DOMAIN pairs[b].queued = {}
  BY <1>1, <1>3
<1>6. sent' = {Relay!Notice("reject-from", t, s)}
  BY <1>1, <1>2, <1>4, <1>5
<1>7. pairs \in [Relay!Buckets -> Relay!PairStates]
  BY DEF Alone
<1>8. /\ pairs' \in [Relay!Buckets -> Relay!PairStates]
      /\ \A k \in Relay!Buckets \ {b} : pairs'[k] = pairs[k]
      /\ pairs'[b].active = NoPeer /\ pairs'[b].queued = <<>>
  BY <1>2, <1>7, EmptySeq DEF Relay!PairStates
<1>9. Placed /\ friends' = friends
  BY DEF Relay!HandleReject, Placed
<1>10. pairs'[Own(c, t)].active = pairs[Own(c, t)].active
  BY <1>1, <1>4, <1>8
<1>11. Alone(p)'
  <2>1. \A k \in Relay!Buckets : k[2] \in {s, t} => pairs'[k].queued = <<>>
    BY <1>1, <1>8
  <2>2. /\ \A k \in Relay!Buckets \ {Own(c, t)} : pairs'[k].active \in {pairs[k].active, NoPeer}
        /\ pairs'[Own(c, t)].active \in {NoPeer, s}
    BY <1>1, <1>1a, <1>8, <1>10
  <2> QED
    BY <2>1, <2>2, <1>8, <1>9, AloneKept
<1> QED
  BY <1>3, <1>4, <1>6, <1>8, <1>9, <1>10, <1>11

LEMMA NotifiedOne ==
    ASSUME NEW k, NEW t, NEW f, sent' = {Relay!Notice(k, t, f)}
    PROVE  /\ t = Me => Notified = {<<k, f>>}
           /\ t # Me => Notified = {}
<1> DEFINE n == Relay!Notice(k, t, f)
<1>1. n.to = t /\ n.kind = k /\ n.from = f
  BY DEF Relay!Notice
<1> HIDE DEF n
<1>2. sent' = {n}
  BY DEF n
<1>3. CASE t = Me
  <2>1. {m \in sent' : m.to = Me} = {n}
    BY <1>1, <1>2, <1>3
  <2> QED BY <2>1, <1>1, <1>3 DEF Notified
<1>4. CASE t # Me
  <2>1. {m \in sent' : m.to = Me} = {}
    BY <1>1, <1>2, <1>4
  <2> QED BY <2>1, <1>4 DEF Notified
<1> QED BY <1>3, <1>4

\* The steps of the peer about the page: an invite, which the relay passes
\* on or rejects on the page's behalf, an accept and a reject.
LEMMA TheyDirectEffect ==
    ASSUME NEW p \in Them, Alone(p), NEW c \in Conns, TheyDirect(c)
    PROVE  /\ Alone(p)'
           /\ \/ /\ ~ Fr(p) /\ ~ In(p) /\ ~ Fr(p)' /\ (Out(p)' <=> Out(p))
                 /\ \/ ~ In(p)' /\ air' = air
                    \/ In(p)' /\ air' = air \cup {<<"invite-from", p>>}
              \/ /\ Out(p) /\ Fr(p)' /\ ~ In(p)' /\ ~ Out(p)'
                 /\ air' = air \cup {<<"accept-from", p>>}
              \/ /\ Out(p) /\ (Fr(p)' <=> Fr(p)) /\ (In(p)' <=> In(p)) /\ ~ Out(p)'
                 /\ air' = air \cup {<<"reject-from", p>>}
<1>1. PICK r \in Them \cup {Me} :
         Relay!HandleInvite(c, r) \/ Relay!HandleAccept(c, r) \/ Relay!HandleReject(c, r)
  BY DEF TheyDirect
<1>2. c = hub[p]
  <2>1. Relay!Reading(c)
    BY <1>1 DEF Relay!HandleInvite, Relay!HandleAccept, Relay!HandleReject
  <2> QED BY <2>1 DEF TheyDirect, Alone, Relay!Reading
<1>3. Side(p, p, c, Me, MyConn)
  BY <1>2 DEF Side
<1>4. air' = air \cup Notified
  BY DEF TheyDirect, Fly
<1>5. p # Me /\ p # NoPeer /\ Me # NoPeer
  BY ConsentAssumption
<1>6. ASSUME Placed PROVE Own(hub[p], Me)' = Own(c, Me) /\ Own(MyConn, p)' = Own(MyConn, p)
  BY <1>2, <1>6 DEF Placed, Own
<1>7. CASE Relay!HandleInvite(c, r)
  <2>1. /\ ~ Fr(p) /\ pairs[Own(c, Me)].active = NoPeer /\ Placed /\ friends' = friends /\ Alone(p)'
        /\ pairs'[Own(MyConn, p)].active = pairs[Own(MyConn, p)].active
        /\ \/ /\ pairs'[Own(c, Me)].active = NoPeer
              /\ sent' = {Relay!Notice("invite-auto-rejected", p, Me)}
           \/ /\ pairs'[Own(c, Me)].active = p
              /\ sent' = {Relay!Notice("invite-from", Me, p)}
    BY <1>3, <1>7, InviteEffect
  <2>2. ~ In(p) /\ ~ Fr(p)' /\ (Out(p)' <=> Out(p))
    BY <2>1, <1>2, <1>5, <1>6 DEF In, Out, Fr
  <2>3. \/ ~ In(p)' /\ air' = air
        \/ In(p)' /\ air' = air \cup {<<"invite-from", p>>}
    BY <2>1, <1>4, <1>5, <1>6, NotifiedOne DEF In
  <2> QED BY <2>1, <2>2, <2>3
<1>8. CASE Relay!HandleAccept(c, r)
  <2>1. /\ pairs[Own(MyConn, p)].active = Me /\ Placed /\ Alone(p)' /\ Fr(p)'
        /\ pairs'[Own(c, Me)].active = NoPeer /\ pairs'[Own(MyConn, p)].active = NoPeer
        /\ sent' = {Relay!Notice("accept-from", Me, p)}
    BY <1>3, <1>8, AcceptEffect
  <2>2. Out(p) /\ ~ In(p)' /\ ~ Out(p)'
    BY <2>1, <1>2, <1>5, <1>6 DEF In, Out
  <2>3. air' = air \cup {<<"accept-from", p>>}
    BY <2>1, <1>4, NotifiedOne
  <2> QED BY <2>1, <2>2, <2>3
<1>9. CASE Relay!HandleReject(c, r)
  <2>1. /\ pairs[Own(MyConn, p)].active = Me /\ Placed /\ friends' = friends /\ Alone(p)'
        /\ pairs'[Own(c, Me)].active = pairs[Own(c, Me)].active
        /\ pairs'[Own(MyConn, p)].active = NoPeer
        /\ sent' = {Relay!Notice("reject-from", Me, p)}
    BY <1>3, <1>9, RejectEffect
  <2>2. Out(p) /\ (Fr(p)' <=> Fr(p)) /\ (In(p)' <=> In(p)) /\ ~ Out(p)'
    BY <2>1, <1>2, <1>5, <1>6 DEF In, Out, Fr
  <2>3. air' = air \cup {<<"reject-from", p>>}
    BY <2>1, <1>4, NotifiedOne
  <2> QED BY <2>1, <2>2, <2>3
<1> QED
  BY <1>1, <1>7, <1>8, <1>9

\* What the relay does with the next directive of the page: nothing, with
\* one about a peer that is not there, or out of place; otherwise an invite,
\* an accept or a reject of p.
LEMMA RelayReadsEffect ==
    ASSUME NEW p \in Them, Alone(p), TypeOK, RelayReads
    PROVE  /\ Alone(p)'
           /\ toRelay # <<>> /\ toRelay' = Tail(toRelay)
           /\ \/ /\ Head(toRelay) = <<"invite", p>> => Fr(p) \/ Out(p)
                 /\ Head(toRelay) \in {<<"accept", p>>, <<"reject", p>>} => ~ In(p)
                 /\ (Fr(p)' <=> Fr(p)) /\ (In(p)' <=> In(p)) /\ (Out(p)' <=> Out(p)) /\ air' = air
              \/ /\ Head(toRelay) = <<"invite", p>> /\ ~ Fr(p) /\ ~ Fr(p)' /\ ~ Out(p)
                 /\ (In(p)' <=> In(p))
                 /\ \/ ~ Out(p)' /\ air' = air \cup {<<"invite-auto-rejected", p>>}
                    \/ Out(p)' /\ air' = air
              \/ /\ Head(toRelay) = <<"accept", p>> /\ In(p)
                 /\ Fr(p)' /\ ~ In(p)' /\ ~ Out(p)' /\ air' = air
              \/ /\ Head(toRelay) = <<"reject", p>> /\ In(p)
                 /\ (Fr(p)' <=> Fr(p)) /\ ~ In(p)' /\ (Out(p)' <=> Out(p)) /\ air' = air
<1> DEFINE kind == Head(toRelay)[1]
           r    == Head(toRelay)[2]
<1>1. toRelay # <<>> /\ toRelay' = Tail(toRelay) /\ air' = air \cup Notified
  BY DEF RelayReads, Fly
<1>2. Head(toRelay) \in Directives
  BY <1>1, HoldsTail DEF TypeOK
<1>3. Head(toRelay) = <<kind, r>> /\ r \in Them /\ kind \in {"invite", "accept", "reject"}
  BY <1>2 DEF Directives
<1>4. \/ kind = "invite" /\ Relay!HandleInvite(MyConn, r)
      \/ kind = "accept" /\ Relay!HandleAccept(MyConn, r)
      \/ kind = "reject" /\ Relay!HandleReject(MyConn, r)
      \/ /\ IF kind = "invite" THEN ~ Relay!MayInvite(Me, r)
                               ELSE ~ \E b \in Relay!Buckets : Relay!Answerable(b, Me, r)
         /\ sent' = {} /\ UNCHANGED <<hub, session, leaving, pairs, friends>>
  BY DEF RelayReads
<1>5. p # Me /\ p # NoPeer /\ Me # NoPeer
  BY ConsentAssumption
<1> HIDE DEF kind, r
<1> DEFINE c == hub[p]
<1>6. Side(p, Me, MyConn, p, c)
  BY DEF Side
<1>7. ASSUME Placed PROVE Own(hub[p], Me)' = Own(c, Me) /\ Own(MyConn, p)' = Own(MyConn, p)
  BY <1>7 DEF Placed, Own
<1>8. In(p) <=> pairs[Own(c, Me)].active = p
  BY DEF In
<1> HIDE DEF c
<1>9. CASE kind = "invite" /\ Relay!HandleInvite(MyConn, r)
  <2>1. /\ r = p /\ ~ Fr(p) /\ pairs[Own(MyConn, p)].active = NoPeer
        /\ Placed /\ friends' = friends /\ Alone(p)'
        /\ pairs'[Own(c, Me)].active = pairs[Own(c, Me)].active
        /\ \/ /\ pairs'[Own(MyConn, p)].active = NoPeer
              /\ sent' = {Relay!Notice("invite-auto-rejected", Me, p)}
           \/ /\ pairs'[Own(MyConn, p)].active = Me
              /\ sent' = {Relay!Notice("invite-from", p, Me)}
    BY <1>3, <1>6, <1>9, InviteEffect
  <2>2. ~ Out(p) /\ ~ Fr(p)' /\ (In(p)' <=> In(p))
    BY <2>1, <1>5, <1>7, <1>8 DEF In, Out, Fr
  <2>3. \/ ~ Out(p)' /\ air' = air \cup {<<"invite-auto-rejected", p>>}
        \/ Out(p)' /\ air' = air
    BY <2>1, <1>1, <1>5, <1>7, NotifiedOne DEF Out
  <2> QED BY <2>1, <2>2, <2>3, <1>1, <1>3, <1>9
<1>10. CASE kind = "accept" /\ Relay!HandleAccept(MyConn, r)
  <2>1. /\ r = p /\ pairs[Own(c, Me)].active = p /\ Placed /\ Alone(p)' /\ Fr(p)'
        /\ pairs'[Own(c, Me)].active = NoPeer /\ pairs'[Own(MyConn, p)].active = NoPeer
        /\ sent' = {Relay!Notice("accept-from", p, Me)}
    BY <1>3, <1>6, <1>10, AcceptEffect
  <2>2. In(p) /\ ~ In(p)' /\ ~ Out(p)'
    BY <2>1, <1>5, <1>7, <1>8 DEF In, Out
  <2>3. air' = air
    BY <2>1, <1>1, <1>5, NotifiedOne
  <2> QED BY <2>1, <2>2, <2>3, <1>1, <1>3, <1>10
<1>11. CASE kind = "reject" /\ Relay!HandleReject(MyConn, r)
  <2>1. /\ r = p /\ pairs[Own(c, Me)].active = p /\ Placed /\ friends' = friends /\ Alone(p)'
        /\ pairs'[Own(MyConn, p)].active = pairs[Own(MyConn, p)].active
        /\ pairs'[Own(c, Me)].active = NoPeer
        /\ sent' = {Relay!Notice("reject-from", p, Me)}
    BY <1>3, <1>6, <1>11, RejectEffect
  <2>2. In(p) /\ (Fr(p)' <=> Fr(p)) /\ ~ In(p)' /\ (Out(p)' <=> Out(p))
    BY <2>1, <1>5, <1>7, <1>8 DEF In, Out, Fr
  <2>3. air' = air
    BY <2>1, <1>1, <1>5, NotifiedOne
  <2> QED BY <2>1, <2>2, <2>3, <1>1, <1>3, <1>11
<1>12. CASE /\ IF kind = "invite" THEN ~ Relay!MayInvite(Me, r)
                                  ELSE ~ \E b \in Relay!Buckets : Relay!Answerable(b, Me, r)
            /\ sent' = {} /\ UNCHANGED <<hub, session, leaving, pairs, friends>>
  <2>1. air' = air
    BY <1>1, <1>12 DEF Notified
  <2>2. (Fr(p)' <=> Fr(p)) /\ (In(p)' <=> In(p)) /\ (Out(p)' <=> Out(p)) /\ Alone(p)'
    BY <1>12 DEF Fr, In, Out, Own, Alone
  <2>3. ASSUME Head(toRelay) = <<"invite", p>> PROVE Fr(p) \/ Out(p)
    <3>1. ~ Relay!MayInvite(Me, p) /\ hub[p] # NoConn
      BY <2>3, <1>3, <1>6, <1>12, SideFacts, ConsentAssumption DEF Alone
    <3>2. CASE Relay!InFlight(Me, p)
      <4>1. PICK a \in Addrs : \/ pairs[<<a, p>>].active = Me
                               \/ \E i \in DOMAIN pairs[<<a, p>>].queued :
                                     pairs[<<a, p>>].queued[i] = Me
        BY <3>2 DEF Relay!InFlight
      <4>2. <<a, p>> \in Relay!Buckets /\ <<a, p>>[2] = p
        BY DEF Relay!Buckets
      <4>3. pairs[<<a, p>>].queued = <<>>
        BY <4>2 DEF Alone
      <4>4. <<a, p>> = Own(MyConn, p)
        BY <4>1, <4>2, <4>3, <1>5 DEF Alone
      <4> QED BY <4>1, <4>3, <4>4 DEF Out
    <3> QED BY <3>1, <3>2, <1>5 DEF Relay!MayInvite, Fr
  <2>4. ASSUME Head(toRelay) \in {<<"accept", p>>, <<"reject", p>>} PROVE ~ In(p)
    <3>1. ~ Relay!Answerable(Own(c, Me), Me, p)
      BY <2>4, <1>3, <1>6, <1>12, SideFacts
    <3>2. hub[p] # NoConn /\ Own(c, Me)[2] = Me
      BY <1>6, SideFacts
    <3> QED BY <3>1, <3>2, <1>8 DEF Relay!Answerable
  <2> QED BY <2>1, <2>2, <2>3, <2>4, <1>1
<1> QED
  BY <1>4, <1>9, <1>10, <1>11, <1>12

\* The page before its clicks are rendered: a click was, at once.
Lag(p) ==
    /\ p \in invitesOut => p \in shown.invitesOut
    /\ p \in friendsRef => p \in shown.friends \cup shown.invitesOut
    /\ p \in shown.invitesIn => p \in invitesIn \/ Fr(p)

\* An invite of the peer is in one place: with the relay alone, on its way,
\* on show, or answered with the answer on its way.  The same of the page's.
Strangers(p) ==
    LET answers == {<<"accept", p>>, <<"reject", p>>}
        closes  == Flies("reject-from", p) \/ Flies("invite-auto-rejected", p)
        answered == Asked("accept", p) \/ Asked("reject", p)
    IN  /\ ~ Flies("accept-from", p)
        /\ In(p) <=> p \in invitesIn \/ Flies("invite-from", p) \/ answered
        /\ p \in invitesIn => ~ Flies("invite-from", p) /\ ~ answered
        /\ Flies("invite-from", p) => ~ answered
        /\ HoldsOnce(toRelay, answers)
        /\ p \in friendsRef <=> Asked("accept", p)
        /\ p \notin friendsRef => (p \in invitesOut <=> Out(p) \/ Asked("invite", p) \/ closes)
        /\ Out(p) => ~ Asked("invite", p) /\ ~ closes
        /\ Asked("invite", p) => ~ closes
        /\ ~ (Flies("reject-from", p) /\ Flies("invite-auto-rejected", p))
        /\ HoldsOnce(toRelay, {<<"invite", p>>})
        /\ HoldsFirst(toRelay, <<"invite", p>>, <<"accept", p>>)

\* Once the relay made the two friends, nothing is left to answer, and the
\* page knows or is about to be told.
Friends(p) ==
    /\ ~ In(p) /\ ~ Out(p) /\ ~ Asked("invite", p)
    /\ p \in friendsRef \/ Flies("accept-from", p)
    /\ p \in invitesIn \cup invitesOut => Flies("accept-from", p)
    /\ Flies("accept-from", p) => p \in invitesOut \cup friendsRef
    /\ p \in invitesOut => ~ Flies("reject-from", p) /\ ~ Flies("invite-auto-rejected", p)

Page(p) ==
    /\ ~ Flies("peer-left", p) /\ p \notin seenLeft
    /\ p \in friendsRef => p \notin invitesIn /\ p \notin invitesOut
    /\ Lag(p)
    /\ ~ Fr(p) => Strangers(p)
    /\ Fr(p) => Friends(p)

LEMMA PageTheyDirect ==
    ASSUME NEW p \in Them, Alone(p), Page(p), NEW c \in Conns, TheyDirect(c)
    PROVE  Page(p)'
<1>1. \/ /\ ~ Fr(p) /\ ~ In(p) /\ ~ Fr(p)' /\ (Out(p)' <=> Out(p))
         /\ \/ ~ In(p)' /\ air' = air
            \/ In(p)' /\ air' = air \cup {<<"invite-from", p>>}
      \/ /\ Out(p) /\ Fr(p)' /\ ~ In(p)' /\ ~ Out(p)'
         /\ air' = air \cup {<<"accept-from", p>>}
      \/ /\ Out(p) /\ (Fr(p)' <=> Fr(p)) /\ (In(p)' <=> In(p)) /\ ~ Out(p)'
         /\ air' = air \cup {<<"reject-from", p>>}
  BY TheyDirectEffect
<1>2. /\ toRelay' = toRelay /\ invitesIn' = invitesIn /\ invitesOut' = invitesOut
      /\ friendsRef' = friendsRef /\ seenLeft' = seenLeft /\ shown' = shown
  BY DEF TheyDirect, pageVars, viewVars
<1>3. \A k : Asked(k, p)' <=> Asked(k, p)
  BY <1>2 DEF Asked
<1>4. CASE ~ Fr(p) /\ ~ In(p) /\ ~ Fr(p)' /\ ~ In(p)' /\ air' = air /\ (Out(p)' <=> Out(p))
  <2>1. \A k : Flies(k, p)' <=> Flies(k, p)
    BY <1>4 DEF Flies
  <2> QED BY <1>2, <1>3, <1>4, <2>1 DEF Page, Lag, Strangers
<1>5. CASE /\ ~ Fr(p) /\ ~ In(p) /\ ~ Fr(p)' /\ (Out(p)' <=> Out(p))
           /\ In(p)' /\ air' = air \cup {<<"invite-from", p>>}
  <2>1. \A k : Flies(k, p)' <=> Flies(k, p) \/ k = "invite-from"
    BY <1>5 DEF Flies
  <2> QED BY <1>2, <1>3, <1>5, <2>1 DEF Page, Lag, Strangers
<1>6. CASE /\ Out(p) /\ Fr(p)' /\ ~ In(p)' /\ ~ Out(p)'
           /\ air' = air \cup {<<"accept-from", p>>}
  <2>1. \A k : Flies(k, p)' <=> Flies(k, p) \/ k = "accept-from"
    BY <1>6 DEF Flies
  <2> QED BY <1>2, <1>3, <1>6, <2>1 DEF Page, Lag, Strangers, Friends
<1>7. CASE /\ Out(p) /\ (Fr(p)' <=> Fr(p)) /\ (In(p)' <=> In(p)) /\ ~ Out(p)'
           /\ air' = air \cup {<<"reject-from", p>>}
  <2>1. \A k : Flies(k, p)' <=> Flies(k, p) \/ k = "reject-from"
    BY <1>7 DEF Flies
  <2> QED BY <1>2, <1>3, <1>7, <2>1 DEF Page, Lag, Strangers, Friends
<1> QED
  BY <1>1, <1>4, <1>5, <1>6, <1>7

LEMMA PageRelayReads ==
    ASSUME NEW p \in Them, Alone(p), Page(p), TypeOK, RelayReads
    PROVE  Page(p)'
<1> DEFINE h == Head(toRelay)
<1>1. /\ toRelay # <<>> /\ toRelay' = Tail(toRelay)
      /\ \/ /\ h = <<"invite", p>> => Fr(p) \/ Out(p)
            /\ h \in {<<"accept", p>>, <<"reject", p>>} => ~ In(p)
            /\ (Fr(p)' <=> Fr(p)) /\ (In(p)' <=> In(p)) /\ (Out(p)' <=> Out(p)) /\ air' = air
         \/ /\ h = <<"invite", p>> /\ ~ Fr(p) /\ ~ Fr(p)' /\ ~ Out(p)
            /\ (In(p)' <=> In(p))
            /\ \/ ~ Out(p)' /\ air' = air \cup {<<"invite-auto-rejected", p>>}
               \/ Out(p)' /\ air' = air
         \/ /\ h = <<"accept", p>> /\ In(p)
            /\ Fr(p)' /\ ~ In(p)' /\ ~ Out(p)' /\ air' = air
         \/ /\ h = <<"reject", p>> /\ In(p)
            /\ (Fr(p)' <=> Fr(p)) /\ ~ In(p)' /\ (Out(p)' <=> Out(p)) /\ air' = air
  BY RelayReadsEffect
<1>2. /\ invitesIn' = invitesIn /\ invitesOut' = invitesOut
      /\ friendsRef' = friendsRef /\ seenLeft' = seenLeft /\ shown' = shown
  BY DEF RelayReads, pageVars, viewVars
<1>3. /\ \A k : Asked(k, p) <=> <<k, p>> = h \/ Asked(k, p)'
      /\ \A S : HoldsOnce(toRelay, S) => HoldsOnce(toRelay', S)
      /\ \A S : HoldsOnce(toRelay, S) /\ h \in S => \A x \in S : ~ Holds(toRelay', x)
      /\ \A x, y : HoldsFirst(toRelay, x, y) => HoldsFirst(toRelay', x, y)
      /\ \A x : HoldsFirst(toRelay, x, h) => ~ Holds(toRelay', x)
  <2>1. toRelay \in Seq(Directives)
    BY DEF TypeOK
  <2> QED BY <1>1, <2>1, HoldsTail DEF Asked
<1>4. /\ h = <<"invite", p>> /\ HoldsOnce(toRelay, {<<"invite", p>>}) => ~ Asked("invite", p)'
      /\ h \in {<<"accept", p>>, <<"reject", p>>} /\ HoldsOnce(toRelay, {<<"accept", p>>, <<"reject", p>>})
           => ~ Asked("accept", p)' /\ ~ Asked("reject", p)'
      /\ h = <<"accept", p>> /\ HoldsFirst(toRelay, <<"invite", p>>, <<"accept", p>>)
           => ~ Asked("invite", p)'
  BY <1>3 DEF Asked
<1>5. /\ HoldsOnce(toRelay, {<<"invite", p>>}) => HoldsOnce(toRelay', {<<"invite", p>>})
      /\ HoldsOnce(toRelay, {<<"accept", p>>, <<"reject", p>>})
           => HoldsOnce(toRelay', {<<"accept", p>>, <<"reject", p>>})
      /\ HoldsFirst(toRelay, <<"invite", p>>, <<"accept", p>>)
           => HoldsFirst(toRelay', <<"invite", p>>, <<"accept", p>>)
  BY <1>3
<1>6. /\ Asked("invite", p) <=> h = <<"invite", p>> \/ Asked("invite", p)'
      /\ Asked("accept", p) <=> h = <<"accept", p>> \/ Asked("accept", p)'
      /\ Asked("reject", p) <=> h = <<"reject", p>> \/ Asked("reject", p)'
  BY <1>3
<1>7. CASE /\ h = <<"invite", p>> => Fr(p) \/ Out(p)
           /\ h \in {<<"accept", p>>, <<"reject", p>>} => ~ In(p)
           /\ (Fr(p)' <=> Fr(p)) /\ (In(p)' <=> In(p)) /\ (Out(p)' <=> Out(p)) /\ air' = air
  <2>1. \A k : Flies(k, p)' <=> Flies(k, p)
    BY <1>7 DEF Flies
  <2> QED BY <1>2, <1>5, <1>6, <1>7, <2>1 DEF Page, Lag, Strangers, Friends
<1>8. CASE /\ h = <<"invite", p>> /\ ~ Fr(p) /\ ~ Fr(p)' /\ ~ Out(p)
           /\ (In(p)' <=> In(p)) /\ ~ Out(p)' /\ air' = air \cup {<<"invite-auto-rejected", p>>}
  <2>1. \A k : Flies(k, p)' <=> Flies(k, p) \/ k = "invite-auto-rejected"
    BY <1>8 DEF Flies
  <2> QED BY <1>2, <1>4, <1>5, <1>6, <1>8, <2>1 DEF Page, Lag, Strangers
<1>9. CASE /\ h = <<"invite", p>> /\ ~ Fr(p) /\ ~ Fr(p)' /\ ~ Out(p)
           /\ (In(p)' <=> In(p)) /\ Out(p)' /\ air' = air
  <2>1. \A k : Flies(k, p)' <=> Flies(k, p)
    BY <1>9 DEF Flies
  <2> QED BY <1>2, <1>4, <1>5, <1>6, <1>9, <2>1 DEF Page, Lag, Strangers
<1>10. CASE /\ h = <<"accept", p>> /\ In(p) /\ Fr(p)' /\ ~ In(p)' /\ ~ Out(p)' /\ air' = air
  <2>1. \A k : Flies(k, p)' <=> Flies(k, p)
    BY <1>10 DEF Flies
  <2> QED BY <1>2, <1>4, <1>5, <1>6, <1>10, <2>1 DEF Page, Lag, Strangers, Friends
<1>11. CASE /\ h = <<"reject", p>> /\ In(p)
            /\ (Fr(p)' <=> Fr(p)) /\ ~ In(p)' /\ (Out(p)' <=> Out(p)) /\ air' = air
  <2>1. \A k : Flies(k, p)' <=> Flies(k, p)
    BY <1>11 DEF Flies
  <2> QED BY <1>2, <1>4, <1>5, <1>6, <1>11, <2>1 DEF Page, Lag, Strangers, Friends
<1> QED
  BY <1>1, <1>7, <1>8, <1>9, <1>10, <1>11

\* Steps of the page leave the relay as it is.
LEMMA RelayStill ==
    ASSUME NEW p \in Them, UNCHANGED relayVars
    PROVE  /\ (Fr(p)' <=> Fr(p)) /\ (In(p)' <=> In(p)) /\ (Out(p)' <=> Out(p))
           /\ Alone(p) => Alone(p)'
BY DEF relayVars, Fr, In, Out, Own, Alone

\* What the page knows of p, unless the step is about p.
SameOf(p) ==
    /\ p \in invitesIn' <=> p \in invitesIn
    /\ p \in invitesOut' <=> p \in invitesOut
    /\ p \in friendsRef' <=> p \in friendsRef
    /\ p \in seenLeft' <=> p \in seenLeft

LEMMA PageOnMessage ==
    ASSUME NEW p \in Them \ lowOrder, Page(p), OnMessage
    PROVE  Page(p)'
<1>1. PICK q \in Them : \/ PeerJoined(q) \/ PeerLeft(q) \/ StaleNotice(q)
                        \/ InviteFrom(q) \/ AcceptFrom(q) \/ Answered(q)
  BY DEF OnMessage
<1>2. PICK k : Receive(k, q)
  BY <1>1 DEF PeerJoined, PeerLeft, StaleNotice, InviteFrom, AcceptFrom, Answered
<1>3. /\ UNCHANGED relayVars /\ toRelay' = toRelay /\ shown' = shown
  BY <1>2 DEF Receive, viewVars
<1>4. /\ (Fr(p)' <=> Fr(p)) /\ (In(p)' <=> In(p)) /\ (Out(p)' <=> Out(p))
      /\ \A j : Asked(j, p)' <=> Asked(j, p)
  BY <1>3, RelayStill DEF Asked
<1>5. ASSUME NEW j, Receive(j, p) PROVE \A i : Flies(i, p)' <=> Flies(i, p) /\ i # j
  BY <1>5 DEF Receive, Flies
<1>5a. ASSUME NEW j, Receive(j, p) PROVE Flies(j, p)
  BY <1>5a DEF Receive, Flies
<1>6. CASE q # p
  <2>1. \A i : Flies(i, p)' <=> Flies(i, p)
    BY <1>2, <1>6 DEF Receive, Flies
  <2>2. SameOf(p)
    BY <1>1, <1>6 DEF PeerJoined, PeerLeft, StaleNotice, InviteFrom, AcceptFrom, Answered,
                      pageVars, SameOf
  <2> QED
    BY <1>3, <1>4, <2>1, <2>2 DEF Page, Lag, Strangers, Friends, SameOf
<1>7. CASE PeerJoined(p)
  <2>1. SameOf(p)
    BY <1>7 DEF PeerJoined, SameOf, Page
  <2>2. \A i : Flies(i, p)' <=> Flies(i, p) /\ i # "peer-joined"
    BY <1>5, <1>7 DEF PeerJoined
  <2> QED
    BY <1>3, <1>4, <2>1, <2>2 DEF Page, Lag, Strangers, Friends, SameOf
<1>8. CASE PeerLeft(p)
  BY <1>5a, <1>8 DEF PeerLeft, Page
<1>9. CASE StaleNotice(p)
  BY <1>9 DEF StaleNotice, Current, Page
<1>10. CASE InviteFrom(p)
  <2>1. \A i : Flies(i, p)' <=> Flies(i, p) /\ i # "invite-from"
    BY <1>5, <1>10 DEF InviteFrom
  <2>2. Flies("invite-from", p)
    BY <1>5a, <1>10 DEF InviteFrom
  <2>3. /\ p \in invitesIn' <=> p \in invitesIn \/ p \notin friendsRef
        /\ invitesOut' = invitesOut /\ friendsRef' = friendsRef /\ seenLeft' = seenLeft
    BY <1>10 DEF InviteFrom
  <2> QED
    BY <1>3, <1>4, <2>1, <2>2, <2>3 DEF Page, Lag, Strangers, Friends
<1>11. CASE AcceptFrom(p)
  <2>1. \A i : Flies(i, p)' <=> Flies(i, p) /\ i # "accept-from"
    BY <1>5, <1>11 DEF AcceptFrom
  <2>2. Flies("accept-from", p)
    BY <1>5a, <1>11 DEF AcceptFrom
  <2>3. /\ p \notin invitesIn' /\ p \notin invitesOut' /\ p \in friendsRef'
        /\ seenLeft' = seenLeft
    BY <1>11 DEF AcceptFrom
  <2> QED
    BY <1>3, <1>4, <2>1, <2>2, <2>3 DEF Page, Lag, Strangers, Friends
<1>12. CASE Answered(p)
  <2>1. PICK kind \in {"reject-from", "invite-auto-rejected", "invite-deferred"} :
           /\ Receive(kind, p)
           /\ invitesOut' = IF kind = "invite-deferred" THEN invitesOut ELSE invitesOut \ {p}
    BY <1>12 DEF Answered
  <2>2. /\ \A i : Flies(i, p)' <=> Flies(i, p) /\ i # kind
        /\ Flies(kind, p)
    BY <1>5, <1>5a, <2>1
  <2>3. invitesIn' = invitesIn /\ friendsRef' = friendsRef /\ seenLeft' = seenLeft
    BY <1>12 DEF Answered
  <2>4. CASE kind = "invite-deferred"
    BY <1>3, <1>4, <2>1, <2>2, <2>3, <2>4 DEF Page, Lag, Strangers, Friends
  <2>5. CASE kind = "reject-from" /\ invitesOut' = invitesOut \ {p}
    BY <1>3, <1>4, <2>2, <2>3, <2>5 DEF Page, Lag, Strangers, Friends
  <2>6. CASE kind = "invite-auto-rejected" /\ invitesOut' = invitesOut \ {p}
    BY <1>3, <1>4, <2>2, <2>3, <2>6 DEF Page, Lag, Strangers, Friends
  <2> QED
    BY <2>1, <2>4, <2>5, <2>6
<1> QED
  BY <1>1, <1>6, <1>7, <1>8, <1>9, <1>10, <1>11, <1>12

LEMMA PageUser ==
    ASSUME NEW p \in Them, TypeOK, Page(p), User
    PROVE  Page(p)'
<1>1. PICK q \in Them : SendInvite(q) \/ SendAccept(q) \/ SendReject(q)
  BY DEF User
<1>2. PICK kind \in {"invite", "accept", "reject"} : Click(<<kind, q>>)
  BY <1>1 DEF SendInvite, SendAccept, SendReject
<1>3. /\ UNCHANGED relayVars /\ air' = air /\ seenLeft' = seenLeft
      /\ shown'.invitesIn = invitesIn' /\ shown'.invitesOut = invitesOut'
      /\ shown'.friends = friendsRef'
  BY <1>2 DEF Click, View
<1>4. /\ (Fr(p)' <=> Fr(p)) /\ (In(p)' <=> In(p)) /\ (Out(p)' <=> Out(p))
      /\ \A k : Flies(k, p)' <=> Flies(k, p)
  BY <1>3, RelayStill DEF Flies
<1>5. ASSUME NEW k \in {"invite", "accept", "reject"}, Click(<<k, q>>)
      PROVE  /\ \A j : Asked(j, p)' <=> Asked(j, p) \/ (j = k /\ q = p)
             /\ \A S : HoldsOnce(toRelay, S) /\ (<<k, q>> \in S => \A x \in S : ~ Holds(toRelay, x))
                          => HoldsOnce(toRelay', S)
             /\ \A x, y : HoldsFirst(toRelay, x, y)
                             /\ (<<k, q>> = x => <<k, q>> # y /\ ~ Holds(toRelay, y))
                          => HoldsFirst(toRelay', x, y)
  <2>1. toRelay \in Seq(Directives) /\ <<k, q>> \in Directives
    BY <1>5 DEF TypeOK, Directives
  <2>2. toRelay' = Append(toRelay, <<k, q>>)
    BY <1>5 DEF Click
  <2> QED BY <2>1, <2>2, HoldsAppend DEF Asked
<1> DEFINE Invites == {<<"invite", p>>}
           Answers == {<<"accept", p>>, <<"reject", p>>}
           Early == HoldsFirst(toRelay, <<"invite", p>>, <<"accept", p>>)
<1>6. CASE q # p
  <2>1. /\ \A j : Asked(j, p)' <=> Asked(j, p)
        /\ HoldsOnce(toRelay, Invites) => HoldsOnce(toRelay', Invites)
        /\ HoldsOnce(toRelay, Answers) => HoldsOnce(toRelay', Answers)
        /\ Early => Early'
    BY <1>2, <1>5, <1>6
  <2>2. SameOf(p)
    BY <1>1, <1>3, <1>6 DEF SendInvite, SendAccept, SendReject, SameOf
  <2> QED
    BY <1>3, <1>4, <2>1, <2>2 DEF Page, Lag, Strangers, Friends, SameOf
<1>7. CASE SendInvite(p) /\ q = p
  <2>1. /\ p \notin shown.friends /\ p \notin shown.invitesIn /\ p \notin shown.invitesOut
        /\ invitesIn' = invitesIn /\ friendsRef' = friendsRef /\ p \in invitesOut'
    BY <1>7 DEF SendInvite
  <2>2. /\ \A j : Asked(j, p)' <=> Asked(j, p) \/ j = "invite"
        /\ HoldsOnce(toRelay, Invites) /\ ~ Asked("invite", p) => HoldsOnce(toRelay', Invites)
        /\ HoldsOnce(toRelay, Answers) => HoldsOnce(toRelay', Answers)
        /\ Early /\ ~ Asked("accept", p) => Early'
    BY <1>5, <1>7 DEF SendInvite, Asked
  <2> QED
    BY <1>3, <1>4, <2>1, <2>2 DEF Page, Lag, Strangers, Friends
<1>8. CASE SendAccept(p) /\ q = p
  <2>1. /\ p \notin shown.friends /\ p \in shown.invitesIn
        /\ p \notin invitesIn' /\ p \notin invitesOut' /\ p \in friendsRef'
    BY <1>8 DEF SendAccept
  <2>2. /\ \A j : Asked(j, p)' <=> Asked(j, p) \/ j = "accept"
        /\ HoldsOnce(toRelay, Invites) => HoldsOnce(toRelay', Invites)
        /\ HoldsOnce(toRelay, Answers) /\ ~ Asked("accept", p) /\ ~ Asked("reject", p)
              => HoldsOnce(toRelay', Answers)
        /\ Early => Early'
    BY <1>5, <1>8 DEF SendAccept, Asked
  <2> QED
    BY <1>3, <1>4, <2>1, <2>2 DEF Page, Lag, Strangers, Friends
<1>9. CASE SendReject(p) /\ q = p
  <2>1. /\ p \notin shown.friends /\ p \in shown.invitesIn
        /\ p \notin invitesIn' /\ invitesOut' = invitesOut /\ friendsRef' = friendsRef
    BY <1>9 DEF SendReject
  <2>2. /\ \A j : Asked(j, p)' <=> Asked(j, p) \/ j = "reject"
        /\ HoldsOnce(toRelay, Invites) => HoldsOnce(toRelay', Invites)
        /\ HoldsOnce(toRelay, Answers) /\ ~ Asked("accept", p) /\ ~ Asked("reject", p)
              => HoldsOnce(toRelay', Answers)
        /\ Early => Early'
    BY <1>5, <1>9 DEF SendReject, Asked
  <2> QED
    BY <1>3, <1>4, <2>1, <2>2 DEF Page, Lag, Strangers, Friends
<1> QED
  BY <1>1, <1>6, <1>7, <1>8, <1>9

LEMMA PageReact ==
    ASSUME NEW p \in Them, Page(p), Render \/ SyncPeersRef
    PROVE  Page(p)'
<1>1. /\ UNCHANGED relayVars /\ air' = air /\ toRelay' = toRelay
      /\ invitesIn' = invitesIn /\ invitesOut' = invitesOut
      /\ friendsRef' = friendsRef /\ seenLeft' = seenLeft
  BY DEF Render, SyncPeersRef, pageVars
<1>2. shown' = shown \/ /\ shown'.invitesIn = invitesIn /\ shown'.invitesOut = invitesOut
                        /\ shown'.friends = friendsRef
  BY DEF Render, SyncPeersRef, View
<1>3. /\ (Fr(p)' <=> Fr(p)) /\ (In(p)' <=> In(p)) /\ (Out(p)' <=> Out(p))
      /\ \A k : Flies(k, p)' <=> Flies(k, p)
      /\ \A k : Asked(k, p)' <=> Asked(k, p)
  BY <1>1, RelayStill DEF Flies, Asked
<1>4. Lag(p) => Lag(p)'
  BY <1>1, <1>2, <1>3 DEF Lag
<1> QED
  BY <1>1, <1>3, <1>4 DEF Page, Strangers, Friends

\* Before anyone else is there, nothing has happened.
Pristine ==
    /\ hub = [p \in Them \cup {Me} |-> IF p = Me THEN MyConn ELSE NoConn]
    /\ \E a \in Addrs :
          session = [c \in Conns |-> IF c = MyConn THEN [id |-> Me, ip |-> a]
                                                   ELSE Relay!NoSession]
    /\ leaving = {} /\ friends = {}
    /\ pairs = [b \in Relay!Buckets |-> Relay!NoState]
    /\ air = {} /\ toRelay = <<>>
    /\ peers = {} /\ invitesIn = {} /\ invitesOut = {} /\ friendsRef = {} /\ seenLeft = {}
    /\ shown.peers = {} /\ shown.invitesIn = {} /\ shown.invitesOut = {} /\ shown.friends = {}

\* The first peer that connects, as long as it stays and no other follows.
First(p) == Alone(p) /\ (p \notin lowOrder => Page(p))

AgreeInv ==
    /\ joins \in Nat
    /\ hub \in [Them \cup {Me} -> Conns \cup {NoConn}]
    /\ joins = 0 => Pristine
    /\ joins = 1 => \A p \in Them : hub[p] # NoConn => First(p)

LEMMA InitAgree == Init => AgreeInv
<1> SUFFICES ASSUME Init PROVE AgreeInv
  OBVIOUS
<1>1. joins = 0 /\ hub \in [Them \cup {Me} -> Conns \cup {NoConn}]
  BY ConsentAssumption DEF Init
<1>2. Pristine
  BY DEF Init, Pristine, View
<1> QED
  BY <1>1, <1>2 DEF AgreeInv

LEMMA FirstJoins ==
    ASSUME Pristine, NEW c \in Conns, NEW p \in Them, NEW a \in Addrs, TheyJoin(c, p, a),
           NEW q \in Them, hub'[q] # NoConn
    PROVE  First(q)'
<1>1. p # Me /\ p # NoPeer /\ Me # NoPeer /\ MyConn \in Conns /\ NoConn \notin Conns
  BY ConsentAssumption
<1>2. /\ hub[Me] = MyConn /\ \A r \in Them : hub[r] = NoConn
      /\ DOMAIN hub = Them \cup {Me}
  BY <1>1, ConsentAssumption DEF Pristine
<1>3. /\ DOMAIN session = Conns /\ session[MyConn].id = Me /\ session[MyConn].ip \in Addrs
      /\ \A d \in Conns \ {MyConn} : session[d] = Relay!NoSession
  BY <1>1 DEF Pristine
<1>4. /\ session[c] = Relay!NoSession
      /\ session' = [session EXCEPT ![c] = [id |-> p, ip |-> a]]
      /\ hub' = [hub EXCEPT ![p] = c]
      /\ sent' = {} /\ UNCHANGED <<leaving, pairs, friends>>
      /\ air' = air \cup {<<"peer-joined", p>>} \cup Notified
      /\ UNCHANGED <<toRelay, lowOrder, pageVars, viewVars>>
  BY DEF TheyJoin, Relay!Join, Fly
<1>5. q = p
  BY <1>1, <1>2, <1>4
<1>6. c # MyConn
  BY <1>1, <1>3, <1>4 DEF Relay!NoSession
<1>7. /\ hub'[Me] = MyConn /\ hub'[p] = c /\ \A r \in Them \ {p} : hub'[r] = NoConn
  BY <1>1, <1>2, <1>4, ConsentAssumption
<1>8. /\ session'[MyConn].id = Me /\ session'[MyConn].ip \in Addrs
      /\ session'[c].id = p /\ session'[c].ip \in Addrs
      /\ \A d \in Conns \ {MyConn, c} : session'[d] = Relay!NoSession
  BY <1>1, <1>3, <1>4, <1>6
<1>9. /\ pairs' \in [Relay!Buckets -> Relay!PairStates]
      /\ \A b \in Relay!Buckets : pairs'[b].queued = <<>> /\ pairs'[b].active = NoPeer
  <2>1. /\ Relay!NoState \in Relay!PairStates
        /\ Relay!NoState.queued = <<>> /\ Relay!NoState.active = NoPeer
    BY EmptySeq DEF Relay!NoState, Relay!PairStates
  <2> QED BY <2>1, <1>4 DEF Pristine
<1>10. Alone(p)'
  BY <1>4, <1>6, <1>7, <1>8, <1>9 DEF Alone, Pristine
<1>11. /\ ~ In(p)' /\ ~ Out(p)' /\ ~ Fr(p)'
  <2>1. Own(hub[p], Me)' \in Relay!Buckets /\ Own(MyConn, p)' \in Relay!Buckets
    BY <1>7, <1>8 DEF Own, Relay!Buckets
  <2> QED BY <2>1, <1>1, <1>4, <1>9 DEF In, Out, Fr, Pristine
<1>12. \A k : k # "peer-joined" => ~ Flies(k, p)'
  <2>1. Notified = {}
    BY <1>4 DEF Notified
  <2> QED BY <2>1, <1>4 DEF Flies, Pristine
<1>13. /\ \A k : ~ Asked(k, p)'
       /\ \A S : HoldsOnce(toRelay', S)
       /\ \A x, y : HoldsFirst(toRelay', x, y)
  <2>1. Len(toRelay') = 0
    BY <1>4 DEF Pristine
  <2>2. 1..Len(toRelay') = {}
    BY <2>1
  <2> QED BY <2>2 DEF Asked, Holds, HoldsOnce, HoldsFirst
<1>14. /\ invitesIn' = {} /\ invitesOut' = {} /\ friendsRef' = {} /\ seenLeft' = {}
       /\ shown'.invitesIn = {} /\ shown'.invitesOut = {} /\ shown'.friends = {}
  BY <1>4 DEF Pristine, pageVars, viewVars
<1>15. Page(p)'
  BY <1>11, <1>12, <1>13, <1>14 DEF Page, Lag, Strangers
<1> QED
  BY <1>5, <1>10, <1>15 DEF First

\* A peer that stays the only one stays in step with the page.
LEMMA FirstStays ==
    ASSUME NEW p \in Them, First(p), TypeOK, [Next]_vars, joins' = joins, hub'[p] # NoConn,
           hub \in [Them \cup {Me} -> Conns \cup {NoConn}], joins \in Nat
    PROVE  First(p)'
<1> USE DEF First
<1>1. lowOrder' = lowOrder
  BY DEF Next, Others, TheyJoin, TheyLeave, TheyAreGone, TheyDirect, RelayReads, OnMessage,
         PeerJoined, PeerLeft, StaleNotice, InviteFrom, AcceptFrom, Answered, Receive,
         User, SendInvite, SendAccept, SendReject, Click, Render, SyncPeersRef, vars
<1>2. ASSUME NEW c \in Conns, NEW q \in Them, NEW a \in Addrs, TheyJoin(c, q, a) PROVE FALSE
  BY <1>2 DEF TheyJoin
<1>3. ASSUME NEW c \in Conns, TheyLeave(c) PROVE FALSE
  <2>1. /\ c # MyConn /\ session[c] # Relay!NoSession
        /\ \/ hub' = [hub EXCEPT ![session[c].id] = NoConn]
           \/ hub[session[c].id] # c
    BY <1>3 DEF TheyLeave, Relay!Leave, Relay!LeaveDisplaced, Relay!Reading
  <2>2. c = hub[p] /\ session[c].id = p
    BY <2>1 DEF Alone
  <2> QED BY <2>1, <2>2
<1>4. ASSUME NEW c \in Conns, TheyAreGone(c) PROVE FALSE
  BY <1>4 DEF TheyAreGone, Relay!OnPeerDisconnect, Alone
<1>5. ASSUME NEW c \in Conns, TheyDirect(c) PROVE First(p)'
  BY <1>1, <1>5, TheyDirectEffect, PageTheyDirect
<1>6. CASE RelayReads
  BY <1>1, <1>6, RelayReadsEffect, PageRelayReads
<1>7. ASSUME UNCHANGED relayVars PROVE Alone(p)'
  BY <1>7, RelayStill
<1>8. CASE OnMessage
  <2>1. UNCHANGED relayVars
    BY <1>8 DEF OnMessage, PeerJoined, PeerLeft, StaleNotice, InviteFrom, AcceptFrom, Answered,
                Receive
  <2> QED BY <2>1, <1>1, <1>7, <1>8, PageOnMessage
<1>9. CASE User
  <2>1. UNCHANGED relayVars
    BY <1>9 DEF User, SendInvite, SendAccept, SendReject, Click
  <2> QED BY <2>1, <1>1, <1>7, <1>9, PageUser
<1>10. CASE Render \/ SyncPeersRef
  <2>1. UNCHANGED relayVars
    BY <1>10 DEF Render, SyncPeersRef
  <2> QED BY <2>1, <1>1, <1>7, <1>10, PageReact
<1>11. CASE UNCHANGED vars
  <2>1. UNCHANGED relayVars /\ Page(p) => Page(p)'
    BY <1>11 DEF vars, pageVars, viewVars, relayVars, Page, Lag, Strangers, Friends, Fr, In, Out,
                 Own, Flies, Asked
  <2>2. UNCHANGED relayVars
    BY <1>11 DEF vars
  <2> QED BY <2>1, <2>2, <1>1, <1>7
<1> QED
  BY <1>2, <1>3, <1>4, <1>5, <1>6, <1>8, <1>9, <1>10, <1>11 DEF Next, Others

\* Who is there changes with joins and leaves only, and joins are counted.
LEMMA HubSteps ==
    ASSUME hub \in [Them \cup {Me} -> Conns \cup {NoConn}], joins \in Nat, [Next]_vars
    PROVE  /\ hub' \in [Them \cup {Me} -> Conns \cup {NoConn}]
           /\ \/ /\ joins' = joins
                 /\ \A p \in Them : hub'[p] # NoConn => hub[p] # NoConn
              \/ /\ joins' = joins + 1
                 /\ \E c \in Conns, p \in Them, a \in Addrs : TheyJoin(c, p, a)
<1>1. ASSUME NEW c \in Conns, NEW p \in Them, NEW a \in Addrs, TheyJoin(c, p, a)
      PROVE  joins' = joins + 1 /\ hub' \in [Them \cup {Me} -> Conns \cup {NoConn}]
  BY <1>1 DEF TheyJoin, Relay!Join
<1>2. ASSUME NEW c \in Conns, TheyLeave(c)
      PROVE  /\ joins' = joins
             /\ hub' = hub \/ hub' = [hub EXCEPT ![session[c].id] = NoConn]
  BY <1>2 DEF TheyLeave, Relay!Leave, Relay!LeaveDisplaced
<1>3. ASSUME NEW c \in Conns, TheyAreGone(c) \/ TheyDirect(c) PROVE joins' = joins /\ hub' = hub
  BY <1>3 DEF TheyAreGone, TheyDirect, Relay!OnPeerDisconnect,
              Relay!HandleInvite, Relay!HandleAccept, Relay!HandleReject
<1>4. CASE RelayReads
  <2>1. joins' = joins /\ hub' = hub
    BY <1>4 DEF RelayReads, Relay!HandleInvite, Relay!HandleAccept, Relay!HandleReject
  <2> QED BY <2>1
<1>5. CASE OnMessage \/ User \/ Render \/ SyncPeersRef \/ UNCHANGED vars
  <2>1. joins' = joins /\ hub' = hub
    BY <1>5 DEF OnMessage, PeerJoined, PeerLeft, StaleNotice, InviteFrom, AcceptFrom, Answered,
                Receive, User, SendInvite, SendAccept, SendReject, Click, Render, SyncPeersRef,
                vars, relayVars
  <2> QED BY <2>1
<1> QED
  BY <1>1, <1>2, <1>3, <1>4, <1>5 DEF Next, Others

LEMMA PristineStays == ASSUME Pristine, [Next]_vars, joins \in Nat, joins' = joins PROVE Pristine'
<1>1. ASSUME NEW c \in Conns, NEW p \in Them, NEW a \in Addrs, TheyJoin(c, p, a) PROVE FALSE
  BY <1>1 DEF TheyJoin
<1>2. ASSUME NEW c \in Conns, c # MyConn, Relay!Reading(c) PROVE FALSE
  BY <1>2 DEF Relay!Reading, Pristine
<1>3. ASSUME NEW c \in Conns, TheyLeave(c) \/ TheyDirect(c) PROVE FALSE
  BY <1>2, <1>3 DEF TheyLeave, TheyDirect, Relay!Leave, Relay!LeaveDisplaced,
                    Relay!HandleInvite, Relay!HandleAccept, Relay!HandleReject
<1>4. ASSUME NEW c \in Conns, TheyAreGone(c) PROVE FALSE
  BY <1>4 DEF TheyAreGone, Relay!OnPeerDisconnect, Pristine
<1>5. ~ RelayReads
  BY DEF RelayReads, Pristine
<1>6. ~ OnMessage
  BY DEF OnMessage, PeerJoined, PeerLeft, StaleNotice, InviteFrom, AcceptFrom, Answered, Receive,
         Pristine
<1>7. ~ User
  BY DEF User, SendInvite, SendAccept, SendReject, Pristine
<1>8. CASE Render \/ SyncPeersRef
  BY <1>8 DEF Render, SyncPeersRef, relayVars, pageVars, View, Pristine
<1>9. CASE UNCHANGED vars
  BY <1>9 DEF vars, relayVars, pageVars, viewVars, Pristine
<1> QED
  BY <1>1, <1>3, <1>4, <1>5, <1>6, <1>7, <1>8, <1>9 DEF Next, Others

LEMMA NextAgree == ASSUME AgreeInv, TypeOK, [Next]_vars PROVE AgreeInv'
<1>1. /\ joins \in Nat /\ hub \in [Them \cup {Me} -> Conns \cup {NoConn}]
      /\ joins = 0 => Pristine
      /\ joins = 1 => \A p \in Them : hub[p] # NoConn => First(p)
  BY DEF AgreeInv
<1>2. hub' \in [Them \cup {Me} -> Conns \cup {NoConn}]
  BY <1>1, HubSteps
<1>3. CASE /\ joins' = joins /\ \A p \in Them : hub'[p] # NoConn => hub[p] # NoConn
  <2>1. joins = 0 => Pristine'
    BY <1>1, <1>3, PristineStays
  <2>2. ASSUME joins = 1, NEW p \in Them, hub'[p] # NoConn PROVE First(p)'
    BY <1>1, <1>3, <2>2, FirstStays
  <2> QED BY <1>1, <1>2, <1>3, <2>1, <2>2 DEF AgreeInv
<1>4. CASE /\ joins' = joins + 1 /\ \E c \in Conns, p \in Them, a \in Addrs : TheyJoin(c, p, a)
  <2>1. ASSUME joins' = 1, NEW q \in Them, hub'[q] # NoConn PROVE First(q)'
    <3>1. Pristine
      BY <1>1, <1>4, <2>1
    <3> QED BY <3>1, <1>4, <2>1, FirstJoins
  <2>2. joins' \in Nat /\ joins' # 0
    BY <1>1, <1>4
  <2> QED BY <1>2, <2>1, <2>2 DEF AgreeInv
<1> QED
  BY <1>1, <1>3, <1>4, HubSteps

LEMMA AgreeFollows == ASSUME AgreeInv PROVE AgreeAtRest
<1> SUFFICES ASSUME AtRest, joins <= 1, NEW p \in Them \ lowOrder, hub[p] # NoConn
             PROVE  /\ p \in friendsRef <=> {Me, p} \in friends
                    /\ p \in invitesIn <=> p \in WaitingFor(Me)
                    /\ p \in invitesOut <=> Me \in WaitingFor(p)
  BY DEF AgreeAtRest
<1>1. p # Me /\ p # NoPeer /\ Me # NoPeer
  BY ConsentAssumption
<1>2. joins = 1
  BY <1>1 DEF AgreeInv, Pristine
<1>3. Alone(p) /\ Page(p)
  BY <1>2 DEF AgreeInv, First
<1>4. \A k : ~ Flies(k, p) /\ ~ Asked(k, p)
  BY DEF AtRest, Flies, Asked, Holds
<1>5. /\ p \in friendsRef <=> Fr(p)
      /\ p \in invitesIn <=> In(p)
      /\ p \in invitesOut <=> Out(p)
  BY <1>3, <1>4 DEF Page, Strangers, Friends
<1>6. /\ Own(hub[p], Me) \in Relay!Buckets /\ Own(hub[p], Me)[2] = Me
      /\ Own(MyConn, p) \in Relay!Buckets /\ Own(MyConn, p)[2] = p
  BY <1>3 DEF Alone, Own, Relay!Buckets
<1>7. p \in WaitingFor(Me) <=> In(p)
  BY <1>1, <1>3, <1>6 DEF WaitingFor, In, Alone
<1>8. Me \in WaitingFor(p) <=> Out(p)
  BY <1>1, <1>3, <1>6 DEF WaitingFor, Out, Alone
<1> QED
  BY <1>5, <1>7, <1>8 DEF Fr

\* At rest the page and the relay agree on the friendship and the invites of
\* the first peer that connected, while it stays, nobody else has come and its
\* key is usable, in whatever order frames and clicks came: no handler of
\* App.tsx loses, repeats or undoes a decision friendship.go made or was told.
THEOREM Agreement == Spec => []AgreeAtRest
<1>1. Init => AgreeInv /\ TypeOK
  BY InitAgree, InitType
<1>2. AgreeInv /\ TypeOK /\ [Next]_vars => (AgreeInv /\ TypeOK)'
  BY NextAgree, NextType
<1>3. AgreeInv => AgreeAtRest
  BY AgreeFollows
<1> QED
  BY <1>1, <1>2, <1>3, PTL DEF Spec
=============================================================================
