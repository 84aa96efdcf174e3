------------------------------- MODULE Consent -------------------------------
(***************************************************************************)
(* The portal's view of its friendships (App.tsx) and the relay that owns  *)
(* them (Friendship), with what is on its way between the two.             *)
(*                                                                         *)
(* The page of one identity, Me, is modelled handler by handler; the other *)
(* identities connect, leave and send any directive the relay would act    *)
(* on.  Frames reach the page in any order, since the relay writes each    *)
(* from a goroutine of its own; directives reach the relay in order.       *)
(*                                                                         *)
(* React shows what was rendered last, and the ref the handlers look peers *)
(* up in follows one step later, in an effect; a click is rendered at once *)
(* with its effects.                                                       *)
(***************************************************************************)
EXTENDS Naturals, Sequences, FiniteSets

CONSTANTS
    Me,         \* the identity of the page
    Them,       \* the other identities
    Addrs, Conns, NoConn, NoPeer,   \* as in Friendship
    MyConn,     \* the page's connection
    MaxJoins,   \* bound: connections the others make
    MaxAir,     \* bound: frames on their way to the page, all different
    MaxQueued   \* bound: directives on their way to the relay

ASSUME ConsentAssumption ==
    /\ Me \notin Them /\ NoPeer \notin Them \cup {Me}
    /\ MyConn \in Conns /\ NoConn \notin Conns
    /\ {MaxJoins, MaxAir, MaxQueued} \subseteq Nat

VARIABLES
    hub, session, leaving, pairs, friends, sent,    \* the relay: Friendship
    joins,          \* connections made by the others
    air,            \* frames on their way to Me
    toRelay,        \* directives on their way to the relay
    lowOrder,       \* peers with a signed X25519 key that ECDH cannot use
    peers,          \* React state: the directory
    invitesIn, invitesOut,  \* React state: pending invites, from and to
    friendsRef,     \* the friends, and the React state set to the same value
    seenLeft,       \* seenLeftRef: peers whose last discovery frame was peer-left
    sessionCache,   \* EnvelopeMessenger: peers with session keys
    shown,          \* what is rendered
    peersRef        \* the directory as the last effect left it

relayVars == <<hub, session, leaving, pairs, friends, sent>>
pageVars  == <<peers, invitesIn, invitesOut, friendsRef, seenLeft, sessionCache>>
viewVars  == <<shown, peersRef>>
vars      == <<relayVars, joins, air, toRelay, lowOrder, pageVars, viewVars>>

Relay == INSTANCE Friendship WITH Peers <- Them \cup {Me}

-----------------------------------------------------------------------------
(* Data. *)

Frames == {"peer-joined", "peer-left", "invite-from", "accept-from", "reject-from",
           "invite-deferred", "invite-auto-rejected"} \X Them

Directives == {"invite", "accept", "reject"} \X Them

\* What the last relay step notifies the page of.
Notified == {<<n.kind, n.from>> : n \in {m \in sent' : m.to = Me}}

\* The frames fs and the notifications leave for the page.
Fly(fs) ==
    /\ air' = air \cup fs \cup Notified
    /\ air \cap (fs \cup Notified) = {}
    /\ Cardinality(air') <= MaxAir

View == [peers |-> peers, invitesIn |-> invitesIn, invitesOut |-> invitesOut,
         friends |-> friendsRef]

Init ==
    /\ \E a \in Addrs :
          /\ hub = [p \in Them \cup {Me} |-> IF p = Me THEN MyConn ELSE NoConn]
          /\ session = [c \in Conns |-> IF c = MyConn THEN [id |-> Me, ip |-> a]
                                                      ELSE Relay!NoSession]
    /\ leaving = {} /\ friends = {} /\ sent = {}
    /\ pairs = [b \in Relay!Buckets |-> Relay!NoState]
    /\ joins = 0 /\ air = {} /\ toRelay = <<>>
    /\ lowOrder \in SUBSET Them
    /\ peers = {} /\ invitesIn = {} /\ invitesOut = {} /\ friendsRef = {}
    /\ seenLeft = {} /\ sessionCache = {}
    /\ shown = View /\ peersRef = {}

-----------------------------------------------------------------------------
(* The others. *)

TheyJoin(c, p, a) ==
    /\ p # Me
    /\ joins < MaxJoins
    /\ joins' = joins + 1
    /\ Relay!Join(c, p, a)
    /\ Fly({<<"peer-joined", p>>})
    /\ UNCHANGED <<toRelay, lowOrder, pageVars, viewVars>>

TheyLeave(c) ==
    /\ c # MyConn
    /\ Relay!Leave(c) \/ Relay!LeaveDisplaced(c)
    /\ UNCHANGED <<joins, air, toRelay, lowOrder, pageVars, viewVars>>

\* OnPeerDisconnect, and the peer-left that its handler broadcasts after it.
TheyAreGone(c) ==
    /\ Relay!OnPeerDisconnect(c)
    /\ Fly({<<"peer-left", session[c].id>>})
    /\ UNCHANGED <<joins, toRelay, lowOrder, pageVars, viewVars>>

TheyDirect(c) ==
    /\ c # MyConn
    /\ \E p \in Them \cup {Me} :
          Relay!HandleInvite(c, p) \/ Relay!HandleAccept(c, p) \/ Relay!HandleReject(c, p)
    /\ Fly({})
    /\ UNCHANGED <<joins, toRelay, lowOrder, pageVars, viewVars>>

\* The relay reads a directive of the page, and acts on it or drops it.
RelayReads ==
    LET kind == Head(toRelay)[1]
        p    == Head(toRelay)[2]
        answers == \E b \in Relay!Buckets : Relay!Answerable(b, Me, p)
    IN  /\ toRelay # <<>>
        /\ toRelay' = Tail(toRelay)
        /\ \/ kind = "invite" /\ Relay!HandleInvite(MyConn, p)
           \/ kind = "accept" /\ Relay!HandleAccept(MyConn, p)
           \/ kind = "reject" /\ Relay!HandleReject(MyConn, p)
           \/ /\ IF kind = "invite" THEN ~ Relay!MayInvite(Me, p) ELSE ~ answers
              /\ sent' = {}
              /\ UNCHANGED <<hub, session, leaving, pairs, friends>>
        /\ Fly({})
        /\ UNCHANGED <<joins, lowOrder, pageVars, viewVars>>

-----------------------------------------------------------------------------
(* The page's handlers of discovery and friendship frames. *)

Receive(kind, p) ==
    /\ <<kind, p>> \in air
    /\ air' = air \ {<<kind, p>>}
    /\ UNCHANGED <<relayVars, joins, toRelay, lowOrder, viewVars>>

\* Friends whose keys were not derived yet are caught up with, or dropped.
PeerJoined(p) ==
    /\ Receive("peer-joined", p)
    /\ seenLeft' = seenLeft \ {p}
    /\ peers' = peers \cup {p}
    /\ IF p \in friendsRef \ sessionCache
       THEN IF p \in lowOrder
            THEN friendsRef' = friendsRef \ {p} /\ UNCHANGED sessionCache
            ELSE sessionCache' = sessionCache \cup {p} /\ UNCHANGED friendsRef
       ELSE UNCHANGED <<friendsRef, sessionCache>>
    /\ UNCHANGED <<invitesIn, invitesOut>>

\* Faulty variant of PeerLeft: the session keys stay.
PeerLeftKeys(p) ==
    /\ Receive("peer-left", p)
    /\ seenLeft' = seenLeft \cup {p}
    /\ peers' = peers \ {p}
    /\ invitesIn' = invitesIn \ {p}
    /\ invitesOut' = invitesOut \ {p}
    /\ friendsRef' = friendsRef \ {p}
    /\ UNCHANGED sessionCache

PeerLeft(p) ==
    /\ Receive("peer-left", p)
    /\ seenLeft' = seenLeft \cup {p}
    /\ peers' = peers \ {p}
    /\ invitesIn' = invitesIn \ {p}
    /\ invitesOut' = invitesOut \ {p}
    /\ friendsRef' = friendsRef \ {p}
    /\ sessionCache' = sessionCache \ {p}

\* Faulty variant of Current: a notification is taken at face value.
AnyNotice(p) == TRUE

\* The stale-notification gate.
Current(p) == p \notin seenLeft

\* A notification about a peer that was seen leaving is dropped.
StaleNotice(p) ==
    /\ ~ Current(p)
    /\ \E kind \in {f[1] : f \in Frames} \ {"peer-joined", "peer-left"} : Receive(kind, p)
    /\ UNCHANGED pageVars

InviteFrom(p) ==
    /\ Current(p)
    /\ Receive("invite-from", p)
    /\ invitesIn' = IF p \in friendsRef THEN invitesIn ELSE invitesIn \cup {p}
    /\ UNCHANGED <<peers, invitesOut, friendsRef, seenLeft, sessionCache>>

\* Keys are derived if the peer is in the directory the ref knows; a key
\* that cannot be used costs the friendship.
AcceptFrom(p) ==
    /\ Current(p)
    /\ Receive("accept-from", p)
    /\ invitesOut' = invitesOut \ {p}
    /\ IF p \in peersRef \cap lowOrder
       THEN UNCHANGED <<invitesIn, friendsRef, sessionCache>>
       ELSE /\ invitesIn' = invitesIn \ {p}
            /\ friendsRef' = friendsRef \cup {p}
            /\ sessionCache' = sessionCache \cup ({p} \cap peersRef)
    /\ UNCHANGED <<peers, seenLeft>>

\* reject-from and invite-auto-rejected end an invite; invite-deferred only
\* tells the user to wait.
Answered(p) ==
    /\ Current(p)
    /\ \E kind \in {"reject-from", "invite-auto-rejected", "invite-deferred"} :
          /\ Receive(kind, p)
          /\ invitesOut' = IF kind = "invite-deferred" THEN invitesOut ELSE invitesOut \ {p}
    /\ UNCHANGED <<peers, invitesIn, friendsRef, seenLeft, sessionCache>>

-----------------------------------------------------------------------------
(* The user.  A directive is sent before the state changes. *)

Click(directive) ==
    /\ Len(toRelay) < MaxQueued
    /\ toRelay' = Append(toRelay, directive)
    /\ UNCHANGED <<relayVars, joins, air, lowOrder, peers, seenLeft>>
    /\ shown' = View'
    /\ peersRef' = peers

SendInvite(p) ==
    /\ p \in shown.peers \ (shown.friends \cup shown.invitesIn \cup shown.invitesOut)
    /\ invitesOut' = invitesOut \cup {p}
    /\ UNCHANGED <<invitesIn, friendsRef, sessionCache>>
    /\ Click(<<"invite", p>>)

\* Faulty variant of SendAccept: the reciprocal invite is left pending.
SendAcceptOnly(p) ==
    /\ p \in (shown.invitesIn \cap shown.peers) \ shown.friends
    /\ p \in peersRef \ lowOrder
    /\ sessionCache' = sessionCache \cup {p}
    /\ invitesIn' = invitesIn \ {p}
    /\ friendsRef' = friendsRef \cup {p}
    /\ UNCHANGED invitesOut
    /\ Click(<<"accept", p>>)

\* With a peer the ref does not know, or keys that cannot be derived, the
\* click does nothing.
SendAccept(p) ==
    /\ p \in (shown.invitesIn \cap shown.peers) \ shown.friends
    /\ p \in peersRef \ lowOrder
    /\ sessionCache' = sessionCache \cup {p}
    /\ invitesIn' = invitesIn \ {p}
    /\ invitesOut' = invitesOut \ {p}
    /\ friendsRef' = friendsRef \cup {p}
    /\ Click(<<"accept", p>>)

SendReject(p) ==
    /\ p \in shown.invitesIn \ shown.friends
    /\ invitesIn' = invitesIn \ {p}
    /\ UNCHANGED <<invitesOut, friendsRef, sessionCache>>
    /\ Click(<<"reject", p>>)

-----------------------------------------------------------------------------
(* React.  The effect of one render runs before the next. *)

Render ==
    /\ shown # View
    /\ shown' = View
    /\ peersRef' = shown.peers
    /\ UNCHANGED <<relayVars, joins, air, toRelay, lowOrder, pageVars>>

SyncPeersRef ==
    /\ peersRef # shown.peers
    /\ peersRef' = shown.peers
    /\ UNCHANGED <<relayVars, joins, air, toRelay, lowOrder, pageVars, shown>>

-----------------------------------------------------------------------------
OnMessage ==
    \E p \in Them :
        \/ PeerJoined(p) \/ PeerLeft(p) \/ StaleNotice(p)
        \/ InviteFrom(p) \/ AcceptFrom(p) \/ Answered(p)

User == \E p \in Them : SendInvite(p) \/ SendAccept(p) \/ SendReject(p)

Others ==
    \E c \in Conns :
        \/ \E p \in Them, a \in Addrs : TheyJoin(c, p, a)
        \/ TheyLeave(c) \/ TheyAreGone(c) \/ TheyDirect(c)

Next == Others \/ RelayReads \/ OnMessage \/ User \/ Render \/ SyncPeersRef

Spec == Init /\ [][Next]_vars

-----------------------------------------------------------------------------
(* Properties. *)

\* Every variable of the page keeps its shape.
TypeOK ==
    /\ toRelay \in Seq(Directives)
    /\ peers \subseteq Them /\ peersRef \subseteq Them
    /\ invitesIn \subseteq Them /\ invitesOut \subseteq Them
    /\ friendsRef \subseteq Them /\ seenLeft \subseteq Them
    /\ sessionCache \subseteq Them
    /\ shown \in [peers : SUBSET Them, invitesIn : SUBSET Them,
                  invitesOut : SUBSET Them, friends : SUBSET Them]

\* Session keys are kept for friends only: whatever was lost, dropped or
\* undone, no key outlives the friendship it was derived for.
KeysOfFriendsOnly == sessionCache \subseteq friendsRef

\* An invite is on show only while there is something to answer: not once
\* its sender was seen leaving, when the relay has forgotten it however late
\* its notification arrives, and not once its sender is a friend, whichever
\* of accept and invite came first.
InvitesAreOpen == invitesIn \cap (seenLeft \cup friendsRef) = {}

\* Nothing is on its way and the page shows what it knows.
AtRest ==
    /\ air = {} /\ toRelay = <<>> /\ leaving = {}
    /\ shown = View /\ peersRef = peers

\* The invites that wait for an answer from r, according to the relay.
WaitingFor(r) == {pairs[b].active : b \in {k \in Relay!Buckets : k[2] = r}} \ {NoPeer}

\* Page and relay agree on friendships and invites once everything arrived,
\* in whatever order, as long as the peer connected once, is still there and
\* has a usable key: each end has then seen all of the other's decisions.
AgreeAtRest ==
    (AtRest /\ joins <= 1) =>
        \A p \in Them \ lowOrder :
            hub[p] # NoConn =>
                /\ p \in friendsRef <=> {Me, p} \in friends
                /\ p \in invitesIn <=> p \in WaitingFor(Me)
                /\ p \in invitesOut <=> Me \in WaitingFor(p)
=============================================================================
