----------------------------- MODULE Friendship -----------------------------
(***************************************************************************)
(* The relay's friendship manager (internal/relay/friendship.go) and the   *)
(* part of the hub it depends on (internal/relay/relay.go).                *)
(*                                                                         *)
(* A peer is an identity, an Ed25519 public key.  It reaches the relay     *)
(* over WebSocket connections; the hub holds one of them per identity, and *)
(* a newer one displaces an older one.  Each connection has a goroutine of *)
(* its own that registers it, dispatches its directives and, when its read *)
(* loop ends, unregisters it.  The manager's state is guarded by one       *)
(* mutex, fm.mu, so each handler is one step; the two halves of a          *)
(* departure, Hub.remove and OnPeerDisconnect, take different locks and    *)
(* are two steps.                                                          *)
(*                                                                         *)
(* A connection that is gone may be used again for a later one: nothing in *)
(* the manager's state refers to it, since the code reads only the         *)
(* identity of the sender that a pending invite points to.                 *)
(***************************************************************************)
EXTENDS Naturals, Sequences

CONSTANTS
    Peers,      \* identities (ed25519_pub)
    Addrs,      \* IP addresses the relay sees connections come from
    Conns,      \* WebSocket connections that may exist at one time
    NoConn,     \* hub.lookup found nothing
    NoPeer      \* a bucket with no active invite

ASSUME ConstantsAssumption ==
    /\ NoConn \notin Conns
    /\ NoPeer \notin Peers

VARIABLES
    hub,        \* Hub.peers: the connection registered for each identity
    session,    \* per connection, the Peer record its goroutine serves
    leaving,    \* connections whose remove() returned true and whose
                \* OnPeerDisconnect has not run yet
    pairs,      \* FriendshipManager.pairs: invite state per (IP, recipient)
    friends,    \* FriendshipManager.friends: a set of unordered pairs
    sent        \* notifications the last step handed to writeAsyncToIdentity

vars == <<hub, session, leaving, pairs, friends, sent>>

-----------------------------------------------------------------------------
(* Data. *)

\* A connection that serves nobody: not yet accepted, or its handler returned.
NoSession == [id |-> NoPeer, ip |-> NoPeer]

PeerRecords == [id : Peers, ip : Addrs]

Buckets == Addrs \X Peers

PairStates == [rejected : BOOLEAN,
               active   : Peers \cup {NoPeer},
               queued   : Seq(Peers)]

\* The state a missing map entry stands for: HandleInvite creates it on
\* demand and OnPeerDisconnect deletes a bucket that has come back to it.
NoState == [rejected |-> FALSE, active |-> NoPeer, queued |-> <<>>]

Notices == [kind : {"invite-from", "accept-from", "reject-from",
                    "invite-deferred", "invite-auto-rejected"},
            to : Peers, from : Peers]

Notice(k, t, f) == [kind |-> k, to |-> t, from |-> f]

\* Some WebSocket goroutine c is in its read loop, so it may dispatch.
Reading(c) == session[c] # NoSession /\ c \notin leaving

\* Faulty variant of InFlight: queued invites are not looked at.
InFlightActive(s, r) == \E a \in Addrs : pairs[<<a, r>>].active = s

\* The sender already has an invite to this recipient, active or queued, in
\* the bucket of any IP.
InFlight(s, r) ==
    \E a \in Addrs : \/ pairs[<<a, r>>].active = s
                     \/ \E i \in DOMAIN pairs[<<a, r>>].queued :
                            pairs[<<a, r>>].queued[i] = s

\* The queue q with every invite of p filtered out, in order.  (SelectSeq,
\* written as a recursive function so that it can be reasoned about.)
Without(q, p) ==
    LET kept[i \in 0..Len(q)] ==
            IF i = 0 THEN <<>>
            ELSE IF q[i] = p THEN kept[i-1] ELSE Append(kept[i-1], q[i])
    IN  kept[Len(q)]

\* Positions of a queue whose sender is not yet a friend of r under fs.
Promotable(q, r, fs) == {i \in DOMAIN q : {q[i], r} \notin fs}

\* Faulty variants of PromoteNext: the queue waits on behind no active
\* invite; it is dropped; the last invite is promoted.
DropActive(st, r, fs) == [st EXCEPT !.active = NoPeer]

ClearBucket(st, r, fs) == [st EXCEPT !.active = NoPeer, !.queued = <<>>]

PromoteLast(st, r, fs) ==
    IF st.queued = <<>> THEN ClearBucket(st, r, fs)
    ELSE [st EXCEPT !.active = st.queued[Len(st.queued)],
                    !.queued = SubSeq(st.queued, 1, Len(st.queued) - 1)]

\* The active invite is dropped and the first promotable one takes its
\* place; those popped before it are moot and forgotten.
PromoteNext(st, r, fs) ==
    LET ready == Promotable(st.queued, r, fs)
    IN  IF ready = {}
        THEN [st EXCEPT !.active = NoPeer, !.queued = <<>>]
        ELSE LET i == CHOOSE i \in ready : \A j \in ready : i <= j
             IN  [st EXCEPT !.active = st.queued[i],
                            !.queued = SubSeq(st.queued, i+1, Len(st.queued))]

\* What a promotion that left bucket state st announces.
PromotionNotices(st, r) ==
    IF st.active = NoPeer THEN {}
    ELSE {Notice("invite-from", r, st.active),
          Notice("invite-deferred", st.active, r)}

-----------------------------------------------------------------------------
Init ==
    /\ hub     = [p \in Peers |-> NoConn]
    /\ session = [c \in Conns |-> NoSession]
    /\ leaving = {}
    /\ pairs   = [b \in Buckets |-> NoState]
    /\ friends = {}
    /\ sent    = {}

-----------------------------------------------------------------------------
(* Connections: Hub.add, Hub.remove and the deferred cleanup. *)

\* The handshake of a fresh connection succeeded and Hub.add registers it.
\* A connection it displaces is closed asynchronously: its goroutine may
\* still be dispatching frames it has read.
Join(c, p, a) ==
    /\ session[c] = NoSession
    /\ session' = [session EXCEPT ![c] = [id |-> p, ip |-> a]]
    /\ hub' = [hub EXCEPT ![p] = c]
    /\ sent' = {}
    /\ UNCHANGED <<leaving, pairs, friends>>

\* The read loop ends and remove() finds the entry is this connection's.
Leave(c) ==
    /\ Reading(c)
    /\ hub[session[c].id] = c
    /\ hub' = [hub EXCEPT ![session[c].id] = NoConn]
    /\ leaving' = leaving \cup {c}
    /\ sent' = {}
    /\ UNCHANGED <<session, pairs, friends>>

\* The read loop ends and remove() finds a newer connection, or nothing.
LeaveDisplaced(c) ==
    /\ Reading(c)
    /\ hub[session[c].id] # c
    /\ session' = [session EXCEPT ![c] = NoSession]
    /\ sent' = {}
    /\ UNCHANGED <<hub, leaving, pairs, friends>>

\* The bucket state st for recipient r once p has been dropped from it.
AfterDeparture(st, r, p, fs) ==
    LET kept == [st EXCEPT !.queued = Without(st.queued, p)]
    IN  IF r = p THEN NoState
        ELSE IF st.active = p THEN PromoteNext(kept, r, fs)
        ELSE kept

OnPeerDisconnect(c) ==
    LET p == session[c].id
    IN  /\ c \in leaving
        /\ friends' = {f \in friends : p \notin f}
        /\ pairs' = [b \in Buckets |-> AfterDeparture(pairs[b], b[2], p, friends')]
        /\ sent' = UNION {PromotionNotices(pairs'[b], b[2]) :
                              b \in {k \in Buckets : k[2] # p /\ pairs[k].active = p}}
        /\ session' = [session EXCEPT ![c] = NoSession]
        /\ leaving' = leaving \ {c}
        /\ UNCHANGED hub

-----------------------------------------------------------------------------
(* Directives.  One that the code drops changes nothing, and is no step.   *)

\* Faulty variant of MayInvite: the recipient is not looked up.
MayInviteOffline(s, r) == s # r /\ {s, r} \notin friends /\ ~InFlight(s, r)

\* The guards under fm.mu: the recipient is connected, the two are not
\* friends, and the sender has no invite to the recipient in any bucket.
MayInvite(s, r) ==
    /\ s # r
    /\ hub[r] # NoConn
    /\ {s, r} \notin friends
    /\ ~InFlight(s, r)

HandleInvite(c, r) ==
    LET s == session[c].id
        b == <<session[c].ip, r>>
    IN  /\ Reading(c)
        /\ MayInvite(s, r)
        /\ \/ /\ pairs[b].rejected
              /\ sent' = {Notice("invite-auto-rejected", s, r)}
              /\ UNCHANGED pairs
           \/ /\ ~pairs[b].rejected
              /\ pairs[b].active # NoPeer
              /\ pairs' = [pairs EXCEPT ![b].queued = Append(@, s)]
              /\ sent' = {}
           \/ /\ ~pairs[b].rejected
              /\ pairs[b].active = NoPeer
              /\ pairs' = [pairs EXCEPT ![b].active = s]
              /\ sent' = {Notice("invite-from", r, s)}
        /\ UNCHANGED <<hub, session, leaving, friends>>

\* The originator is connected and its invite is active in bucket b, that
\* of the IP it was sent from.
Answerable(b, r, o) ==
    /\ b[2] = r
    /\ hub[o] # NoConn
    /\ pairs[b].active = o

\* Faulty variant of Reciprocal: the responder's own invite is left alone.
NoReciprocal(r, o) == {}

\* The buckets in which the responder's own invite to the originator is
\* active: the reciprocal that an accept makes moot.
Reciprocal(r, o) == {b \in Buckets : b[2] = o /\ pairs[b].active = r}

\* The buckets an accept promotes: that of the accepted invite, and one of
\* the reciprocal ones if there is any (map iteration picks it).
Settled(b, r, o) ==
    IF Reciprocal(r, o) = {} THEN {{b}} ELSE {{b, k} : k \in Reciprocal(r, o)}

HandleAccept(c, o) ==
    LET r == session[c].id
    IN  /\ Reading(c)
        /\ \E b \in Buckets :
              /\ Answerable(b, r, o)
              /\ friends' = friends \cup {{r, o}}
              /\ \E moot \in Settled(b, r, o) :
                    /\ pairs' = [k \in Buckets |->
                                    IF k \in moot
                                    THEN PromoteNext(pairs[k], k[2], friends')
                                    ELSE pairs[k]]
                    /\ sent' = {Notice("accept-from", o, r)} \cup
                               UNION {PromotionNotices(pairs'[k], k[2]) : k \in moot}
        /\ UNCHANGED <<hub, session, leaving>>

HandleReject(c, o) ==
    LET r == session[c].id
    IN  /\ Reading(c)
        /\ \E b \in Buckets :
              /\ Answerable(b, r, o)
              /\ pairs' = [pairs EXCEPT ![b] =
                              [rejected |-> TRUE, active |-> NoPeer, queued |-> <<>>]]
              /\ sent' = {Notice("reject-from", o, r)} \cup
                         {Notice("invite-auto-rejected", pairs[b].queued[i], r) :
                              i \in DOMAIN pairs[b].queued}
        /\ UNCHANGED <<hub, session, leaving, friends>>

-----------------------------------------------------------------------------
Next ==
    \E c \in Conns :
        \/ \E p \in Peers, a \in Addrs : Join(c, p, a)
        \/ Leave(c)
        \/ LeaveDisplaced(c)
        \/ OnPeerDisconnect(c)
        \/ \E p \in Peers : HandleInvite(c, p)
        \/ \E p \in Peers : HandleAccept(c, p)
        \/ \E p \in Peers : HandleReject(c, p)

Spec == Init /\ [][Next]_vars

-----------------------------------------------------------------------------
(* Properties. *)

\* Every variable keeps its shape, the hub maps an identity only to a
\* connection of that identity that is still in its read loop, and a
\* connection being cleaned up still has its record.
TypeOK ==
    /\ hub \in [Peers -> Conns \cup {NoConn}]
    /\ session \in [Conns -> PeerRecords \cup {NoSession}]
    /\ leaving \subseteq Conns
    /\ pairs \in [Buckets -> PairStates]
    /\ friends \subseteq SUBSET Peers
    /\ sent \subseteq Notices
    /\ \A p \in Peers : hub[p] # NoConn => Reading(hub[p]) /\ session[hub[p]].id = p
    /\ \A c \in leaving : session[c] # NoSession

\* The invites of a bucket, the active one first.
Line(b) == IF pairs[b].active = NoPeer THEN pairs[b].queued
           ELSE <<pairs[b].active>> \o pairs[b].queued

\* An identity never has two invites to one recipient, not in one bucket
\* and not in the buckets of two IPs it connected from (the cross-bucket
\* dedup of HandleInvite): a second one would survive the answer to the first.
OneInviteInFlight ==
    \A r \in Peers, a1, a2 \in Addrs :
        LET l1 == Line(<<a1, r>>)
            l2 == Line(<<a2, r>>)
        IN  \A i \in DOMAIN l1, j \in DOMAIN l2 :
                l1[i] = l2[j] => a1 = a2 /\ i = j

\* No invite waits behind nothing: whichever handler takes the active invite
\* of a bucket away (accept, its reciprocal, reject, departure) promotes or
\* clears the queue, and a rejected bucket holds no invite at all.
NoStrandedQueue ==
    \A b \in Buckets :
        /\ pairs[b].active = NoPeer => pairs[b].queued = <<>>
        /\ pairs[b].rejected => pairs[b].active = NoPeer

\* The invite a bucket waits on is never one between friends, however the
\* friendship arose (the reciprocal cleanup of HandleAccept and the skipping
\* in promoteNext): its recipient would have no reason to answer it, and the
\* other senders of that IP would wait behind it.
NoInviteBetweenFriends ==
    \A b \in Buckets :
        pairs[b].active # NoPeer => {pairs[b].active, b[2]} \notin friends

\* The hub or a cleanup still to run accounts for this identity.
Accounted(p) ==
    \/ hub[p] # NoConn
    \/ \E c \in leaving : session[c].id = p

\* Whatever the manager keeps about invites to a recipient will be dropped
\* when the recipient goes: the recipient is registered, or its cleanup is
\* still to come (HandleInvite looks the recipient up under fm.mu).
RecipientsAccounted ==
    \A b \in Buckets : pairs[b] # NoState => Accounted(b[2])

\* The same for friendships: both ends are registered or about to be cleaned
\* up, although HandleAccept looks up only the originator.
FriendsAccounted ==
    \A f \in friends : \A p \in f : Accounted(p)

\* Nothing the manager keeps outlives the peers it is about, whatever leaves
\* and cleanups interleave with invites and answers.
GoneAreForgotten == RecipientsAccounted /\ FriendsAccounted

\* The buckets a step changes.
Changed == {b \in Buckets : pairs'[b] # pairs[b]}

\* An identity whose connection was lost.
Departed(p) == \E c \in leaving \ leaving' : session[c].id = p

\* An invite that a step takes out of its bucket was made moot by a
\* friendship, lost an end to a disconnect, or its sender is told it was
\* rejected: no invite vanishes with its sender still waiting on it.
NoSilentDrop ==
    [][\A b \in Changed : \A i \in DOMAIN Line(b) :
          LET s == Line(b)[i]
              r == b[2]
          IN  \/ \E j \in DOMAIN Line(b)' : Line(b)'[j] = s
              \/ {s, r} \in friends'
              \/ Departed(s) \/ Departed(r)
              \/ \E n \in sent' : /\ n.to = s /\ n.from = r
                                  /\ n.kind \in {"reject-from", "invite-auto-rejected"}
      ]_vars

\* First come, first served: two invites that stay in a bucket keep their
\* order, through appends, promotions and the filtering of a departure.
NoOvertaking ==
    [][\A b \in Changed :
          \A i, j \in DOMAIN Line(b) : \A k, l \in DOMAIN Line(b)' :
              (i < j /\ Line(b)'[k] = Line(b)[i] /\ Line(b)'[l] = Line(b)[j]) => k < l
      ]_vars

-----------------------------------------------------------------------------
(* What a comment of the code says, and the code does not do. *)

\* "a displaced peer's invites and friendships still belong to the live
\* connection's identity": a friendship ends only when an end is offline.
FriendshipSurvivesReconnect ==
    [][\A f \in friends \ friends' : \E p \in f : hub'[p] = NoConn]_vars
=============================================================================
