----------------------------- MODULE Discovery ------------------------------
(***************************************************************************)
(* Discovery: how a connection learns who else is connected                *)
(* (internal/relay/relay.go; the receiving end is handlePeerList,          *)
(* handlePeerJoined and handlePeerLeft of internal/client/client.go).      *)
(*                                                                         *)
(* Each WebSocket has a handler goroutine.  It registers the connection,   *)
(* and under Hub.broadcastMu takes a snapshot of the hub, writes it as     *)
(* peer-list and starts one goroutine per other connection that writes     *)
(* peer-joined.  When its read loop ends it removes the entry if it still  *)
(* owns it, and under broadcastMu starts the goroutines that write         *)
(* peer-left.  The goroutines of one broadcast, and of two broadcasts,     *)
(* reach the target's socket in any order.                                 *)
(*                                                                         *)
(* A client handles its frames in the order in which they reach its        *)
(* socket, so a write and its handling are one step here.  A connection is *)
(* used once.  A record is reduced to the identity in it.                  *)
(***************************************************************************)
EXTENDS Naturals, FiniteSets

CONSTANTS
    Peers,      \* identities (ed25519_pub)
    Conns,      \* WebSocket connections
    NoPeer,     \* owner of a connection that has not identified itself
    NoConn      \* no entry in the hub; nobody holds broadcastMu

ASSUME ConstantsAssumption ==
    /\ NoPeer \notin Peers
    /\ NoConn \notin Conns

VARIABLES
    hub,            \* Hub.peers: the connection registered for each identity
    broadcastMu,    \* the connection whose handler holds Hub.broadcastMu
    owner,          \* per connection, the identity it authenticated as
    phase,          \* per connection, how far its handler has come
    snap,           \* per connection, the peer-list it is about to write
    posted,         \* broadcast frames whose goroutine has not written yet
    view            \* per connection, the peers its client shows

vars == <<hub, broadcastMu, owner, phase, snap, posted, view>>

-----------------------------------------------------------------------------
(* Data. *)

Phases == {"new",       \* before Hub.add
           "added",     \* in the hub, waiting for broadcastMu
           "listing",   \* holds broadcastMu and a snapshot
           "listed",    \* holds broadcastMu, peer-list written
           "reading",   \* in the read loop
           "failed",    \* peer-list could not be written
           "removed",   \* remove() was true, peer-left not broadcast yet
           "gone"}      \* the handler has returned

\* A frame that one broadcast goroutine will write to one connection.
Frames == [kind : {"joined", "left"}, about : Peers, to : Conns]

\* Hub.snapshot, without the reader's own entry.
Snapshot(p) == {q \in Peers \ {p} : hub[q] # NoConn}

\* What broadcastExcept starts: one frame per connection registered now,
\* other than the announced identity's own.
BroadcastExcept(k, p) ==
    {[kind |-> k, about |-> p, to |-> hub[q]] : q \in Snapshot(p)}

-----------------------------------------------------------------------------
Init ==
    /\ hub = [p \in Peers |-> NoConn]
    /\ broadcastMu = NoConn
    /\ owner = [c \in Conns |-> NoPeer]
    /\ phase = [c \in Conns |-> "new"]
    /\ snap = [c \in Conns |-> {}]
    /\ posted = {}
    /\ view = [c \in Conns |-> {}]

-----------------------------------------------------------------------------
(* The handler of connection c. *)

\* Hub.add: the newest connection of an identity owns its entry.
Add(c, p) ==
    /\ phase[c] = "new"
    /\ owner' = [owner EXCEPT ![c] = p]
    /\ hub' = [hub EXCEPT ![p] = c]
    /\ phase' = [phase EXCEPT ![c] = "added"]
    /\ UNCHANGED <<broadcastMu, snap, posted, view>>

\* Faulty variant of TakeSnapshot: it does not wait for broadcastMu.
TakeSnapshotUnlocked(c) ==
    /\ phase[c] = "added"
    /\ broadcastMu' = c
    /\ snap' = [snap EXCEPT ![c] = Snapshot(owner[c])]
    /\ phase' = [phase EXCEPT ![c] = "listing"]
    /\ UNCHANGED <<hub, owner, posted, view>>

\* broadcastMu.Lock() and hub.snapshot.
TakeSnapshot(c) ==
    /\ phase[c] = "added"
    /\ broadcastMu = NoConn
    /\ broadcastMu' = c
    /\ snap' = [snap EXCEPT ![c] = Snapshot(owner[c])]
    /\ phase' = [phase EXCEPT ![c] = "listing"]
    /\ UNCHANGED <<hub, owner, posted, view>>

\* writeTo looks the identity up again: a newer connection that displaced c
\* gets the list.  The client replaces its whole peer set.
WritePeerList(c) ==
    /\ phase[c] = "listing"
    /\ hub[owner[c]] # NoConn
    /\ view' = [view EXCEPT ![hub[owner[c]]] = snap[c]]
    /\ snap' = [snap EXCEPT ![c] = {}]
    /\ phase' = [phase EXCEPT ![c] = "listed"]
    /\ UNCHANGED <<hub, broadcastMu, owner, posted>>

\* Faulty variant of PeerListFails: the early return keeps broadcastMu.
PeerListFailsLocked(c) ==
    /\ phase[c] = "listing"
    /\ snap' = [snap EXCEPT ![c] = {}]
    /\ phase' = [phase EXCEPT ![c] = "failed"]
    /\ UNCHANGED <<hub, broadcastMu, owner, posted, view>>

\* The identity is not connected any more, or the write fails.
PeerListFails(c) ==
    /\ phase[c] = "listing"
    /\ broadcastMu' = NoConn
    /\ snap' = [snap EXCEPT ![c] = {}]
    /\ phase' = [phase EXCEPT ![c] = "failed"]
    /\ UNCHANGED <<hub, owner, posted, view>>

\* broadcastExcept(peer-joined) and broadcastMu.Unlock().
AnnounceJoined(c) ==
    /\ phase[c] = "listed"
    /\ posted' = posted \cup BroadcastExcept("joined", owner[c])
    /\ broadcastMu' = NoConn
    /\ phase' = [phase EXCEPT ![c] = "reading"]
    /\ UNCHANGED <<hub, owner, snap, view>>

\* The read loop ends, or the join sequence was cut short: remove().  What
\* was still to be written to the connection fails, and its client is gone.
Remove(c) ==
    /\ phase[c] \in {"reading", "failed"}
    /\ IF hub[owner[c]] = c
       THEN /\ hub' = [hub EXCEPT ![owner[c]] = NoConn]
            /\ phase' = [phase EXCEPT ![c] = "removed"]
       ELSE /\ phase' = [phase EXCEPT ![c] = "gone"]
            /\ UNCHANGED hub
    /\ posted' = {f \in posted : f.to # c}
    /\ view' = [view EXCEPT ![c] = {}]
    /\ UNCHANGED <<broadcastMu, owner, snap>>

\* Faulty variant of AnnounceLeft: it does not wait for broadcastMu.
AnnounceLeftUnlocked(c) ==
    /\ phase[c] = "removed"
    /\ posted' = posted \cup BroadcastExcept("left", owner[c])
    /\ phase' = [phase EXCEPT ![c] = "gone"]
    /\ UNCHANGED <<hub, broadcastMu, owner, snap, view>>

\* The leave sequence under broadcastMu.
AnnounceLeft(c) ==
    /\ phase[c] = "removed"
    /\ broadcastMu = NoConn
    /\ posted' = posted \cup BroadcastExcept("left", owner[c])
    /\ phase' = [phase EXCEPT ![c] = "gone"]
    /\ UNCHANGED <<hub, broadcastMu, owner, snap, view>>

-----------------------------------------------------------------------------
(* The goroutines of a broadcast, and the client that reads the frame. *)

Deliver(f) ==
    /\ f \in posted
    /\ posted' = posted \ {f}
    /\ view' = [view EXCEPT ![f.to] =
                    IF f.kind = "joined" THEN @ \cup {f.about} ELSE @ \ {f.about}]
    /\ UNCHANGED <<hub, broadcastMu, owner, phase, snap>>

-----------------------------------------------------------------------------
Handler(c) ==
    \/ TakeSnapshot(c)
    \/ WritePeerList(c)
    \/ PeerListFails(c)
    \/ AnnounceJoined(c)
    \/ AnnounceLeft(c)

Next ==
    \/ \E c \in Conns : \/ Handler(c)
                        \/ Remove(c)
                        \/ \E p \in Peers : Add(c, p)
    \/ \E f \in posted : Deliver(f)

\* A handler that can go on does: sync.Mutex hands broadcastMu to a waiter
\* that has been passed over, and the write of a peer-list is bounded by
\* broadcastWriteTimeout.  Nothing makes a client connect or disconnect.
Fairness == \A c \in Conns : /\ SF_vars(Handler(c))
                              /\ WF_vars(phase[c] = "failed" /\ Remove(c))

Spec == Init /\ [][Next]_vars /\ Fairness

-----------------------------------------------------------------------------
(* Properties. *)

\* Every variable keeps its shape, the hub maps an identity to one of its
\* connections whose handler has not passed remove(), and broadcastMu is
\* held exactly through the join sequence.
TypeOK ==
    /\ hub \in [Peers -> Conns \cup {NoConn}]
    /\ broadcastMu \in Conns \cup {NoConn}
    /\ owner \in [Conns -> Peers \cup {NoPeer}]
    /\ phase \in [Conns -> Phases]
    /\ snap \in [Conns -> SUBSET Peers]
    /\ posted \subseteq Frames
    /\ view \in [Conns -> SUBSET Peers]
    /\ \A p \in Peers : hub[p] # NoConn =>
           owner[hub[p]] = p /\ phase[hub[p]] \notin {"new", "removed", "gone"}
    /\ \A c \in Conns : /\ phase[c] # "new" => owner[c] \in Peers
                        /\ phase[c] \in {"listing", "listed"} <=> broadcastMu = c

\* The peer-left of identity p has not been broadcast yet.
LeftToCome(p) == \E x \in Conns : owner[x] = p /\ phase[x] = "removed"

\* A peer that is in a peer-list about to be written is still connected, or
\* its peer-left will be broadcast after the list: the list never brings back
\* a peer whose departure the reader was already told (Hub.broadcastMu).
SnapshotIsBacked ==
    \A c \in Conns : phase[c] = "listing" =>
        \A p \in snap[c] : hub[p] # NoConn \/ LeftToCome(p)

\* The handler of connection d is in its read loop and no frame about p is
\* on its way to d.
Settled(d, p) ==
    /\ phase[d] = "reading"
    /\ hub[owner[d]] = d
    /\ \A f \in posted : ~ (f.to = d /\ f.about = p)

\* The identity has connected once.
ConnectedOnce(p) == Cardinality({c \in Conns : owner[c] = p}) = 1

\* A peer that connected once and has been announced is shown by everyone
\* whose own join sequence is over, whatever the interleaving of the two
\* join sequences: it was in the snapshot, or the broadcast found the other.
NobodyMissing ==
    \A p \in Peers, d \in Conns :
        (/\ ConnectedOnce(p)
         /\ hub[p] # NoConn
         /\ phase[hub[p]] = "reading"
         /\ Settled(d, p)
         /\ owner[d] # p) => p \in view[d]

\* A connection that was added gets through the join sequence, or gives it
\* up and goes, and one that was removed gets to announce it, however others
\* come and go: nobody keeps broadcastMu on the early return.
EveryHandlerProceeds ==
    \A c \in Conns :
        phase[c] \in {"added", "failed", "removed"} ~> phase[c] \in {"reading", "gone"}
=============================================================================
