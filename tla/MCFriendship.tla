--------------------------- MODULE MCFriendship -----------------------------
(***************************************************************************)
(* Instance of Friendship for TLC.                                         *)
(***************************************************************************)
EXTENDS Friendship, FiniteSets, TLC

CONSTANTS
    LastPeer,   \* an identity that only the long queues need
    LastConn    \* the connection it needs

\* The other identities, the other connections and the addresses are
\* interchangeable.
Symmetry ==
    Permutations(Peers \ {LastPeer}) \cup Permutations(Addrs)
        \cup Permutations(Conns \ {LastConn})

InUse == {c \in Conns : session[c] # NoSession}

\* The last identity and the last connection stay away.
Few ==
    /\ LastConn \notin InUse
    /\ \A c \in InUse : session[c].id # LastPeer
    /\ Cardinality(leaving) <= 2
    /\ Cardinality(friends) <= 2

\* Everybody invites the last identity, from one address and over one
\* connection each, so that its queue becomes as long as it can.
OneLine ==
    /\ \A c1, c2 \in InUse : /\ session[c1].ip = session[c2].ip
                             /\ session[c1].id = session[c2].id => c1 = c2
    /\ \A b \in Buckets : pairs[b] # NoState => b[2] = LastPeer

\* A bound on what TLC explores.
Bounded == Few \/ OneLine
=============================================================================
