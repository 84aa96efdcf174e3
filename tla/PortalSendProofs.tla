--------------------------- MODULE PortalSendProofs ---------------------------
(***************************************************************************)
(* What holds of sending from the portal for files and windows of any      *)
(* size: a send is a TransferLifecycle, and it is done only when the peer  *)
(* gets the whole file; and, as long as no other transfer makes the page   *)
(* render, the window is kept to, a sender with no room has an ack to wait *)
(* for, and nothing is aborted without a cause.                            *)
(***************************************************************************)
EXTENDS PortalSend, SequenceTheorems, TLAPS

\* Where the sending loop is running, and where an offer has been answered.
Running == {"seal", "frame", "window", "buffer"}
Begun   == Running \cup {"stuck", "over"}

Sent == [kind : {"chunk", "end"}, n : Nat]
Acks == [kind : {"ack"}, n : Nat]

Peers == [received : Nat, lastAcked : Nat, ended : BOOLEAN, silent : BOOLEAN, left : BOOLEAN]

Offer == Frame("offer", 0)

-----------------------------------------------------------------------------
(* Queues and records. *)

\* transfer-end is the last thing that is on its way.
EndIsLast(q) == \A i \in 1..Len(q) : q[i].kind = "end" => i = Len(q)

\* Wired, of any queue.
Last(q, received) ==
    IF \E i \in DOMAIN q : q[i].kind = "chunk"
    THEN q[CHOOSE i \in DOMAIN q :
              /\ q[i].kind = "chunk"
              /\ \A j \in DOMAIN q : q[j].kind = "chunk" => j <= i].n
    ELSE received

LEMMA LastOfNone ==
    ASSUME NEW q, NEW received, \A i \in DOMAIN q : q[i].kind # "chunk"
    PROVE  Last(q, received) = received
  BY DEF Last

LEMMA LastIsAt ==
    ASSUME NEW q, NEW received, NEW k \in DOMAIN q, q[k].kind = "chunk",
           DOMAIN q \subseteq Nat, \A j \in DOMAIN q : q[j].kind = "chunk" => j <= k
    PROVE  Last(q, received) = q[k].n
<1> DEFINE P(i) == /\ q[i].kind = "chunk"
                   /\ \A j \in DOMAIN q : q[j].kind = "chunk" => j <= i
<1>1. (CHOOSE i \in DOMAIN q : P(i)) = k
  <2>1. \A i \in DOMAIN q : P(i) <=> i = k
    OBVIOUS
  <2> QED
    BY <2>1
<1> QED
  BY <1>1 DEF Last

LEMMA SentFacts ==
    ASSUME NEW q \in Seq(Sent)
    PROVE  \A i \in 1..Len(q) : q[i].kind \in {"chunk", "end"} /\ q[i].n \in Nat
<1>1. \A i \in 1..Len(q) : q[i] \in Sent
  BY ElementOfSeq
<1>2. \A m \in Sent : m.kind \in {"chunk", "end"} /\ m.n \in Nat
  BY DEF Sent
<1> QED
  BY <1>1, <1>2

LEMMA LastFacts ==
    ASSUME NEW q \in Seq(Sent), EndIsLast(q), NEW received
    PROVE  /\ q = <<>> => Last(q, received) = received
           /\ (q # <<>> /\ q[Len(q)].kind = "chunk") => Last(q, received) = q[Len(q)].n
           /\ (q # <<>> /\ q[Len(q)].kind = "end") =>
                 Last(q, received) = IF Len(q) = 1 THEN received ELSE q[Len(q) - 1].n
<1>1. DOMAIN q = 1..Len(q) /\ Len(q) \in Nat /\ (q # <<>> => Len(q) \in DOMAIN q)
  BY EmptySeq
<1>2. \A i \in 1..Len(q) : q[i].kind \in {"chunk", "end"}
  BY SentFacts
<1>3. \A i \in 1..(Len(q) - 1) : q[i].kind = "chunk"
  <2>1. \A n \in Nat : \A i \in 1..(n - 1) : i \in 1..n /\ i # n
    OBVIOUS
  <2> QED
    BY <1>1, <1>2, <2>1 DEF EndIsLast
<1>4. CASE q = <<>>
  BY <1>4, <1>1, LastOfNone
<1>5. CASE q # <<>> /\ q[Len(q)].kind = "chunk"
  BY <1>5, <1>1, LastIsAt
<1>6. CASE q # <<>> /\ q[Len(q)].kind = "end" /\ Len(q) = 1
  BY <1>6, <1>1, LastOfNone
<1>7. CASE q # <<>> /\ q[Len(q)].kind = "end" /\ Len(q) # 1
  <2> DEFINE k == Len(q) - 1
  <2>1. k \in DOMAIN q /\ q[k].kind = "chunk"
    BY <1>1, <1>3, <1>7
  <2>2. \A j \in DOMAIN q : q[j].kind = "chunk" => j <= k
    BY <1>1, <1>7
  <2> QED
    BY <1>1, <1>7, <2>1, <2>2, LastIsAt
<1> QED
  BY <1>2, <1>4, <1>5, <1>6, <1>7

LEMMA AppendFacts ==
    ASSUME NEW S, NEW q \in Seq(S), NEW m \in S
    PROVE  /\ q \o <<m>> = Append(q, m)
           /\ Append(q, m) \in Seq(S) /\ Append(q, m) # <<>>
           /\ Len(q) \in Nat /\ Len(Append(q, m)) = Len(q) + 1
           /\ Append(q, m)[Len(q) + 1] = m
           /\ \A i \in 1..Len(q) : Append(q, m)[i] = q[i]
  BY AppendProperties, AppendIsConcat

LEMMA TailFacts ==
    ASSUME NEW S, NEW q \in Seq(S), q # <<>>
    PROVE  /\ Tail(q) \in Seq(S)
           /\ Len(q) \in Nat \ {0} /\ Len(Tail(q)) = Len(q) - 1
           /\ \A i \in 1..(Len(q) - 1) : Tail(q)[i] = q[i + 1]
           /\ Head(q) = q[1] /\ Head(q) \in S
  BY HeadTailProperties, EmptySeq

LEMMA FrameFacts ==
    \A kind, n : Frame(kind, n).kind = kind /\ Frame(kind, n).n = n
  BY DEF Frame

\* What goes out with a chunk before the last, and with the last.
LEMMA PutChunk ==
    ASSUME NEW q \in Seq(Sent), EndIsLast(q), NEW n \in Nat, NEW received,
           \A i \in 1..Len(q) : q[i].kind # "end"
    PROVE  LET r == q \o <<Frame("chunk", n)>>
           IN  /\ r \in Seq(Sent) /\ EndIsLast(r) /\ r # <<>>
               /\ \A i \in 1..Len(r) : r[i].kind # "end"
               /\ Last(r, received) = n
<1> DEFINE m == Frame("chunk", n)
           r == Append(q, m)
<1>1. m \in Sent /\ m.kind = "chunk" /\ m.n = n
  BY DEF Frame, Sent
<1>2. /\ q \o <<m>> = r /\ r \in Seq(Sent) /\ r # <<>>
      /\ Len(q) \in Nat /\ Len(r) = Len(q) + 1 /\ r[Len(q) + 1] = m
      /\ \A i \in 1..Len(q) : r[i] = q[i]
  BY <1>1, AppendFacts
<1> HIDE DEF m, r
<1>3. \A i \in 1..Len(r) : r[i].kind # "end"
  BY <1>1, <1>2
<1>4. EndIsLast(r)
  BY <1>3 DEF EndIsLast
<1>5. Last(r, received) = n
  BY <1>1, <1>2, <1>4, LastFacts
<1> QED
  BY <1>2, <1>3, <1>4, <1>5 DEF m

LEMMA PutEnd ==
    ASSUME NEW q \in Seq(Sent), EndIsLast(q), NEW n \in Nat, NEW received,
           \A i \in 1..Len(q) : q[i].kind # "end"
    PROVE  LET r == q \o <<Frame("chunk", n), Frame("end", 0)>>
           IN  /\ r \in Seq(Sent) /\ EndIsLast(r)
               /\ Last(r, received) = n
               /\ \E i \in DOMAIN r : r[i].kind = "end"
<1> DEFINE a == q \o <<Frame("chunk", n)>>
           m == Frame("end", 0)
           r == Append(a, m)
<1>1. /\ a \in Seq(Sent) /\ EndIsLast(a) /\ a # <<>>
      /\ \A i \in 1..Len(a) : a[i].kind # "end"
      /\ Last(a, received) = n
  BY PutChunk
<1>2. m \in Sent /\ m.kind = "end" /\ Frame("chunk", n) \in Sent
  BY DEF Frame, Sent
<1>3. q \o <<Frame("chunk", n), m>> = a \o <<m>>
  BY <1>2
<1>4. /\ a \o <<m>> = r /\ r \in Seq(Sent) /\ r # <<>>
      /\ Len(a) \in Nat /\ Len(r) = Len(a) + 1 /\ r[Len(a) + 1] = m
      /\ \A i \in 1..Len(a) : r[i] = a[i]
  BY <1>1, <1>2, AppendFacts
<1>5. a[Len(a)].kind = "chunk" /\ Len(a) \in 1..Len(a)
  BY <1>1, <1>4, EmptySeq DEF Sent
<1>6. Last(a, received) = a[Len(a)].n
  BY <1>1, <1>5, LastFacts
<1> HIDE DEF a, m, r
<1>7. EndIsLast(r)
  BY <1>1, <1>2, <1>4 DEF EndIsLast
<1>8. Last(r, received) = n
  BY <1>1, <1>2, <1>4, <1>5, <1>6, <1>7, LastFacts
<1>9. Len(r) \in DOMAIN r /\ r[Len(r)].kind = "end"
  BY <1>2, <1>4
<1> QED
  BY <1>3, <1>4, <1>7, <1>8, <1>9 DEF m

\* What the peer takes moves from the one side of Wired to the other.
LEMMA Taken ==
    ASSUME NEW q \in Seq(Sent), EndIsLast(q), q # <<>>, NEW received
    PROVE  /\ Tail(q) \in Seq(Sent) /\ EndIsLast(Tail(q))
           /\ Head(q) \in Sent
           /\ Last(Tail(q), IF Head(q).kind = "chunk" THEN Head(q).n ELSE received)
                 = Last(q, received)
           /\ \A i \in DOMAIN Tail(q) : \E j \in DOMAIN q : Tail(q)[i] = q[j]
           /\ Head(q).kind = "end" => Tail(q) = <<>>
<1> DEFINE t == Tail(q)
<1>1. /\ t \in Seq(Sent)
      /\ Len(q) \in Nat \ {0} /\ Len(t) = Len(q) - 1
      /\ \A i \in 1..(Len(q) - 1) : t[i] = q[i + 1]
      /\ Head(q) = q[1] /\ Head(q) \in Sent
  BY TailFacts
<1> HIDE DEF t
<1>2. EndIsLast(t)
  BY <1>1 DEF EndIsLast
<1>3. Head(q).kind = "end" => t = <<>>
  BY <1>1, EmptySeq DEF EndIsLast
<1>4. \A i \in DOMAIN t : \E j \in DOMAIN q : t[i] = q[j]
  BY <1>1
<1>5. \A i \in 1..Len(q) : q[i].kind \in {"chunk", "end"}
  BY SentFacts
<1> DEFINE r == IF Head(q).kind = "chunk" THEN Head(q).n ELSE received
<1>6. /\ t = <<>> => Last(t, r) = r
      /\ (t # <<>> /\ t[Len(t)].kind = "chunk") => Last(t, r) = t[Len(t)].n
      /\ (t # <<>> /\ t[Len(t)].kind = "end") =>
            Last(t, r) = IF Len(t) = 1 THEN r ELSE t[Len(t) - 1].n
  BY <1>1, <1>2, LastFacts
<1>7. /\ q[Len(q)].kind = "chunk" => Last(q, received) = q[Len(q)].n
      /\ q[Len(q)].kind = "end" =>
            Last(q, received) = IF Len(q) = 1 THEN received ELSE q[Len(q) - 1].n
  BY LastFacts
<1>8. t = <<>> <=> Len(q) = 1
  BY <1>1, EmptySeq
<1>9. Last(t, r) = Last(q, received)
  <2>1. CASE Len(q) = 1
    BY <2>1, <1>1, <1>5, <1>6, <1>7, <1>8
  <2>2. CASE Len(q) = 2
    <3>1. Len(t) = 1 /\ t[1] = q[2] /\ q[1].kind = "chunk"
      BY <2>2, <1>1, <1>5 DEF EndIsLast
    <3> QED
      BY <2>2, <3>1, <1>1, <1>5, <1>6, <1>7, <1>8
  <2>3. CASE Len(q) > 2
    <3>1. t[Len(t)] = q[Len(q)] /\ t[Len(t) - 1] = q[Len(q) - 1] /\ Len(t) # 1
      BY <2>3, <1>1
    <3> QED
      BY <2>3, <3>1, <1>1, <1>5, <1>6, <1>7, <1>8
  <2> QED
    BY <1>1, <2>1, <2>2, <2>3
<1> QED
  BY <1>1, <1>2, <1>3, <1>4, <1>9 DEF t

LEMMA WiredIs ==
    /\ Wired = Last(toPeer, peer.received)
    /\ Wired' = Last(toPeer', peer'.received)
  BY DEF Wired, Last

-----------------------------------------------------------------------------
(* The invariants. *)

\* The entries and queues have their types, and an offer that is answered or
\* on its way is still open unless the peer has left.
ListInv ==
    /\ state \in Transfers /\ shown \in Transfers /\ ref \in Transfers
    /\ total \in Nat /\ sealed \in 0..total /\ peer \in Peers
    /\ pc \in {"idle", "offered"} \cup Begun
    /\ pc = "idle" => state = None /\ toPeer = <<>> /\ toPage = <<>>
    /\ pc = "offered" =>
          /\ toPeer \in {<<>>, <<Offer>>}
          /\ toPage \in {<<>>, <<Frame("accept", 0)>>, <<Frame("reject", 0)>>}
          /\ toPeer = <<>> \/ toPage = <<>>
          /\ state.status \notin {"streaming", "done"}
          /\ (friend /\ (toPeer # <<>> \/ toPage # <<>>)) => state.status = "awaiting-decision"
    /\ pc \in Begun =>
          /\ toPeer \in Seq(Sent) /\ toPage \in Seq(Acks)
          /\ state.status \notin {"awaiting-decision", "rejected"}
    /\ pc \in Running => state.status # "done"
    /\ shown.status \in Settled => state.status \in Settled \cup {"none"}

\* The end is behind the last chunk, and behind both nothing comes.
EndInv ==
    /\ pc \notin Begun => peer.received = 0 /\ ~ peer.ended
    /\ pc \in Begun => EndIsLast(toPeer)
    /\ \A i \in DOMAIN toPeer : toPeer[i].kind = "end" => pc = "over" /\ Wired = total
    /\ peer.ended => pc = "over" /\ toPeer = <<>>
    /\ DoneIsComplete

\* What the three copies of the transfer have to do with each other, when
\* only this transfer makes the page render.
CopiesInv ==
    /\ state.status = "awaiting-decision" => shown = state /\ ~ effectDue
    /\ pc \in Running =>
          /\ ref.status \in {"streaming", "aborted", "none"}
          /\ shown.status \in {"streaming", "aborted", "none"}
                \/ (shown.status = "awaiting-decision" /\ ~ effectDue)
          /\ ref.status # "streaming" => shown.status \in {"aborted", "none"}
          /\ shown.status \in {"aborted", "none"} => state.status \in {"aborted", "none"}

\* The cursors are those of what was sealed and acknowledged, and the ref is
\* ahead of the others.
CursorInv ==
    /\ pc \notin Begun => sealed = 0 /\ peer.lastAcked = 0
    /\ \A t \in {state, shown, ref} : t.sentBytes <= sealed /\ t.lastAck <= peer.lastAcked
    /\ (pc \in Running /\ ref.status = "streaming") =>
          \A t \in {state, shown} : t.sentBytes <= ref.sentBytes /\ t.lastAck <= ref.lastAck

\* Acks arrive in order, and while the ref streams none is lost.
AckInv ==
    /\ friend \/ peer.left
    /\ ~ ShouldAck(peer.received, peer.lastAcked, window)
    /\ pc \in Begun =>
          \A i \in 1..Len(toPage) :
              /\ toPage[i].n <= peer.lastAcked
              /\ \A j \in 1..i : toPage[j].n <= toPage[i].n
    /\ (pc \in Running /\ ref.status = "streaming" /\ friend /\ online) =>
          /\ toPage = <<>> => ref.lastAck = peer.lastAcked
          /\ toPage # <<>> => toPage[Len(toPage)].n = peer.lastAcked
          /\ \A i \in 1..Len(toPage) : ref.lastAck <= toPage[i].n

\* What was sealed is what was put on the wire and the frame at hand, which
\* went by the window once waitForWindow has let it.
FlowInv ==
    /\ window \in Nat /\ (window > 0 => window >= 2 * ChunkSize)
    /\ (online /\ pc \in Running) =>
          /\ ref.status = "streaming" => ref.sentBytes = Wired
          /\ pc = "seal" => sealed = Wired
          /\ sealed - Wired \in 0..ChunkSize
          /\ pc \in {"window", "buffer"} => need = sealed - Wired
          /\ (pc = "buffer" /\ window > 0) => sealed - peer.lastAcked < window
    /\ WindowRespected

-----------------------------------------------------------------------------
(* Types, and the order of statuses. *)

LEMMA ChunkSizeIs == ChunkSize \in Nat \ {0}
  BY LimitsAssumption DEF ChunkSize, NegotiateChunkSize, FloorChunkSize, Least, Advertised

LEMMA EntryFacts ==
    /\ None \in Transfers /\ None.status = "none" /\ None.sentBytes = 0 /\ None.lastAck = 0
    /\ \A t \in Transfers :
          /\ t.status \in Statuses /\ t.sentBytes \in Nat /\ t.lastAck \in Nat
          /\ \A s \in Statuses : /\ Status(t, s) \in Transfers /\ Status(t, s).status = s
                                /\ Status(t, s).sentBytes = t.sentBytes
                                /\ Status(t, s).lastAck = t.lastAck
  BY DEF None, Transfers, Status, Statuses

LEMMA UpdatedFacts ==
    ASSUME NEW t \in Transfers, NEW u \in Transfers
    PROVE  /\ Updated(t, u) \in Transfers /\ Updated(t, u) \in {t, u}
           /\ t.status = "none" => Updated(t, u) = t
           /\ t.status # "none" => Updated(t, u) = u
  BY DEF Updated

LEMMA MergedFacts ==
    ASSUME NEW t \in Transfers, NEW live \in Transfers
    PROVE  /\ Merged(t, live) \in Transfers /\ Merged(t, live).status = t.status
           /\ IF live.status = "streaming" /\ t.status = "streaming"
              THEN /\ Merged(t, live).sentBytes = Larger(t.sentBytes, live.sentBytes)
                   /\ Merged(t, live).lastAck = Larger(t.lastAck, live.lastAck)
              ELSE Merged(t, live) = t
  BY DEF Merged, Transfers, Larger

LEMMA AckedFacts ==
    ASSUME NEW t \in Transfers, NEW n \in Nat
    PROVE  /\ Acked(t, n) \in Transfers /\ Acked(t, n).status = t.status
           /\ Acked(t, n).sentBytes = t.sentBytes
           /\ Acked(t, n).lastAck = IF t.status = "streaming" /\ n >= t.lastAck
                                    THEN n ELSE t.lastAck
  BY DEF Acked, Transfers

LEMMA ProgressFacts ==
    ASSUME NEW t \in Transfers, NEW n \in Nat, NEW ack \in Nat, NEW u \in Progress(t, n, ack)
    PROVE  /\ u \in Transfers /\ u.status = t.status
           /\ u.sentBytes \in {t.sentBytes, n} /\ u.lastAck \in {t.lastAck, ack}
  BY DEF Progress, Updated, Transfers, Larger

LEMMA SentEntry ==
    ASSUME NEW t \in Transfers, NEW n \in Nat
    PROVE  LET u == [t EXCEPT !.sentBytes = n]
           IN  /\ u \in Transfers /\ u.status = t.status
               /\ u.sentBytes = n /\ u.lastAck = t.lastAck
  BY DEF Transfers

LEMMA BegunEntry ==
    ASSUME NEW t \in Transfers, NEW s \in Statuses
    PROVE  LET u == [t EXCEPT !.status = s, !.lastAck = 0]
           IN  /\ u \in Transfers /\ u.status = s
               /\ u.sentBytes = t.sentBytes /\ u.lastAck = 0
  BY DEF Transfers

LEMMA InitList == Init => ListInv
<1> SUFFICES ASSUME Init PROVE ListInv
  OBVIOUS
<1>1. /\ state = None /\ shown = None /\ ref = None /\ pc = "idle"
      /\ toPeer = <<>> /\ toPage = <<>> /\ total \in Nat /\ sealed = 0
      /\ peer \in Peers
  BY PortalSendAssumption DEF Init, Peers
<1> QED
  BY <1>1, EntryFacts DEF ListInv, Settled, Begun, Running

\* The effect of abort() on the list.
LEMMA FailFacts ==
    ASSUME state \in Transfers, Fail
    PROVE  /\ state' \in Transfers /\ pc' = "over"
           /\ state'.status = IF state.status = "none" THEN "none" ELSE "aborted"
           /\ state'.sentBytes = state.sentBytes /\ state'.lastAck = state.lastAck
<1>1. Status(state, "aborted") \in Transfers /\ Status(state, "aborted").status = "aborted"
      /\ Status(state, "aborted").sentBytes = state.sentBytes
      /\ Status(state, "aborted").lastAck = state.lastAck
  BY EntryFacts DEF Statuses
<1> QED
  BY <1>1, UpdatedFacts DEF Fail

\* A step of the sending loop.
Looped ==
    /\ pc \in Running /\ pc' \in Running \cup {"over"}
    /\ state' \in Transfers /\ ref' \in Transfers
    /\ \/ state'.status = state.status
       \/ pc' = "over" /\ state.status = "streaming" /\ state'.status = "done"
       \/ pc' = "over" /\ state.status # "none" /\ state'.status = "aborted"
    /\ sealed' \in 0..total
    /\ toPeer' \in Seq(Sent)
    /\ UNCHANGED <<shown, effectDue, total, friend, window, worker, online, toPage, peer>>

LEMMA LoopSteps == ASSUME ListInv, Loop \/ Stall PROVE Looped
<1> USE DEF Running, Begun
<1>0. /\ state \in Transfers /\ ref \in Transfers /\ total \in Nat /\ sealed \in 0..total
      /\ sealed \in Nat /\ ref.lastAck \in Nat /\ ref.status \in Statuses
  BY EntryFacts DEF ListInv
<1>1. CASE Seal
  <2>1. sealed' \in 0..total
    BY <1>0, <1>1, ChunkSizeIs DEF Seal, Least
  <2> QED
    BY <1>0, <1>1, <2>1 DEF Seal, netVars, ListInv, Looped
<1>2. CASE HandleFrame \/ WaitForWindow \/ Stall
  <2>1. /\ pc \in Running
        /\ UNCHANGED <<shown, ref, effectDue, total, friend, window, worker, sealed,
                       online, toPeer, toPage, peer>>
        /\ Fail \/ (state' = state /\ pc' \in Running \cup {"over"})
    BY <1>2 DEF HandleFrame, WaitForWindow, Stall, netVars
  <2> QED
    BY <1>0, <2>1, FailFacts DEF ListInv, Looped
<1>3. CASE SendChunk
  <2>1. Frame("chunk", sealed) \in Sent
    BY <1>0 DEF Frame, Sent
  <2>2. /\ toPeer' \in Seq(Sent) /\ pc \in Running
        /\ UNCHANGED <<shown, effectDue, total, friend, window, worker, sealed,
                       online, toPage, peer>>
    <3>1. toPeer \in Seq(Sent)
      BY <1>3 DEF SendChunk, ListInv
    <3>2. toPeer' \in {toPeer, toPeer \o <<Frame("chunk", sealed)>>}
      BY <1>3 DEF SendChunk, Put
    <3>3. toPeer \o <<Frame("chunk", sealed)>> \in Seq(Sent)
      BY <2>1, <3>1, AppendFacts
    <3> QED
      BY <1>3, <3>1, <3>2, <3>3 DEF SendChunk
  <2>3. CASE worker \/ friend
    <3>1. /\ ref' = [ref EXCEPT !.sentBytes = sealed]
          /\ state' \in Progress(state, sealed, ref.lastAck)
          /\ pc' \in Running \cup {"over"}
      BY <1>3, <2>3 DEF SendChunk
    <3>2. ref' \in Transfers
      BY <1>0, <3>1, SentEntry
    <3>3. state' \in Transfers /\ state'.status = state.status
      BY <1>0, <3>1, ProgressFacts
    <3> QED
      BY <1>0, <1>3, <2>2, <3>1, <3>2, <3>3 DEF SendChunk, Looped
  <2>4. CASE ~ (worker \/ friend)
    <3>1. Fail /\ ref' = ref
      BY <1>3, <2>4 DEF SendChunk
    <3> QED
      BY <1>0, <1>3, <2>2, <3>1, FailFacts DEF SendChunk, Looped
  <2> QED
    BY <2>3, <2>4
<1>4. CASE SendLast
  <2>1. Frame("chunk", sealed) \in Sent /\ Frame("end", 0) \in Sent
    BY <1>0 DEF Frame, Sent
  <2>2. /\ toPeer' \in Seq(Sent) /\ pc \in Running
        /\ UNCHANGED <<shown, effectDue, total, friend, window, worker, sealed,
                       online, toPage, peer>>
    <3>1. toPeer \in Seq(Sent)
      BY <1>4 DEF SendLast, ListInv
    <3>2. toPeer' \in {toPeer, toPeer \o <<>>, toPeer \o <<Frame("chunk", sealed)>>,
                       toPeer \o <<Frame("chunk", sealed), Frame("end", 0)>>}
      BY <1>4 DEF SendLast, Put
    <3>3. /\ toPeer \o <<>> \in Seq(Sent)
          /\ toPeer \o <<Frame("chunk", sealed)>> \in Seq(Sent)
          /\ toPeer \o <<Frame("chunk", sealed), Frame("end", 0)>> \in Seq(Sent)
      BY <2>1, <3>1, ConcatProperties
    <3> QED
      BY <1>4, <3>1, <3>2, <3>3 DEF SendLast
  <2>3. PICK published \in Progress(state, sealed, ref.lastAck) :
          IF friend
          THEN /\ ref' = [ref EXCEPT !.sentBytes = sealed,
                                     !.status = IF worker THEN "done" ELSE @]
               /\ state' = IF published.status # "streaming" THEN published
                           ELSE IF worker THEN ref' ELSE Status(published, "done")
               /\ pc' = "over"
          ELSE /\ ref' = IF worker THEN [ref EXCEPT !.sentBytes = sealed] ELSE ref
               /\ Fail
    BY <1>4 DEF SendLast
  <2>4. published \in Transfers /\ published.status = state.status
    BY <1>0, <2>3, ProgressFacts
  <2>5. CASE friend
    <3>1. /\ ref' \in Transfers
          /\ ref'.status = IF worker THEN "done" ELSE ref.status
      <4> DEFINE end == IF worker THEN "done" ELSE ref.status
      <4>1. end \in Statuses
        BY <1>0 DEF Statuses
      <4>2. ref' = [ref EXCEPT !.sentBytes = sealed, !.status = end]
        BY <2>3, <2>5
      <4>3. ref' \in Transfers /\ ref'.status = end
        <5> HIDE DEF end
        <5> QED
          BY <1>0, <4>1, <4>2 DEF Transfers
      <4> QED
        BY <4>3
    <3>2. Status(published, "done") \in Transfers /\ Status(published, "done").status = "done"
      BY <2>4, EntryFacts DEF Statuses
    <3> QED
      BY <1>0, <2>2, <2>3, <2>4, <2>5, <3>1, <3>2 DEF Looped
  <2>6. CASE ~ friend
    <3>1. ref' \in Transfers
      BY <1>0, <2>3, <2>6, SentEntry
    <3> QED
      BY <1>0, <2>2, <2>3, <2>6, <3>1, FailFacts DEF Looped
  <2> QED
    BY <2>5, <2>6
<1> QED
  BY <1>1, <1>2, <1>3, <1>4 DEF Loop

\* What arrives from the peer: a verdict while the offer is open, or an ack.
LEMMA Arrived ==
    ASSUME ListInv, NEW kind \in {"accept", "reject", "ack"}, FromPeer(kind)
    PROVE  /\ UNCHANGED <<shown, effectDue, total, friend, online, toPeer, peer>>
           /\ \/ /\ kind # "ack" /\ pc = "offered" /\ toPeer = <<>> /\ toPage' = <<>>
                 /\ friend => state.status = "awaiting-decision"
              \/ /\ kind = "ack" /\ pc \in Begun /\ toPage # <<>>
                 /\ Head(toPage).n \in Nat /\ toPage' \in Seq(Acks)
<1>1. pc # "idle" /\ toPage # <<>>
  BY DEF FromPeer, ListInv
<1>2. CASE pc = "offered"
  <2>0. \A x : Head(<<x>>) = x /\ Tail(<<x>>) = <<>>
    OBVIOUS
  <2>1. Head(toPage).kind \in {"accept", "reject"} /\ Tail(toPage) = <<>>
    <3>1. PICK verdict \in {"accept", "reject"} : toPage = <<Frame(verdict, 0)>>
      BY <1>1, <1>2 DEF ListInv
    <3>2. Head(toPage) = Frame(verdict, 0) /\ Tail(toPage) = <<>>
      BY <2>0, <3>1
    <3> QED
      BY <3>2, FrameFacts
  <2> QED
    BY <1>1, <1>2, <2>1 DEF ListInv, FromPeer
<1>3. CASE pc \in Begun
  <2>1. Head(toPage) \in Acks /\ Tail(toPage) \in Seq(Acks)
    BY <1>1, <1>3, TailFacts DEF ListInv
  <2>2. Head(toPage).kind = "ack" /\ Head(toPage).n \in Nat
    BY <2>1 DEF Acks
  <2> QED
    BY <1>1, <1>3, <2>1, <2>2 DEF FromPeer
<1> QED
  BY <1>1, <1>2, <1>3 DEF ListInv

\* An offer is decided while it is all there is.
LEMMA DecideSteps ==
    ASSUME ListInv, Decide
    PROVE  /\ pc = "offered" /\ toPeer = <<Offer>> /\ toPage = <<>> /\ toPeer' = <<>>
           /\ \E verdict \in {"accept", "reject"} : toPage' = <<Frame(verdict, 0)>>
           /\ UNCHANGED <<state, shown, ref, effectDue, total, friend, sendVars, online, peer>>
<1>1. toPeer # <<>> /\ Head(toPeer).kind = "offer" /\ toPeer' = Tail(toPeer)
  BY DEF Decide
<1>2. pc \notin Begun
  <2> SUFFICES ASSUME pc \in Begun PROVE FALSE
    OBVIOUS
  <2>1. Head(toPeer) \in Sent
    BY <1>1, TailFacts DEF ListInv
  <2> QED
    BY <1>1, <2>1 DEF Sent
<1>3. pc = "offered" /\ toPeer = <<Offer>> /\ toPage = <<>>
  BY <1>1, <1>2 DEF ListInv
<1>4. Tail(<<Offer>>) = <<>>
  OBVIOUS
<1>5. \A f : Append(<<>>, f) = <<f>>
  OBVIOUS
<1> QED
  BY <1>1, <1>3, <1>4, <1>5 DEF Decide

LEMMA NextList == ASSUME ListInv, [Next]_vars PROVE ListInv'
<1> USE DEF ListInv, sendVars, netVars
<1>s. /\ Statuses = {"none", "awaiting-decision", "streaming", "done", "rejected", "aborted"}
      /\ Settled = {"done", "rejected", "aborted"}
      /\ Begun = {"seal", "frame", "window", "buffer", "stuck", "over"}
      /\ Running = {"seal", "frame", "window", "buffer"}
  BY DEF Statuses, Settled, Begun, Running
<1>e. /\ state.status \in Statuses
      /\ \A st \in Statuses : Status(state, st) \in Transfers /\ Status(state, st).status = st
  BY EntryFacts
<1>1. CASE Loop \/ Stall
  BY <1>1, <1>s, LoopSteps DEF Looped
<1>2. CASE TransferAccept
  <2>1. /\ UNCHANGED <<shown, effectDue, total, friend, online, toPeer, peer, sealed>>
        /\ pc = "offered" /\ toPeer = <<>> /\ toPage' = <<>>
        /\ friend => state.status = "awaiting-decision"
    BY <1>2, Arrived DEF TransferAccept
  <2>2. CASE friend /\ ref.status = "awaiting-decision"
    <3>1. /\ ref' = [ref EXCEPT !.status = "streaming", !.lastAck = 0]
          /\ state' = Updated(state, [state EXCEPT !.status = "streaming", !.lastAck = 0])
          /\ pc' = "seal"
      BY <1>2, <2>1, <2>2 DEF TransferAccept
    <3>2. ref' \in Transfers
      BY <1>s, <3>1, BegunEntry
    <3>3. state' \in Transfers /\ state'.status = "streaming"
      <4> DEFINE u == [state EXCEPT !.status = "streaming", !.lastAck = 0]
      <4>1. u \in Transfers /\ u.status = "streaming"
        BY <1>s, BegunEntry
      <4>2. state' = u
        BY <2>1, <2>2, <3>1 DEF Updated
      <4> QED
        BY <4>1, <4>2
    <3>4. shown.status \notin Settled
      BY <1>s, <2>1, <2>2
    <3>5. toPeer' \in Seq(Sent) /\ toPage' \in Seq(Acks)
      BY <2>1
    <3> QED
      BY <1>s, <2>1, <3>1, <3>2, <3>3, <3>4, <3>5
  <2>3. CASE ~ (friend /\ ref.status = "awaiting-decision")
    BY <1>2, <1>s, <2>1, <2>3 DEF TransferAccept
  <2> QED
    BY <2>2, <2>3
<1>3. CASE TransferReject
  <2>1. /\ UNCHANGED <<shown, ref, effectDue, total, friend, online, toPeer, peer, sealed, pc>>
        /\ pc = "offered" /\ toPeer = <<>> /\ toPage' = <<>>
        /\ state' = IF friend /\ state.status = "awaiting-decision"
                    THEN Status(state, "rejected") ELSE state
    BY <1>3, Arrived DEF TransferReject
  <2> QED
    BY <1>s, <1>e, <2>1
<1>4. CASE TransferAck
  <2>1. /\ UNCHANGED <<shown, effectDue, total, friend, online, toPeer, peer, sealed, pc>>
        /\ pc \in Begun /\ toPage' \in Seq(Acks)
        /\ \/ UNCHANGED <<ref, state>>
           \/ \E n \in Nat : ref' = Acked(ref, n) /\ state' = Acked(state, n)
    BY <1>4, Arrived DEF TransferAck
  <2>2. ref' \in Transfers /\ state' \in Transfers /\ state'.status = state.status
    <3>1. \A n \in Nat : /\ Acked(ref, n) \in Transfers
                        /\ Acked(state, n) \in Transfers
                        /\ Acked(state, n).status = state.status
      BY AckedFacts
    <3> QED
      BY <2>1, <3>1
  <2> QED
    BY <1>s, <2>1, <2>2
<1>5. CASE PeerLeft
  <2>1. /\ UNCHANGED <<shown, ref, effectDue, total, pc, sealed, online, toPeer, toPage, peer>>
        /\ ~ friend'
        /\ \/ state' = state
           \/ /\ state' \in Transfers /\ state'.status = "aborted"
              /\ state.status \in {"awaiting-decision", "streaming"}
    BY <1>5, <1>s, <1>e DEF PeerLeft
  <2>2. pc = "idle" => state' = state
    BY <2>1, EntryFacts
  <2> QED
    BY <1>s, <2>1, <2>2
<1>6. CASE SendFile
  <2>1. /\ pc = "idle" /\ pc' = "offered"
        /\ \E t \in Transfers : /\ t.status = "awaiting-decision"
                               /\ state' = t /\ shown' = t /\ ref' = t
        /\ UNCHANGED <<total, sealed, peer, toPage>>
        /\ toPage = <<>> /\ toPeer = <<>>
    BY <1>6, <1>s, EntryFacts DEF SendFile, Click
  <2>2. toPeer' \in {<<>>, <<Offer>>}
    BY <1>6, <2>1 DEF SendFile, Offer
  <2> QED
    BY <1>s, <2>1, <2>2
<1>7. CASE Dismiss
  BY <1>7, <1>s, EntryFacts DEF Dismiss, Click
<1>8. CASE Render \/ Effect
  <2>1. ref' \in {ref, Merged(shown, ref)} /\ shown' \in {shown, state}
    BY <1>8 DEF Render, Effect
  <2>2. ref' \in Transfers
    BY <2>1, MergedFacts
  <2> QED
    BY <1>8, <1>s, <2>1, <2>2 DEF Render, Effect
<1>9. CASE Decide
  <2>1. /\ pc = "offered" /\ toPeer' = <<>>
        /\ toPage' \in {<<Frame("accept", 0)>>, <<Frame("reject", 0)>>}
        /\ friend => state.status = "awaiting-decision"
        /\ UNCHANGED <<state, shown, ref, total, friend, sealed, pc, peer>>
    BY <1>9, DecideSteps
  <2> QED
    BY <1>s, <2>1
<1>10. CASE Receive
  <2>1. /\ UNCHANGED <<state, shown, ref, total, friend, sealed, pc>>
        /\ toPeer # <<>> /\ Head(toPeer).kind # "offer" /\ toPeer' = Tail(toPeer)
    BY <1>10 DEF Receive
  <2>2. pc \in Begun
    BY <1>s, <2>1, FrameFacts DEF Offer
  <2>3. Head(toPeer) \in Sent /\ Tail(toPeer) \in Seq(Sent)
    BY <2>1, <2>2, TailFacts
  <2> DEFINE n == IF Head(toPeer).kind = "chunk" THEN Head(toPeer).n ELSE peer.received
  <2>4. n \in Nat
    BY <2>3 DEF Sent, Peers
  <2>5. \E acks \in BOOLEAN :
           /\ peer' = [peer EXCEPT !.received = n,
                                   !.ended = @ \/ Head(toPeer).kind = "end",
                                   !.lastAcked = IF acks THEN n ELSE @]
           /\ toPage' \in {toPage, Append(toPage, Frame("ack", n))}
    BY <1>10 DEF Receive
  <2>6. peer' \in Peers
    BY <2>4, <2>5 DEF Peers
  <2>7. Append(toPage, Frame("ack", n)) \in Seq(Acks)
    <3>1. Frame("ack", n) \in Acks
      BY <2>4 DEF Frame, Acks
    <3> QED
      BY <2>2, <3>1, AppendFacts
  <2> QED
    BY <1>s, <2>1, <2>2, <2>3, <2>5, <2>6, <2>7
<1>11. CASE PeerStops
  <2>1. peer' \in Peers
    BY <1>11 DEF PeerStops, Peers
  <2> QED
    BY <1>11, <2>1 DEF PeerStops
<1>12. CASE Lost
  <2>1. toPeer' \in Seq(Sent) /\ toPage' \in Seq(Acks) /\ toPeer' = <<>> /\ toPage' = <<>>
    BY <1>12 DEF Lost
  <2> QED
    BY <1>12, <2>1 DEF Lost
<1>13. CASE BufferStuck
  BY <1>13, <1>s DEF BufferStuck
<1>14. CASE UNCHANGED vars
  BY <1>14 DEF vars
<1> QED
  BY <1>1, <1>2, <1>3, <1>4, <1>5, <1>6, <1>7, <1>8, <1>9, <1>10, <1>11, <1>12, <1>13, <1>14
     DEF Next, OnEnvelope

LEMMA Lists == Spec => []ListInv
  BY InitList, NextList, PTL DEF Spec

\* What a step may do to the status of the transfer.
Moves(from, to) ==
    \/ from = to
    \/ from = "awaiting-decision" /\ to \in {"streaming", "rejected", "aborted"}
    \/ from = "streaming" /\ to \in {"done", "aborted"}
    \/ from \in Settled /\ to = "none"

LEMMA StatusSteps ==
    ASSUME ListInv, [Next]_vars
    PROVE  \/ /\ pc = "idle" /\ pc' # "idle"
              /\ state.status = "none" /\ state'.status = "awaiting-decision"
           \/ (pc = "idle" <=> pc' = "idle") /\ Moves(state.status, state'.status)
<1> USE DEF Moves, ListInv, Settled
<1>e. /\ state.status \in Statuses
      /\ \A s \in Statuses : Status(state, s).status = s
      /\ None.status = "none" /\ Status(None, "awaiting-decision").status = "awaiting-decision"
  BY EntryFacts DEF Statuses
<1>s. Statuses = {"none", "awaiting-decision", "streaming", "done", "rejected", "aborted"}
  BY DEF Statuses
<1>1. CASE Loop \/ Stall
  BY <1>1, <1>e, <1>s, LoopSteps DEF Looped, Running, Begun
<1>2. CASE TransferAccept
  <2>1. pc = "offered" /\ (friend => state.status = "awaiting-decision")
    BY <1>2, Arrived DEF TransferAccept
  <2>2. CASE friend /\ ref.status = "awaiting-decision"
    <3> DEFINE u == [state EXCEPT !.status = "streaming", !.lastAck = 0]
    <3>1. u.status = "streaming"
      BY <1>s, BegunEntry
    <3>2. state' = u /\ pc' = "seal"
      BY <1>2, <2>1, <2>2 DEF TransferAccept, Updated
    <3> QED
      BY <2>1, <2>2, <3>1, <3>2
  <2>3. CASE ~ (friend /\ ref.status = "awaiting-decision")
    BY <1>2, <2>3 DEF TransferAccept
  <2> QED
    BY <2>2, <2>3
<1>3. CASE TransferReject
  BY <1>3, <1>e, <1>s DEF TransferReject, sendVars
<1>4. CASE TransferAck
  <2>1. pc' = pc /\ (state' = state \/ \E n \in Nat : state' = Acked(state, n))
    BY <1>4, Arrived DEF TransferAck, sendVars
  <2>2. \A n \in Nat : Acked(state, n).status = state.status
    BY AckedFacts
  <2> QED
    BY <2>1, <2>2
<1>5. CASE PeerLeft
  BY <1>5, <1>e, <1>s DEF PeerLeft, sendVars
<1>6. CASE SendFile
  BY <1>6, <1>e DEF SendFile, Click
<1>7. CASE Dismiss
  BY <1>7, <1>e DEF Dismiss, Click, sendVars
<1>8. CASE Render \/ Effect \/ BufferStuck \/ Decide \/ Receive \/ PeerStops \/ Lost
           \/ UNCHANGED vars
  BY <1>8 DEF Render, Effect, BufferStuck, Decide, Receive, PeerStops, Lost, sendVars, vars
<1> QED
  BY <1>1, <1>2, <1>3, <1>4, <1>5, <1>6, <1>7, <1>8 DEF Next, OnEnvelope

LEMMA StepsOfLifecycle == ASSUME ListInv, [Next]_vars PROVE [Lifecycle!Next]_Phase
<1> USE DEF Lifecycle!Next, Lifecycle!Ask, Lifecycle!Begin, Lifecycle!Reject,
            Lifecycle!Finish, Lifecycle!Abort, Lifecycle!Forget, Lifecycle!Settled
<1>0. state.status \in Statuses
  BY EntryFacts DEF ListInv
<1>1. CASE /\ pc = "idle" /\ pc' # "idle"
           /\ state.status = "none" /\ state'.status = "awaiting-decision"
  BY <1>1 DEF Phase
<1>2. CASE (pc = "idle" <=> pc' = "idle") /\ state.status = state'.status
  BY <1>2 DEF Phase
<1>3. CASE /\ pc = "idle" <=> pc' = "idle"
           /\ Moves(state.status, state'.status) /\ state.status # state'.status
  <2>1. pc # "idle"
    BY <1>3, EntryFacts DEF ListInv, Moves, Settled
  <2> QED
    BY <1>0, <1>3, <2>1 DEF Moves, Settled, Statuses, Phase
<1> QED
  BY <1>1, <1>2, <1>3, StatusSteps

\* The safety half of LifecycleSpec: a transfer goes through its statuses in
\* order and a verdict is final, whichever of the sending loop, the handlers
\* of accept, reject, ack and peer-left, the stall timer and the user gets to
\* it first, and whatever other transfers make the page render.
THEOREM IsLifecycle == Spec => Lifecycle!Safe
<1>1. Init => Lifecycle!Init
  BY EntryFacts DEF Init, Lifecycle!Init, Phase
<1> QED
  BY <1>1, StepsOfLifecycle, Lists, PTL DEF Spec, Lifecycle!Safe

-----------------------------------------------------------------------------
(* The whole file. *)

LEMMA InitEnd == Init => EndInv
  BY DEF Init, EndInv, DoneIsComplete, Begun, Running, None

\* An offer is not the end, and nothing goes out before it is accepted.
LEMMA OfferIsNoEnd ==
    ASSUME ListInv
    PROVE  /\ \A i \in DOMAIN <<>> : FALSE
           /\ \A i \in DOMAIN <<Offer>> : <<Offer>>[i] = Offer
           /\ Offer.kind = "offer"
           /\ pc \notin Begun => \A i \in DOMAIN toPeer : toPeer[i].kind = "offer"
<1>1. /\ \A i \in DOMAIN <<>> : FALSE
      /\ \A i \in DOMAIN <<Offer>> : <<Offer>>[i] = Offer
  OBVIOUS
<1>2. Offer.kind = "offer"
  BY FrameFacts DEF Offer
<1> QED
  BY <1>1, <1>2 DEF ListInv

\* Nothing was sent or taken.
LEMMA QuietEnd ==
    ASSUME ListInv, EndInv, toPeer' = toPeer, total' = total, online' = online,
           peer'.received = peer.received, peer'.ended = peer.ended,
           pc' = pc \/ (pc \in Running /\ pc' \in Begun),
           state'.status = "done" => state.status = "done"
    PROVE  EndInv'
<1>1. Wired' = Wired
  BY WiredIs
<1>2. pc' \in Begun <=> pc \in Begun
  BY DEF Begun
<1>3. pc = "over" => pc' = "over"
  BY DEF Running
<1> QED
  BY <1>1, <1>2, <1>3 DEF EndInv, DoneIsComplete

LEMMA SentEnd ==
    ASSUME ListInv, EndInv, SendChunk \/ SendLast
    PROVE  EndInv'
<1>1. /\ pc = "buffer" /\ pc' \in Begun
      /\ UNCHANGED <<total, online, peer, sealed>>
  BY DEF SendChunk, SendLast, Fail, Begun, Running
<1>2. /\ toPeer \in Seq(Sent) /\ EndIsLast(toPeer) /\ ~ peer.ended /\ sealed \in Nat
      /\ \A i \in DOMAIN toPeer : toPeer[i].kind # "end"
      /\ state.status # "done"
  BY <1>1 DEF ListInv, EndInv, Begun, Running
<1>3. \A i \in 1..Len(toPeer) : toPeer[i].kind # "end"
  BY <1>2
<1>4. \/ toPeer' = toPeer
      \/ /\ online /\ toPeer' = toPeer \o <<Frame("chunk", sealed)>>
      \/ /\ online /\ toPeer' = toPeer \o <<Frame("chunk", sealed), Frame("end", 0)>>
         /\ sealed = total /\ pc' = "over"
  <2>1. CASE SendChunk
    BY <2>1 DEF SendChunk, Put
  <2>2. CASE SendLast
    <3>1. toPeer \o <<>> = toPeer
      BY <1>2, ConcatEmptySeq
    <3> QED
      BY <2>2, <3>1 DEF SendLast, Put, IsLast
  <2> QED
    BY <2>1, <2>2
<1>5. (state'.status = "done" /\ online) =>
          /\ sealed = total
          /\ toPeer' = toPeer \o <<Frame("chunk", sealed), Frame("end", 0)>>
  <2> SUFFICES ASSUME state'.status = "done", online
               PROVE  /\ sealed = total
                      /\ toPeer' = toPeer \o <<Frame("chunk", sealed), Frame("end", 0)>>
    OBVIOUS
  <2>0. state \in Transfers /\ ref.lastAck \in Nat
    BY EntryFacts DEF ListInv
  <2>1. ~ Fail
    BY <1>2, <2>0, FailFacts
  <2>2. ~ SendChunk
    <3>1. \A u \in Progress(state, sealed, ref.lastAck) : u.status # "done"
      BY <1>2, <2>0, ProgressFacts
    <3> QED
      BY <2>1, <3>1 DEF SendChunk
  <2> QED
    BY <2>1, <2>2 DEF SendLast, Put, IsLast
<1>6. CASE toPeer' = toPeer
  <2>1. state'.status = "done" => ~ online
    <3>1. toPeer \o <<Frame("chunk", sealed), Frame("end", 0)>> # toPeer
      <4>1. \E i \in DOMAIN (toPeer \o <<Frame("chunk", sealed), Frame("end", 0)>>) :
               (toPeer \o <<Frame("chunk", sealed), Frame("end", 0)>>)[i].kind = "end"
        BY <1>2, <1>3, PutEnd
      <4> QED
        BY <1>2, <4>1
    <3> QED
      BY <1>5, <1>6, <3>1
  <2> QED
    BY <1>1, <1>2, <1>6, <2>1 DEF EndInv, DoneIsComplete, Begun, Running
<1>7. CASE online /\ toPeer' = toPeer \o <<Frame("chunk", sealed)>>
  <2>1. EndIsLast(toPeer') /\ \A i \in 1..Len(toPeer') : toPeer'[i].kind # "end"
    BY <1>2, <1>3, <1>7, PutChunk
  <2>2. toPeer' \in Seq(Sent)
    BY <1>2, <1>3, <1>7, PutChunk
  <2>3. \A i \in DOMAIN toPeer' : toPeer'[i].kind # "end"
    BY <2>1, <2>2
  <2>4. state'.status # "done"
    <3>1. \E i \in DOMAIN (toPeer \o <<Frame("chunk", sealed), Frame("end", 0)>>) :
             (toPeer \o <<Frame("chunk", sealed), Frame("end", 0)>>)[i].kind = "end"
      BY <1>2, <1>3, PutEnd
    <3> QED
      BY <1>5, <1>7, <2>3, <3>1
  <2> QED
    BY <1>1, <1>2, <2>1, <2>3, <2>4 DEF EndInv, DoneIsComplete
<1>8. CASE /\ toPeer' = toPeer \o <<Frame("chunk", sealed), Frame("end", 0)>>
           /\ sealed = total /\ pc' = "over"
  <2>1. EndIsLast(toPeer') /\ \E i \in DOMAIN toPeer' : toPeer'[i].kind = "end"
    BY <1>2, <1>3, <1>8, PutEnd
  <2>2. Last(toPeer', peer'.received) = sealed
    BY <1>2, <1>3, <1>8, PutEnd
  <2>3. Wired' = total
    BY <1>8, <2>2, WiredIs
  <2> QED
    BY <1>1, <1>2, <1>8, <2>1, <2>3 DEF EndInv, DoneIsComplete
<1> QED
  BY <1>4, <1>6, <1>7, <1>8

LEMMA TakenEnd ==
    ASSUME ListInv, EndInv, Receive
    PROVE  EndInv'
<1>1. /\ UNCHANGED <<state, total, online, pc>>
      /\ toPeer # <<>> /\ Head(toPeer).kind # "offer" /\ toPeer' = Tail(toPeer)
      /\ peer' \in Peers
      /\ peer'.received = IF Head(toPeer).kind = "chunk" THEN Head(toPeer).n ELSE peer.received
      /\ peer'.ended <=> peer.ended \/ Head(toPeer).kind = "end"
  <2> DEFINE n == IF Head(toPeer).kind = "chunk" THEN Head(toPeer).n ELSE peer.received
  <2>1. \E acks \in BOOLEAN :
           peer' = [peer EXCEPT !.received = n,
                                !.ended = @ \/ Head(toPeer).kind = "end",
                                !.lastAcked = IF acks THEN n ELSE @]
    BY DEF Receive
  <2>2. peer \in Peers
    BY DEF ListInv
  <2>3. peer' \in Peers
    BY NextList DEF ListInv, Next
  <2> HIDE DEF n
  <2>4. peer'.received = n /\ (peer'.ended <=> peer.ended \/ Head(toPeer).kind = "end")
    BY <2>1, <2>2 DEF Peers
  <2> QED
    BY <2>3, <2>4 DEF Receive, sendVars, n
<1>2. pc \in Begun /\ toPeer \in Seq(Sent) /\ EndIsLast(toPeer)
  <2>1. pc \in Begun
    <3> SUFFICES ASSUME pc \notin Begun PROVE FALSE
      OBVIOUS
    <3>1. toPeer = <<Offer>>
      BY <1>1 DEF ListInv
    <3>2. Head(<<Offer>>) = Offer
      OBVIOUS
    <3> QED
      BY <1>1, <3>1, <3>2, FrameFacts DEF Offer
  <2> QED
    BY <2>1 DEF ListInv, EndInv
<1>3. /\ EndIsLast(toPeer') /\ Wired' = Wired
      /\ \A i \in DOMAIN toPeer' : \E j \in DOMAIN toPeer : toPeer'[i] = toPeer[j]
      /\ Head(toPeer).kind = "end" => toPeer' = <<>>
  BY <1>1, <1>2, Taken, WiredIs
<1>4. 1 \in DOMAIN toPeer /\ Head(toPeer) = toPeer[1]
  BY <1>1, <1>2, TailFacts
<1>5. peer'.ended => /\ Head(toPeer).kind = "end" /\ pc = "over" /\ Wired = total
                     /\ toPeer' = <<>>
  BY <1>1, <1>3, <1>4 DEF EndInv
<1>6. peer'.ended => peer'.received = total
  <2>1. toPeer' = <<>> => Wired' = peer'.received
    BY WiredIs, LastOfNone
  <2> QED
    BY <1>3, <1>5, <2>1
<1>7. (state.status = "done" /\ online) =>
          peer'.ended \/ \E i \in DOMAIN toPeer' : toPeer'[i].kind = "end"
  <2> SUFFICES ASSUME state.status = "done", online, ~ peer'.ended
               PROVE  \E i \in DOMAIN toPeer' : toPeer'[i].kind = "end"
    OBVIOUS
  <2>1. PICK i \in DOMAIN toPeer : toPeer[i].kind = "end"
    BY <1>1 DEF EndInv, DoneIsComplete
  <2>2. i # 1
    BY <1>1, <1>4, <2>1
  <2>3. /\ Len(toPeer) \in Nat \ {0} /\ Len(toPeer') = Len(toPeer) - 1
        /\ \A k \in 1..(Len(toPeer) - 1) : toPeer'[k] = toPeer[k + 1]
        /\ toPeer' \in Seq(Sent)
    BY <1>1, <1>2, TailFacts
  <2>4. i \in 1..Len(toPeer) /\ DOMAIN toPeer' = 1..Len(toPeer')
    BY <1>2, <2>3
  <2>5. i - 1 \in 1..(Len(toPeer) - 1) /\ (i - 1) + 1 = i
    BY <2>2, <2>3, <2>4
  <2>6. toPeer'[i - 1] = toPeer[i] /\ i - 1 \in DOMAIN toPeer'
    BY <2>3, <2>4, <2>5
  <2> QED
    BY <2>1, <2>6
<1> QED
  BY <1>1, <1>2, <1>3, <1>5, <1>6, <1>7 DEF EndInv, DoneIsComplete

LEMMA NextEnd == ASSUME ListInv, EndInv, [Next]_vars PROVE EndInv'
<1> USE DEF sendVars, netVars
<1>e. /\ state \in Transfers /\ peer \in Peers
      /\ \A s \in Statuses : Status(state, s).status = s
      /\ None.status = "none" /\ Status(None, "awaiting-decision").status = "awaiting-decision"
      /\ "aborted" \in Statuses /\ "rejected" \in Statuses
  BY EntryFacts DEF ListInv, Statuses
<1>1. CASE Seal \/ HandleFrame \/ WaitForWindow \/ Stall \/ BufferStuck
  <2>1. /\ UNCHANGED <<toPeer, total, online, peer>>
        /\ pc \in Running /\ pc' \in Begun
        /\ state' = state \/ Fail
    BY <1>1 DEF Seal, HandleFrame, WaitForWindow, Stall, BufferStuck, Fail, Running, Begun
  <2>2. state'.status = "done" => state.status = "done"
    BY <1>e, <2>1, FailFacts
  <2> QED
    BY <2>1, <2>2, QuietEnd
<1>2. CASE SendChunk \/ SendLast
  BY <1>2, SentEnd
<1>3. CASE TransferAccept
  <2>1. /\ UNCHANGED <<toPeer, total, online, peer>>
        /\ pc = "offered" /\ toPeer = <<>>
        /\ friend => state.status = "awaiting-decision"
    BY <1>3, Arrived DEF TransferAccept
  <2>2. CASE friend /\ ref.status = "awaiting-decision"
    <3>1. state'.status # "done" /\ pc' = "seal"
      <4> DEFINE u == [state EXCEPT !.status = "streaming", !.lastAck = 0]
      <4>1. u.status = "streaming"
        BY <1>e, BegunEntry DEF Statuses
      <4>2. state' = u /\ pc' = "seal"
        BY <1>3, <2>1, <2>2 DEF TransferAccept, Updated
      <4> QED
        BY <4>1, <4>2
    <3>2. ~ peer.ended /\ EndIsLast(toPeer') /\ \A i \in DOMAIN toPeer' : FALSE
      BY <2>1 DEF EndInv, EndIsLast, Begun, Running
    <3> QED
      BY <2>1, <3>1, <3>2 DEF EndInv, DoneIsComplete, Begun, Running
  <2>3. CASE ~ (friend /\ ref.status = "awaiting-decision")
    <3>1. state' = state /\ pc' = pc
      BY <1>3, <2>3 DEF TransferAccept
    <3> QED
      BY <2>1, <3>1, QuietEnd
  <2> QED
    BY <2>2, <2>3
<1>4. CASE TransferReject \/ TransferAck
  <2>1. /\ UNCHANGED <<toPeer, total, online, peer, pc>>
        /\ \/ state'.status = state.status
           \/ state'.status = "rejected"
    <3>1. CASE TransferReject
      BY <1>e, <3>1 DEF TransferReject, FromPeer
    <3>2. CASE TransferAck
      <4>1. \A n \in Nat : Acked(state, n).status = state.status
        BY <1>e, AckedFacts
      <4>2. /\ UNCHANGED <<toPeer, total, online, peer, pc>>
            /\ state' = state \/ \E n \in Nat : state' = Acked(state, n)
        BY <3>2, Arrived DEF TransferAck
      <4> QED
        BY <4>1, <4>2
    <3> QED
      BY <1>4, <3>1, <3>2
  <2> QED
    BY <2>1, QuietEnd
<1>5. CASE PeerLeft \/ Dismiss \/ Render \/ Effect \/ UNCHANGED vars
  <2>1. /\ UNCHANGED <<toPeer, total, online, peer, pc>>
        /\ state'.status \in {state.status, "aborted", "none"}
    BY <1>5, <1>e DEF PeerLeft, Dismiss, Click, Render, Effect, vars
  <2> QED
    BY <2>1, QuietEnd
<1>6. CASE SendFile
  <2>1. /\ UNCHANGED <<total, online, peer>> /\ pc = "idle" /\ pc' = "offered"
        /\ state'.status # "done"
    BY <1>6, <1>e DEF SendFile, Click
  <2>2. ListInv'
    BY <1>6, NextList DEF Next
  <2>3. \A i \in DOMAIN toPeer' : toPeer'[i].kind = "offer"
    BY <2>1, <2>2, OfferIsNoEnd DEF ListInv
  <2> QED
    BY <2>1, <2>3 DEF EndInv, DoneIsComplete, Begun, Running
<1>7. CASE Decide
  <2>1. /\ UNCHANGED <<state, total, online, peer, pc>>
        /\ pc = "offered" /\ toPeer' = <<>>
    BY <1>7, DecideSteps
  <2>2. state.status # "done"
    BY <2>1 DEF ListInv
  <2> QED
    BY <2>1, <2>2 DEF EndInv, DoneIsComplete, Begun, Running
<1>8. CASE Receive
  BY <1>8, TakenEnd
<1>9. CASE PeerStops
  <2>1. /\ UNCHANGED <<toPeer, total, online, pc, state>>
        /\ peer'.received = peer.received /\ peer'.ended = peer.ended
    BY <1>9, <1>e DEF PeerStops, Peers
  <2> QED
    BY <2>1, QuietEnd
<1>10. CASE Lost
  <2>1. /\ UNCHANGED <<total, pc, state, peer>> /\ ~ online' /\ toPeer' = <<>>
    BY <1>10 DEF Lost
  <2> QED
    BY <2>1 DEF EndInv, DoneIsComplete, EndIsLast
<1> QED
  BY <1>1, <1>2, <1>3, <1>4, <1>5, <1>6, <1>7, <1>8, <1>9, <1>10 DEF Next, Loop, OnEnvelope

\* A transfer is shown as done only when its last byte, and transfer-end
\* behind it, are with the peer or on their way to it, unless the connection
\* was lost; and the peer never hears of an end before the last byte, however
\* large the file and whatever the ref holds.
THEOREM DoneOnlyWhole == Spec => []DoneIsComplete
<1>1. EndInv => DoneIsComplete
  BY DEF EndInv
<1> QED
  BY <1>1, InitEnd, NextEnd, Lists, PTL DEF Spec

-----------------------------------------------------------------------------
(* The ref, when no other transfer makes the page render. *)

LEMMA TransferFacts ==
    ListInv => /\ \A t \in {state, shown, ref} :
                      /\ t \in Transfers /\ t.status \in Statuses
                      /\ t.sentBytes \in Nat /\ t.lastAck \in Nat
               /\ total \in Nat /\ sealed \in Nat /\ sealed <= total
               /\ peer \in Peers /\ peer.received \in Nat /\ peer.lastAcked \in Nat
  BY EntryFacts DEF ListInv, Peers

\* What the sending loop does to the cursors.
LEMMA LoopCursors ==
    ASSUME ListInv, Loop \/ Stall
    PROVE  /\ sealed' \in Nat /\ sealed <= sealed' /\ (pc # "seal" => sealed' = sealed)
           /\ ref'.lastAck = ref.lastAck /\ (pc' # "over" => ref'.status = ref.status)
           /\ \/ /\ ref'.sentBytes = ref.sentBytes /\ state'.sentBytes = state.sentBytes
                 /\ state'.lastAck = state.lastAck
              \/ /\ pc = "buffer"
                 /\ ref'.sentBytes = sealed /\ state'.sentBytes \in {state.sentBytes, sealed}
                 /\ state'.lastAck \in {state.lastAck, ref.lastAck}
<1>0. /\ state \in Transfers /\ ref \in Transfers /\ total \in Nat /\ sealed \in Nat
      /\ sealed <= total /\ ref.lastAck \in Nat /\ ref.status \in Statuses
  BY TransferFacts
<1>1. CASE Seal
  <2>1. Least(ChunkSize, total - sealed) \in Nat
    BY <1>0, ChunkSizeIs DEF Least
  <2>2. sealed' \in Nat /\ sealed <= sealed'
    BY <1>0, <1>1, <2>1 DEF Seal
  <2> QED
    BY <1>1, <2>2 DEF Seal
<1>2. CASE HandleFrame \/ WaitForWindow \/ Stall
  <2>1. /\ UNCHANGED <<ref, sealed>> /\ (Fail \/ state' = state)
    BY <1>2 DEF HandleFrame, WaitForWindow, Stall
  <2> QED
    BY <1>0, <2>1, FailFacts
<1>3. CASE SendChunk
  <2>0. pc = "buffer" /\ sealed' = sealed
    BY <1>3 DEF SendChunk
  <2>1. CASE worker \/ friend
    <3>1. /\ ref' = [ref EXCEPT !.sentBytes = sealed]
          /\ state' \in Progress(state, sealed, ref.lastAck)
      BY <1>3, <2>1 DEF SendChunk
    <3> QED
      BY <1>0, <2>0, <3>1, SentEntry, ProgressFacts
  <2>2. CASE ~ (worker \/ friend)
    BY <1>0, <1>3, <2>0, <2>2, FailFacts DEF SendChunk
  <2> QED
    BY <2>1, <2>2
<1>4. CASE SendLast
  <2>0. pc = "buffer" /\ sealed' = sealed /\ pc' = "over"
    BY <1>4 DEF SendLast, Fail
  <2>1. PICK published \in Progress(state, sealed, ref.lastAck) :
          IF friend
          THEN /\ ref' = [ref EXCEPT !.sentBytes = sealed,
                                     !.status = IF worker THEN "done" ELSE @]
               /\ state' = IF published.status # "streaming" THEN published
                           ELSE IF worker THEN ref' ELSE Status(published, "done")
          ELSE /\ ref' = IF worker THEN [ref EXCEPT !.sentBytes = sealed] ELSE ref
               /\ Fail
    BY <1>4 DEF SendLast
  <2>2. /\ published \in Transfers /\ published.sentBytes \in {state.sentBytes, sealed}
        /\ published.lastAck \in {state.lastAck, ref.lastAck}
    BY <1>0, <2>1, ProgressFacts
  <2>3. CASE friend
    <3>1. ref'.sentBytes = sealed /\ ref'.lastAck = ref.lastAck
      BY <1>0, <2>1, <2>3 DEF Transfers
    <3>2. state' \in {published, ref', Status(published, "done")}
      BY <2>1, <2>3
    <3>3. /\ Status(published, "done").sentBytes = published.sentBytes
          /\ Status(published, "done").lastAck = published.lastAck
      BY <2>2, EntryFacts DEF Statuses
    <3> QED
      BY <1>0, <2>0, <2>2, <3>1, <3>2, <3>3
  <2>4. CASE ~ friend
    <3>1. state'.sentBytes = state.sentBytes /\ state'.lastAck = state.lastAck
      BY <1>0, <2>1, <2>4, FailFacts
    <3>2. ref' \in {ref, [ref EXCEPT !.sentBytes = sealed]}
      BY <2>1, <2>4
    <3>3. ref'.sentBytes \in {ref.sentBytes, sealed} /\ ref'.lastAck = ref.lastAck
      BY <1>0, <3>2 DEF Transfers
    <3> QED
      BY <1>0, <2>0, <3>1, <3>3
  <2> QED
    BY <2>3, <2>4
<1> QED
  BY <1>1, <1>2, <1>3, <1>4 DEF Loop

LEMMA NextCopies ==
    ASSUME ~ OtherTransfers, ListInv, CopiesInv, [Next]_vars
    PROVE  CopiesInv'
<1> USE DEF sendVars, netVars
<1>t. /\ state \in Transfers /\ shown \in Transfers /\ ref \in Transfers
      /\ state.status \in Statuses /\ shown.status \in Statuses /\ ref.status \in Statuses
      /\ \A s \in Statuses : Status(state, s).status = s
      /\ Statuses = {"none", "awaiting-decision", "streaming", "done", "rejected", "aborted"}
      /\ None.status = "none"
  BY TransferFacts, EntryFacts DEF Statuses
<1>r. /\ Running \subseteq Begun
      /\ "over" \notin Running /\ "stuck" \notin Running /\ "idle" \notin Begun /\ "offered" \notin Begun
      /\ "seal" \in Running
      /\ Begun = Running \cup {"stuck", "over"}
  BY DEF Running, Begun
<1>b. pc \in Begun => state.status \notin {"awaiting-decision", "rejected"}
  BY DEF ListInv
<1>1. CASE Loop \/ Stall
  <2>1. /\ pc \in Running /\ pc' \in Running \cup {"over"} /\ UNCHANGED <<shown, effectDue>>
        /\ state'.status # "awaiting-decision"
        /\ pc' # "over" => state'.status = state.status
    BY <1>1, <1>b, <1>r, LoopSteps DEF Looped
  <2>2. pc' # "over" => ref'.status = ref.status
    BY <1>1, LoopCursors
  <2> QED
    BY <1>r, <2>1, <2>2 DEF CopiesInv
<1>2. CASE TransferAccept
  <2>1. /\ UNCHANGED <<shown, effectDue>> /\ pc = "offered"
        /\ friend => state.status = "awaiting-decision"
    BY <1>2, Arrived DEF TransferAccept
  <2>2. CASE friend /\ ref.status = "awaiting-decision"
    <3> DEFINE u == [state EXCEPT !.status = "streaming", !.lastAck = 0]
               v == [ref EXCEPT !.status = "streaming", !.lastAck = 0]
    <3>1. u.status = "streaming" /\ v.status = "streaming"
      BY <1>t, BegunEntry
    <3>2. state' = u /\ pc' = "seal" /\ ref' = v
      BY <1>2, <2>1, <2>2 DEF TransferAccept, Updated
    <3>3. shown.status = "awaiting-decision" /\ ~ effectDue
      BY <2>1, <2>2 DEF CopiesInv
    <3>4. state'.status = "streaming" /\ ref'.status = "streaming"
      BY <3>1, <3>2
    <3> QED
      BY <2>1, <3>3, <3>4 DEF CopiesInv
  <2>3. CASE ~ (friend /\ ref.status = "awaiting-decision")
    BY <1>2, <2>1, <2>3 DEF TransferAccept, CopiesInv
  <2> QED
    BY <2>2, <2>3
<1>3. CASE TransferReject
  <2>1. /\ UNCHANGED <<shown, effectDue, pc>> /\ pc = "offered"
        /\ state' = state \/ state'.status = "rejected"
    BY <1>3, <1>t, Arrived DEF TransferReject
  <2> QED
    BY <1>r, <2>1 DEF CopiesInv
<1>4. CASE TransferAck
  <2>1. /\ UNCHANGED <<shown, effectDue, pc>> /\ pc \in Begun
        /\ \/ UNCHANGED <<ref, state>>
           \/ \E n \in Nat : ref' = Acked(ref, n) /\ state' = Acked(state, n)
    BY <1>4, Arrived DEF TransferAck
  <2>2. ref'.status = ref.status /\ state'.status = state.status
    <3>1. \A n \in Nat : /\ Acked(ref, n).status = ref.status
                        /\ Acked(state, n).status = state.status
      BY <1>t, AckedFacts
    <3> QED
      BY <2>1, <3>1
  <2> QED
    BY <1>b, <2>1, <2>2 DEF CopiesInv
<1>5. CASE PeerLeft
  <2>1. /\ UNCHANGED <<shown, ref, effectDue, pc>>
        /\ state' = state \/ state'.status = "aborted"
    BY <1>5, <1>t DEF PeerLeft
  <2> QED
    BY <2>1 DEF CopiesInv
<1>6. CASE SendFile \/ Dismiss
  <2>1. /\ shown' = state' /\ ref' = state' /\ ~ effectDue'
        /\ pc' = "offered" \/ (pc' = pc /\ state'.status = "none")
    BY <1>6, <1>t DEF SendFile, Dismiss, Click
  <2> QED
    BY <1>r, <2>1 DEF CopiesInv
<1>7. CASE Render
  <2>1. /\ UNCHANGED <<state, pc>> /\ shown' = state /\ shown # state
        /\ ref' = IF effectDue THEN Merged(shown, ref) ELSE ref
    BY <1>7 DEF Render
  <2>2. state.status # "awaiting-decision"
    BY <2>1 DEF CopiesInv
  <2>3. ref'.status = IF effectDue THEN shown.status ELSE ref.status
    BY <1>t, <2>1, MergedFacts
  <2>4. CASE pc \in Running
    <3>1. state.status \in {"streaming", "aborted", "none"}
      BY <1>b, <1>r, <1>t, <2>4 DEF ListInv
    <3>2. ref'.status \in {"streaming", "aborted", "none"}
      BY <2>3, <2>4 DEF CopiesInv
    <3>3. ref'.status # "streaming" => state.status \in {"aborted", "none"}
      BY <2>1, <2>3, <2>4 DEF CopiesInv
    <3> QED
      BY <2>1, <2>2, <3>1, <3>2, <3>3 DEF CopiesInv
  <2> QED
    BY <2>1, <2>2, <2>4 DEF CopiesInv
<1>8. CASE Effect
  <2>1. /\ UNCHANGED <<state, shown, pc>> /\ effectDue /\ ref' = Merged(shown, ref)
        /\ ~ effectDue'
    BY <1>8 DEF Effect
  <2>2. ref'.status = shown.status
    BY <1>t, <2>1, MergedFacts
  <2> QED
    BY <2>1, <2>2 DEF CopiesInv
<1>9. CASE BufferStuck \/ Decide \/ Receive \/ PeerStops \/ Lost \/ UNCHANGED vars
  BY <1>9, <1>r DEF BufferStuck, Decide, Receive, PeerStops, Lost, vars, CopiesInv
<1> QED
  BY <1>1, <1>2, <1>3, <1>4, <1>5, <1>6, <1>7, <1>8, <1>9 DEF Next, OnEnvelope

\* What the peer takes, and the ack it may send of it.
LEMMA ReceiveFacts ==
    ASSUME ListInv, window \in Nat, Receive
    PROVE  /\ pc \in Begun /\ toPeer # <<>> /\ toPeer' = Tail(toPeer)
           /\ UNCHANGED <<state, shown, ref, effectDue, total, friend, sendVars, online>>
           /\ \E n \in Nat :
                 /\ n = IF Head(toPeer).kind = "chunk" THEN Head(toPeer).n ELSE peer.received
                 /\ peer'.received = n
                 /\ peer'.left = peer.left /\ peer'.silent = peer.silent
                 /\ \/ /\ peer'.lastAcked = n /\ n > peer.lastAcked
                       /\ toPage' = Append(toPage, Frame("ack", n))
                    \/ /\ peer'.lastAcked = peer.lastAcked /\ toPage' = toPage
                       /\ ~ ShouldAck(n, peer.lastAcked, window)
<1>1. pc \in Begun
  <2> SUFFICES ASSUME pc \notin Begun PROVE FALSE
    OBVIOUS
  <2>1. toPeer = <<Offer>> /\ Head(toPeer).kind # "offer"
    BY DEF ListInv, Receive
  <2>2. Head(<<Offer>>) = Offer
    OBVIOUS
  <2> QED
    BY <2>1, <2>2, FrameFacts DEF Offer
<1>2. toPeer # <<>> /\ toPeer' = Tail(toPeer)
  BY DEF Receive
<1>3. Head(toPeer) \in Sent /\ peer \in Peers
  BY <1>1, <1>2, TailFacts DEF ListInv
<1> DEFINE n == IF Head(toPeer).kind = "chunk" THEN Head(toPeer).n ELSE peer.received
           due == ShouldAck(n, peer.lastAcked, window)
<1>4. n \in Nat /\ peer.lastAcked \in Nat
  BY <1>3 DEF Sent, Peers
<1>5. /\ due => /\ peer' = [peer EXCEPT !.received = n,
                                        !.ended = @ \/ Head(toPeer).kind = "end",
                                        !.lastAcked = n]
                /\ toPage' = Append(toPage, Frame("ack", n))
      /\ ~ due => /\ peer' = [peer EXCEPT !.received = n,
                                          !.ended = @ \/ Head(toPeer).kind = "end",
                                          !.lastAcked = @]
                  /\ toPage' = toPage
  BY DEF Receive
<1>6. due => n > peer.lastAcked
  <2>1. AckThreshold(window) \in Int
    BY DEF AckThreshold
  <2> HIDE DEF n
  <2> QED
    BY <1>4, <2>1 DEF ShouldAck
<1> HIDE DEF n, due
<1>7. /\ peer'.received = n /\ peer'.left = peer.left /\ peer'.silent = peer.silent
      /\ peer'.lastAcked = IF due THEN n ELSE peer.lastAcked
  BY <1>3, <1>5 DEF Peers
<1> QED
  BY <1>1, <1>2, <1>4, <1>5, <1>6, <1>7 DEF Receive, n, due

\* The effect copies a rendered transfer into a ref that is ahead of it: a
\* ref that streams afterwards did before, with the same cursors.
LEMMA EffectKeeps ==
    ASSUME ListInv, CopiesInv, CursorInv, pc \in Running,
           Merged(shown, ref).status = "streaming"
    PROVE  /\ ref.status = "streaming"
           /\ Merged(shown, ref).sentBytes = ref.sentBytes
           /\ Merged(shown, ref).lastAck = ref.lastAck
<1>1. /\ shown.sentBytes \in Nat /\ shown.lastAck \in Nat /\ shown \in Transfers
      /\ ref.sentBytes \in Nat /\ ref.lastAck \in Nat /\ ref \in Transfers
  BY TransferFacts
<1>2. shown.status = "streaming"
  BY <1>1, MergedFacts
<1>3. ref.status = "streaming"
  BY <1>2 DEF CopiesInv
<1>4. shown.sentBytes <= ref.sentBytes /\ shown.lastAck <= ref.lastAck
  BY <1>3 DEF CursorInv
<1>5. /\ Merged(shown, ref).sentBytes = Larger(shown.sentBytes, ref.sentBytes)
      /\ Merged(shown, ref).lastAck = Larger(shown.lastAck, ref.lastAck)
  BY <1>1, <1>2, <1>3, MergedFacts
<1> QED
  BY <1>1, <1>3, <1>4, <1>5 DEF Larger

\* What an ack does to the ref and to the state.
LEMMA AckSteps ==
    ASSUME ListInv, TransferAck
    PROVE  /\ pc \in Begun /\ toPage # <<>> /\ toPage' = Tail(toPage)
           /\ UNCHANGED <<shown, effectDue, total, friend, online, toPeer, peer, sendVars>>
           /\ Head(toPage).n \in Nat
           /\ IF friend /\ ref.status = "streaming" /\ Head(toPage).n >= ref.lastAck
              THEN /\ ref'.lastAck = Head(toPage).n
                   /\ ref'.status = "streaming" /\ ref'.sentBytes = ref.sentBytes
                   /\ state'.status = state.status /\ state'.sentBytes = state.sentBytes
                   /\ state'.lastAck \in {state.lastAck, Head(toPage).n}
              ELSE UNCHANGED <<ref, state>>
<1>1. /\ pc \in Begun /\ toPage # <<>> /\ Head(toPage).n \in Nat
      /\ UNCHANGED <<shown, effectDue, total, friend, online, toPeer, peer>>
  BY Arrived DEF TransferAck
<1>2. toPage' = Tail(toPage) /\ UNCHANGED sendVars
  BY DEF TransferAck, FromPeer
<1>3. \A n \in Nat : \A t \in {state, ref} :
         /\ Acked(t, n).status = t.status /\ Acked(t, n).sentBytes = t.sentBytes
         /\ Acked(t, n).lastAck = IF t.status = "streaming" /\ n >= t.lastAck
                                  THEN n ELSE t.lastAck
  BY TransferFacts, AckedFacts
<1>4. CASE friend /\ ref.status = "streaming" /\ Head(toPage).n >= ref.lastAck
  <2>1. ref' = Acked(ref, Head(toPage).n) /\ state' = Acked(state, Head(toPage).n)
    BY <1>4 DEF TransferAck
  <2> QED
    BY <1>1, <1>2, <1>3, <1>4, <2>1
<1>5. CASE ~ (friend /\ ref.status = "streaming" /\ Head(toPage).n >= ref.lastAck)
  <2>1. UNCHANGED <<ref, state>>
    BY <1>5 DEF TransferAck
  <2> QED
    BY <1>1, <1>2, <1>5, <2>1
<1> QED
  BY <1>4, <1>5

\* The accept starts the loop, with the cursors at zero.
LEMMA AcceptSteps ==
    ASSUME ListInv, TransferAccept
    PROVE  /\ UNCHANGED <<shown, effectDue, total, friend, online, toPeer, peer,
                          worker, window, sealed, need>>
           /\ pc = "offered" /\ toPeer = <<>> /\ toPage' = <<>>
           /\ \/ /\ pc' = "seal"
                 /\ ref'.status = "streaming" /\ ref'.lastAck = 0
                 /\ ref'.sentBytes = ref.sentBytes
                 /\ state'.status = "streaming" /\ state'.lastAck = 0
                 /\ state'.sentBytes = state.sentBytes
              \/ UNCHANGED <<state, ref, pc>>
<1>1. /\ UNCHANGED <<shown, effectDue, total, friend, online, toPeer, peer,
                     worker, window, sealed, need>>
      /\ pc = "offered" /\ toPeer = <<>> /\ toPage' = <<>>
      /\ friend => state.status = "awaiting-decision"
  BY Arrived DEF TransferAccept
<1>2. CASE friend /\ ref.status = "awaiting-decision"
  <2> DEFINE u == [state EXCEPT !.status = "streaming", !.lastAck = 0]
             v == [ref EXCEPT !.status = "streaming", !.lastAck = 0]
  <2>1. /\ u.status = "streaming" /\ u.lastAck = 0 /\ u.sentBytes = state.sentBytes
        /\ v.status = "streaming" /\ v.lastAck = 0 /\ v.sentBytes = ref.sentBytes
    BY TransferFacts, BegunEntry DEF Statuses
  <2>2. state' = u /\ ref' = v /\ pc' = "seal"
    BY <1>1, <1>2 DEF TransferAccept, Updated
  <2> HIDE DEF u, v
  <2> QED
    BY <1>1, <2>1, <2>2
<1>3. CASE ~ (friend /\ ref.status = "awaiting-decision")
  BY <1>1, <1>3 DEF TransferAccept
<1> QED
  BY <1>2, <1>3

\* Handlers, clicks and renders that send nothing and take no ack.
Aside == TransferReject \/ PeerLeft \/ Dismiss \/ Render \/ Effect

LEMMA AsideSteps ==
    ASSUME ListInv, CopiesInv, CursorInv, Aside
    PROVE  /\ UNCHANGED <<sendVars, total, online, toPeer, peer>>
           /\ pc \in Running => UNCHANGED toPage
           /\ toPage' = toPage \/ (pc = "offered" /\ toPage' = <<>>)
           /\ \A t \in {state', shown', ref'} :
                 /\ t.sentBytes \in {0, state.sentBytes, shown.sentBytes, ref.sentBytes}
                 /\ t.lastAck \in {0, state.lastAck, shown.lastAck, ref.lastAck}
           /\ (pc \in Running /\ ref'.status = "streaming") =>
                 /\ ref.status = "streaming"
                 /\ ref'.sentBytes = ref.sentBytes /\ ref'.lastAck = ref.lastAck
           /\ friend' = friend \/ (~ friend' /\ peer.left)
           /\ state'.status = "aborted" => state.status = "aborted" \/ peer.left
<1> USE DEF sendVars, netVars
<1>t. /\ state \in Transfers /\ shown \in Transfers /\ ref \in Transfers
      /\ shown.sentBytes \in Nat /\ shown.lastAck \in Nat
      /\ ref.sentBytes \in Nat /\ ref.lastAck \in Nat
      /\ \A s \in Statuses : /\ Status(state, s).status = s
                            /\ Status(state, s).sentBytes = state.sentBytes
                            /\ Status(state, s).lastAck = state.lastAck
      /\ "aborted" \in Statuses /\ "rejected" \in Statuses
      /\ None.status = "none" /\ None.sentBytes = 0 /\ None.lastAck = 0
  BY TransferFacts, EntryFacts DEF Statuses
<1>m. /\ Merged(shown, ref).sentBytes \in {shown.sentBytes, ref.sentBytes}
      /\ Merged(shown, ref).lastAck \in {shown.lastAck, ref.lastAck}
  <2>1. CASE shown.status = "streaming" /\ ref.status = "streaming"
    BY <1>t, <2>1, MergedFacts DEF Larger
  <2>2. CASE ~ (shown.status = "streaming" /\ ref.status = "streaming")
    BY <1>t, <2>2, MergedFacts
  <2> QED
    BY <2>1, <2>2
<1>1. CASE TransferReject
  <2>1. /\ UNCHANGED <<shown, ref, sendVars, total, online, toPeer, peer, friend>>
        /\ pc = "offered" /\ toPage' = <<>>
        /\ state' \in {state, Status(state, "rejected")}
    BY <1>1, Arrived DEF TransferReject
  <2>2. /\ state'.sentBytes = state.sentBytes /\ state'.lastAck = state.lastAck
        /\ state'.status \in {state.status, "rejected"}
    BY <1>t, <2>1
  <2> QED
    BY <2>1, <2>2 DEF Running
<1>2. CASE PeerLeft
  <2>1. /\ UNCHANGED <<shown, ref, sendVars, netVars, total>> /\ peer.left /\ ~ friend'
        /\ state' \in {state, Status(state, "aborted")}
    BY <1>2 DEF PeerLeft
  <2>2. state'.sentBytes = state.sentBytes /\ state'.lastAck = state.lastAck
    BY <1>t, <2>1
  <2> QED
    BY <2>1, <2>2
<1>3. CASE Dismiss
  BY <1>3, <1>t DEF Dismiss, Click
<1>4. CASE Render
  <2>1. /\ UNCHANGED <<state, sendVars, netVars, total, friend>> /\ shown' = state
        /\ ref' \in {ref, Merged(shown, ref)}
    BY <1>4 DEF Render
  <2> QED
    BY <1>m, <2>1, EffectKeeps
<1>5. CASE Effect
  <2>1. /\ UNCHANGED <<state, shown, sendVars, netVars, total, friend>>
        /\ ref' = Merged(shown, ref)
    BY <1>5 DEF Effect
  <2> QED
    BY <1>m, <2>1, EffectKeeps
<1> QED
  BY <1>1, <1>2, <1>3, <1>4, <1>5 DEF Aside

\* Every other step, in one list.
LEMMA Steps ==
    ASSUME [Next]_vars
    PROVE  \/ Loop \/ Stall \/ TransferAccept \/ TransferAck \/ Aside \/ SendFile
           \/ BufferStuck \/ Decide \/ Receive \/ PeerStops \/ Lost \/ UNCHANGED vars
  BY DEF Next, OnEnvelope, Aside

LEMMA NextCursor ==
    ASSUME ListInv, CopiesInv, CursorInv, AckInv, window \in Nat, [Next]_vars
    PROVE  CursorInv'
<1> USE DEF sendVars, netVars
<1>t. /\ state.sentBytes \in Nat /\ state.lastAck \in Nat
      /\ shown.sentBytes \in Nat /\ shown.lastAck \in Nat
      /\ ref.sentBytes \in Nat /\ ref.lastAck \in Nat
      /\ sealed \in Nat /\ peer.lastAcked \in Nat
  BY TransferFacts
<1>r. "over" \notin Running /\ "stuck" \notin Running /\ Begun = Running \cup {"stuck", "over"}
      /\ "offered" \notin Begun /\ "idle" \notin Begun
  BY DEF Running, Begun
<1>b. /\ state.sentBytes <= sealed /\ state.lastAck <= peer.lastAcked
      /\ shown.sentBytes <= sealed /\ shown.lastAck <= peer.lastAcked
      /\ ref.sentBytes <= sealed /\ ref.lastAck <= peer.lastAcked
  BY DEF CursorInv
<1>1. CASE Loop \/ Stall
  <2>1. /\ pc \in Running /\ pc' \in Running \cup {"over"} /\ UNCHANGED <<shown, peer>>
    BY <1>1, LoopSteps DEF Looped
  <2>2. /\ sealed' \in Nat /\ sealed <= sealed'
        /\ ref'.lastAck = ref.lastAck /\ (pc' # "over" => ref'.status = ref.status)
        /\ \/ /\ ref'.sentBytes = ref.sentBytes /\ state'.sentBytes = state.sentBytes
              /\ state'.lastAck = state.lastAck
           \/ /\ ref'.sentBytes = sealed /\ state'.sentBytes \in {state.sentBytes, sealed}
              /\ state'.lastAck \in {state.lastAck, ref.lastAck}
    BY <1>1, LoopCursors
  <2>3. \A t \in {state', shown', ref'} : t.sentBytes <= sealed' /\ t.lastAck <= peer'.lastAcked
    BY <1>t, <1>b, <2>1, <2>2
  <2>4. (pc' \in Running /\ ref'.status = "streaming") =>
           \A t \in {state', shown'} : t.sentBytes <= ref'.sentBytes /\ t.lastAck <= ref'.lastAck
    <3> SUFFICES ASSUME pc' \in Running, ref'.status = "streaming"
                 PROVE  /\ state'.sentBytes <= ref'.sentBytes /\ state'.lastAck <= ref'.lastAck
                        /\ shown.sentBytes <= ref'.sentBytes /\ shown.lastAck <= ref'.lastAck
      BY <2>1
    <3>1. /\ state.sentBytes <= ref.sentBytes /\ state.lastAck <= ref.lastAck
          /\ shown.sentBytes <= ref.sentBytes /\ shown.lastAck <= ref.lastAck
      BY <1>r, <2>1, <2>2 DEF CursorInv
    <3> QED
      BY <1>t, <1>b, <2>2, <3>1
  <2> QED
    BY <1>r, <2>1, <2>3, <2>4 DEF CursorInv
<1>2. CASE TransferAccept
  <2>1. /\ UNCHANGED <<shown, sealed, peer>> /\ pc = "offered"
        /\ \/ /\ pc' = "seal"
              /\ ref'.lastAck = 0 /\ ref'.sentBytes = ref.sentBytes
              /\ state'.lastAck = 0 /\ state'.sentBytes = state.sentBytes
           \/ UNCHANGED <<state, ref, pc>>
    BY <1>2, AcceptSteps
  <2>2. /\ sealed = 0 /\ peer.lastAcked = 0
        /\ state.sentBytes = 0 /\ shown.sentBytes = 0 /\ shown.lastAck = 0 /\ ref.sentBytes = 0
    BY <1>t, <1>b, <1>r, <2>1 DEF CursorInv
  <2>3. CASE pc' = "seal"
    <3>1. \A t \in {state', shown', ref'} : t.sentBytes = 0 /\ t.lastAck = 0
      BY <2>1, <2>2, <2>3
    <3> QED
      BY <2>1, <2>2, <2>3, <3>1 DEF CursorInv, Begun, Running
  <2>4. CASE UNCHANGED <<state, ref, pc>>
    BY <2>1, <2>4 DEF CursorInv
  <2> QED
    BY <2>1, <2>3, <2>4
<1>3. CASE TransferAck
  <2> DEFINE n == Head(toPage).n
  <2>1. /\ pc \in Begun /\ toPage # <<>> /\ UNCHANGED <<shown, peer, sealed, pc>>
        /\ n \in Nat
        /\ IF friend /\ ref.status = "streaming" /\ n >= ref.lastAck
           THEN /\ ref'.lastAck = n /\ ref'.sentBytes = ref.sentBytes
                /\ ref'.status = "streaming" /\ state'.sentBytes = state.sentBytes
                /\ state'.lastAck \in {state.lastAck, n}
           ELSE UNCHANGED <<ref, state>>
    BY <1>3, AckSteps
  <2>2. n <= peer.lastAcked
    <3>1. toPage \in Seq(Acks)
      BY <2>1 DEF ListInv
    <3>2. 1 \in 1..Len(toPage) /\ Head(toPage) = toPage[1]
      BY <2>1, <3>1, TailFacts
    <3> QED
      BY <2>1, <3>2 DEF AckInv
  <2> HIDE DEF n
  <2>3. CASE UNCHANGED <<ref, state>>
    BY <2>1, <2>3 DEF CursorInv
  <2>4. CASE friend /\ ref.status = "streaming" /\ n >= ref.lastAck
    <3>1. \A t \in {state', shown', ref'} : t.sentBytes <= sealed /\ t.lastAck <= peer.lastAcked
      BY <1>t, <1>b, <2>1, <2>2, <2>4
    <3>2. pc \in Running =>
            \A t \in {state', shown'} : t.sentBytes <= ref'.sentBytes /\ t.lastAck <= ref'.lastAck
      <4> SUFFICES ASSUME pc \in Running
                   PROVE  /\ state'.sentBytes <= ref'.sentBytes /\ state'.lastAck <= ref'.lastAck
                          /\ shown.sentBytes <= ref'.sentBytes /\ shown.lastAck <= ref'.lastAck
        BY <2>1
      <4>1. /\ state.sentBytes <= ref.sentBytes /\ state.lastAck <= ref.lastAck
            /\ shown.sentBytes <= ref.sentBytes /\ shown.lastAck <= ref.lastAck
        BY <2>4 DEF CursorInv
      <4> QED
        BY <1>t, <2>1, <2>4, <4>1
    <3> QED
      BY <2>1, <3>1, <3>2 DEF CursorInv
  <2> QED
    BY <2>1, <2>3, <2>4
<1>4. CASE Aside
  <2>1. /\ UNCHANGED <<pc, sealed, peer>>
        /\ \A t \in {state', shown', ref'} :
              /\ t.sentBytes \in {0, state.sentBytes, shown.sentBytes, ref.sentBytes}
              /\ t.lastAck \in {0, state.lastAck, shown.lastAck, ref.lastAck}
        /\ (pc \in Running /\ ref'.status = "streaming") =>
              /\ ref.status = "streaming"
              /\ ref'.sentBytes = ref.sentBytes /\ ref'.lastAck = ref.lastAck
    BY <1>4, AsideSteps
  <2>2. \A t \in {state', shown', ref'} : t.sentBytes <= sealed /\ t.lastAck <= peer.lastAcked
    BY <1>t, <1>b, <2>1
  <2>3. (pc \in Running /\ ref'.status = "streaming") =>
          \A t \in {state', shown'} : t.sentBytes <= ref'.sentBytes /\ t.lastAck <= ref'.lastAck
    <3> SUFFICES ASSUME pc \in Running, ref'.status = "streaming", NEW t \in {state', shown'}
                 PROVE  t.sentBytes <= ref'.sentBytes /\ t.lastAck <= ref'.lastAck
      OBVIOUS
    <3>1. /\ state.sentBytes <= ref.sentBytes /\ state.lastAck <= ref.lastAck
          /\ shown.sentBytes <= ref.sentBytes /\ shown.lastAck <= ref.lastAck
      BY <2>1 DEF CursorInv
    <3>2. /\ t.sentBytes \in {0, state.sentBytes, shown.sentBytes, ref.sentBytes}
          /\ t.lastAck \in {0, state.lastAck, shown.lastAck, ref.lastAck}
      BY <2>1
    <3> QED
      BY <1>t, <2>1, <3>1, <3>2
  <2> QED
    BY <2>1, <2>2, <2>3 DEF CursorInv
<1>5. CASE SendFile
  <2> DEFINE t == Status(None, "awaiting-decision")
  <2>1. /\ state' = t /\ shown' = t /\ ref' = t /\ pc = "idle" /\ pc' = "offered"
        /\ UNCHANGED <<sealed, peer>>
    BY <1>5 DEF SendFile, Click
  <2>2. t.sentBytes = 0 /\ t.lastAck = 0
    BY EntryFacts DEF Statuses
  <2> HIDE DEF t
  <2> QED
    BY <1>t, <1>r, <2>1, <2>2 DEF CursorInv, Running
<1>6. CASE Receive
  <2>1. /\ pc \in Begun /\ UNCHANGED <<state, shown, ref, sealed, pc>>
        /\ peer'.lastAcked \in Nat /\ peer.lastAcked <= peer'.lastAcked
    BY <1>6, <1>t, ReceiveFacts
  <2>2. \A t \in {state', shown', ref'} : t.sentBytes <= sealed' /\ t.lastAck <= peer'.lastAcked
    BY <1>t, <1>b, <2>1
  <2> QED
    BY <2>1, <2>2 DEF CursorInv
<1>7. CASE PeerStops
  <2>1. UNCHANGED <<state, shown, ref, sealed, pc>> /\ peer'.lastAcked = peer.lastAcked
    BY <1>7, TransferFacts DEF PeerStops, Peers
  <2> QED
    BY <2>1 DEF CursorInv
<1>8. CASE BufferStuck \/ Decide \/ Lost \/ UNCHANGED vars
  BY <1>8, <1>r DEF BufferStuck, Decide, Lost, vars, CursorInv
<1> QED
  BY <1>1, <1>2, <1>3, <1>4, <1>5, <1>6, <1>7, <1>8, Steps

LEMMA NextAck ==
    ASSUME ListInv, CopiesInv, CursorInv, AckInv, window \in Nat, [Next]_vars
    PROVE  AckInv'
<1> USE DEF sendVars, netVars
<1>r. "over" \notin Running /\ "stuck" \notin Running /\ Begun = Running \cup {"stuck", "over"}
      /\ "offered" \notin Begun /\ "idle" \notin Begun
  BY DEF Running, Begun
<1>t. peer.lastAcked \in Nat /\ peer.received \in Nat /\ ref.lastAck \in Nat
  BY TransferFacts
<1>1. CASE Loop \/ Stall
  <2>1. /\ pc \in Running /\ pc' \in Running \cup {"over"}
        /\ UNCHANGED <<friend, window, online, toPage, peer>>
    BY <1>1, LoopSteps DEF Looped
  <2>2. ref'.lastAck = ref.lastAck /\ (pc' # "over" => ref'.status = ref.status)
    BY <1>1, LoopCursors
  <2> QED
    BY <1>r, <2>1, <2>2 DEF AckInv
<1>2. CASE TransferAccept
  <2>1. /\ UNCHANGED <<friend, window, online, peer>> /\ pc = "offered" /\ toPage' = <<>>
        /\ (pc' = "seal" /\ ref'.lastAck = 0) \/ pc' = pc
    BY <1>2, AcceptSteps
  <2>2. peer.lastAcked = 0
    BY <1>r, <2>1 DEF CursorInv
  <2>3. \A i \in 1..Len(toPage') : FALSE
    BY <2>1
  <2> QED
    BY <1>r, <2>1, <2>2, <2>3 DEF AckInv
<1>3. CASE TransferAck
  <2>1. /\ pc \in Begun /\ toPage # <<>> /\ toPage' = Tail(toPage)
        /\ UNCHANGED <<friend, online, peer, window, pc>>
        /\ IF friend /\ ref.status = "streaming" /\ Head(toPage).n >= ref.lastAck
           THEN ref'.lastAck = Head(toPage).n
           ELSE ref' = ref
    BY <1>3, AckSteps
  <2>2. /\ toPage \in Seq(Acks) /\ toPage' \in Seq(Acks)
        /\ Len(toPage) \in Nat \ {0} /\ Len(toPage') = Len(toPage) - 1
        /\ \A i \in 1..(Len(toPage) - 1) : toPage'[i] = toPage[i + 1]
        /\ Head(toPage) = toPage[1]
    BY <2>1, TailFacts DEF ListInv
  <2>3. \A i \in 1..Len(toPage) : toPage[i].n \in Nat
    <3>1. \A i \in 1..Len(toPage) : toPage[i] \in Acks
      BY <2>2, ElementOfSeq
    <3> QED
      BY <3>1 DEF Acks
  <2>4. \A i \in 1..Len(toPage') :
           /\ i + 1 \in 1..Len(toPage) /\ toPage'[i] = toPage[i + 1]
           /\ \A j \in 1..i : j + 1 \in 1..(i + 1) /\ j \in 1..Len(toPage')
    BY <2>2
  <2>5. \A i \in 1..Len(toPage) : /\ toPage[i].n <= peer.lastAcked
                                 /\ \A j \in 1..i : toPage[j].n <= toPage[i].n
    BY <2>1 DEF AckInv
  <2>6. \A i \in 1..Len(toPage') : /\ toPage'[i].n <= peer.lastAcked
                                  /\ \A j \in 1..i : toPage'[j].n <= toPage'[i].n
    BY <2>4, <2>5
  <2>7. ASSUME pc \in Running, ref'.status = "streaming", friend, online
        PROVE  /\ toPage' = <<>> => ref'.lastAck = peer.lastAcked
               /\ toPage' # <<>> => toPage'[Len(toPage')].n = peer.lastAcked
               /\ \A i \in 1..Len(toPage') : ref'.lastAck <= toPage'[i].n
    <3>1. ref.status = "streaming"
      BY <1>3, <2>7, AckSteps
    <3>2. /\ toPage[Len(toPage)].n = peer.lastAcked
          /\ \A i \in 1..Len(toPage) : ref.lastAck <= toPage[i].n
      BY <2>1, <2>7, <3>1 DEF AckInv
    <3>3. ref'.lastAck = toPage[1].n
      BY <1>t, <2>1, <2>2, <2>3, <2>7, <3>1, <3>2
    <3>4. toPage' = <<>> <=> Len(toPage) = 1
      BY <2>2, EmptySeq
    <3>5. CASE Len(toPage) = 1
      BY <2>2, <3>2, <3>3, <3>4, <3>5
    <3>6. CASE Len(toPage) # 1
      <4>1. Len(toPage') \in 1..(Len(toPage) - 1)
        BY <2>2, <3>6
      <4>2. toPage'[Len(toPage')] = toPage[Len(toPage)]
        BY <2>2, <4>1
      <4>3. \A i \in 1..Len(toPage') : ref'.lastAck <= toPage'[i].n
        <5> SUFFICES ASSUME NEW i \in 1..Len(toPage') PROVE ref'.lastAck <= toPage'[i].n
          OBVIOUS
        <5>1. 1 \in 1..(i + 1)
          BY <2>2
        <5> QED
          BY <2>4, <2>5, <3>3, <5>1
      <4> QED
        BY <3>2, <3>4, <3>6, <4>2, <4>3
    <3> QED
      BY <3>5, <3>6
  <2> QED
    BY <2>1, <2>6, <2>7 DEF AckInv
<1>4. CASE Aside
  <2>1. /\ UNCHANGED <<pc, window, peer, online>>
        /\ pc \in Running => UNCHANGED toPage
        /\ toPage' = toPage \/ pc = "offered"
        /\ (pc \in Running /\ ref'.status = "streaming") =>
              ref.status = "streaming" /\ ref'.lastAck = ref.lastAck
        /\ friend' = friend \/ (~ friend' /\ peer.left)
    BY <1>4, AsideSteps
  <2> QED
    BY <1>r, <2>1 DEF AckInv
<1>5. CASE SendFile
  <2>1. UNCHANGED <<window, peer, friend>> /\ pc' = "offered"
    BY <1>5 DEF SendFile
  <2> QED
    BY <1>r, <2>1 DEF AckInv
<1>6. CASE Decide
  <2>1. UNCHANGED <<window, peer, friend, pc>> /\ pc = "offered"
    BY <1>6, DecideSteps
  <2> QED
    BY <1>r, <2>1 DEF AckInv
<1>7. CASE Receive
  <2>1. PICK n \in Nat :
           /\ peer'.received = n /\ peer'.left = peer.left
           /\ \/ /\ peer'.lastAcked = n /\ n > peer.lastAcked
                 /\ toPage' = Append(toPage, Frame("ack", n))
              \/ /\ peer'.lastAcked = peer.lastAcked /\ toPage' = toPage
                 /\ ~ ShouldAck(n, peer.lastAcked, window)
    BY <1>7, ReceiveFacts
  <2>2. pc \in Begun /\ UNCHANGED <<ref, friend, window, pc, online>>
    BY <1>7, ReceiveFacts
  <2>3. CASE peer'.lastAcked = peer.lastAcked /\ toPage' = toPage
             /\ ~ ShouldAck(n, peer.lastAcked, window)
    BY <2>1, <2>2, <2>3 DEF AckInv
  <2>4. CASE /\ peer'.lastAcked = n /\ n > peer.lastAcked
             /\ toPage' = Append(toPage, Frame("ack", n))
    <3>1. ~ ShouldAck(n, n, window)
      <4>1. AckThreshold(window) \in Int
        BY DEF AckThreshold
      <4> QED
        BY <4>1 DEF ShouldAck
    <3>2. Frame("ack", n) \in Acks /\ Frame("ack", n).n = n /\ toPage \in Seq(Acks)
      BY <2>2 DEF Frame, Acks, ListInv
    <3> DEFINE k == Len(toPage) + 1
    <3>3. /\ Len(toPage) \in Nat /\ Len(toPage') = k /\ toPage' # <<>>
          /\ toPage'[k].n = n
          /\ \A i \in 1..Len(toPage) : toPage'[i] = toPage[i]
      BY <2>4, <3>2, AppendFacts
    <3>4. \A i \in 1..Len(toPage) : toPage[i].n \in Nat
      <4>1. \A i \in 1..Len(toPage) : toPage[i] \in Acks
        BY <3>2, ElementOfSeq
      <4> QED
        BY <4>1 DEF Acks
    <3>5. \A i \in 1..Len(toPage) : /\ toPage[i].n <= peer.lastAcked
                                   /\ \A j \in 1..i : toPage[j].n <= toPage[i].n
      BY <2>2 DEF AckInv
    <3>6. \A i \in 1..k : toPage'[i].n <= n
      BY <1>t, <2>4, <3>3, <3>4, <3>5
    <3>7. \A i \in 1..k : \A j \in 1..i : toPage'[j].n <= toPage'[i].n
      <4> SUFFICES ASSUME NEW i \in 1..k, NEW j \in 1..i
                   PROVE  toPage'[j].n <= toPage'[i].n
        OBVIOUS
      <4>1. CASE i = k
        BY <3>3, <3>6, <4>1
      <4>2. CASE i # k
        <5>1. i \in 1..Len(toPage) /\ j \in 1..Len(toPage)
          BY <3>3, <4>2
        <5> QED
          BY <3>3, <3>5, <5>1
      <4> QED
        BY <4>1, <4>2
    <3>8. (pc \in Running /\ ref.status = "streaming" /\ friend /\ online) =>
             \A i \in 1..k : ref.lastAck <= toPage'[i].n
      <4> SUFFICES ASSUME pc \in Running, ref.status = "streaming", friend, online,
                          NEW i \in 1..k
                   PROVE  ref.lastAck <= toPage'[i].n
        OBVIOUS
      <4>1. CASE i = k
        <5>1. ref.lastAck <= peer.lastAcked
          BY DEF CursorInv
        <5> QED
          BY <1>t, <2>4, <3>3, <4>1, <5>1
      <4>2. CASE i # k
        <5>1. i \in 1..Len(toPage)
          BY <3>3, <4>2
        <5> QED
          BY <3>3, <5>1 DEF AckInv
      <4> QED
        BY <4>1, <4>2
    <3> QED
      BY <2>1, <2>2, <2>4, <3>1, <3>3, <3>6, <3>7, <3>8 DEF AckInv
  <2> QED
    BY <2>1, <2>3, <2>4
<1>8. CASE PeerStops
  <2>1. UNCHANGED <<ref, pc, friend, online, toPage, window>>
        /\ peer'.lastAcked = peer.lastAcked /\ peer'.received = peer.received
        /\ (peer.left => peer'.left)
    BY <1>8, TransferFacts DEF PeerStops, Peers
  <2> QED
    BY <2>1 DEF AckInv
<1>9. CASE Lost
  <2>1. UNCHANGED <<pc, friend, peer, window>> /\ ~ online' /\ toPage' = <<>>
    BY <1>9 DEF Lost
  <2> QED
    BY <2>1 DEF AckInv
<1>10. CASE UNCHANGED vars
  BY <1>10 DEF vars, AckInv
<1>11. CASE BufferStuck
  <2>1. /\ UNCHANGED <<ref, friend, online, window, toPage, peer>> /\ ~ online
        /\ pc \in Begun /\ pc' \in Begun
    BY <1>11 DEF BufferStuck, Begun, Running
  <2> QED
    BY <2>1 DEF AckInv
<1> QED
  BY <1>1, <1>2, <1>3, <1>4, <1>5, <1>6, <1>7, <1>8, <1>9, <1>10, <1>11, Steps

\* Whoever leaves "buffer" is the loop.
LEMMA BufferLeaves ==
    ASSUME pc = "buffer", Loop \/ Stall
    PROVE  pc' \in {"seal", "over"}
  BY DEF Loop, Seal, HandleFrame, WaitForWindow, SendChunk, SendLast, Stall, Fail

LEMMA WiredIsNat ==
    ASSUME ListInv, EndInv
    PROVE  /\ Wired \in Nat
           /\ pc \notin Begun => Wired = peer.received
           /\ toPeer = <<>> => Wired = peer.received
<1>1. peer.received \in Nat
  BY TransferFacts
<1>2. CASE pc \notin Begun
  <2>1. \A i \in DOMAIN toPeer : toPeer[i].kind # "chunk"
    BY <1>2, OfferIsNoEnd
  <2> QED
    BY <1>1, <1>2, <2>1, LastOfNone, WiredIs
<1>3. CASE pc \in Begun
  <2>1. toPeer \in Seq(Sent) /\ EndIsLast(toPeer)
    BY <1>3 DEF ListInv, EndInv
  <2>2. toPeer = <<>> => Wired = peer.received
    BY <2>1, LastFacts, WiredIs
  <2>3. CASE toPeer # <<>>
    <3>1. /\ Len(toPeer) \in 1..Len(toPeer)
          /\ Len(toPeer) # 1 => Len(toPeer) - 1 \in 1..Len(toPeer)
      <4>1. Len(toPeer) \in Nat \ {0}
        BY <2>1, <2>3, EmptySeq
      <4>2. \A k \in Nat \ {0} : k \in 1..k /\ (k # 1 => k - 1 \in 1..k)
        OBVIOUS
      <4> QED
        BY <4>1, <4>2
    <3>2. \A i \in 1..Len(toPeer) : toPeer[i].kind \in {"chunk", "end"} /\ toPeer[i].n \in Nat
      BY <2>1, SentFacts
    <3> QED
      BY <1>1, <1>3, <2>1, <2>3, <3>1, <3>2, LastFacts, WiredIs
  <2> QED
    BY <1>1, <1>3, <2>2, <2>3
<1> QED
  BY <1>2, <1>3

\* What was put on the wire is a chunk, or the same as before.
LEMMA WiredSteps ==
    ASSUME ListInv, EndInv, window \in Nat, [Next]_vars, online'
    PROVE  /\ online
           /\ \/ Wired' = Wired
              \/ pc = "buffer" /\ sealed' = sealed /\ Wired' = sealed
           /\ (pc = "buffer" /\ (Loop \/ Stall) /\ pc' # "over") =>
                 pc' = "seal" /\ Wired' = sealed /\ ref'.sentBytes = sealed
<1> USE DEF sendVars, netVars
<1>1. CASE Seal \/ HandleFrame \/ WaitForWindow \/ Stall
  <2>1. UNCHANGED <<toPeer, peer, online>> /\ pc # "buffer"
    BY <1>1 DEF Seal, HandleFrame, WaitForWindow, Stall
  <2> QED
    BY <2>1, WiredIs
<1>2. CASE SendChunk \/ SendLast
  <2>1. pc = "buffer" /\ UNCHANGED <<sealed, online, peer>>
    BY <1>2 DEF SendChunk, SendLast
  <2>2. /\ toPeer \in Seq(Sent) /\ EndIsLast(toPeer) /\ sealed \in Nat
        /\ \A i \in 1..Len(toPeer) : toPeer[i].kind # "end"
    <3>1. toPeer \in Seq(Sent) /\ EndIsLast(toPeer) /\ sealed \in Nat
      BY <2>1, TransferFacts DEF ListInv, EndInv, Begun, Running
    <3>2. \A i \in DOMAIN toPeer : toPeer[i].kind # "end"
      BY <2>1 DEF EndInv
    <3> QED
      BY <3>1, <3>2
  <2>3. toPeer \o <<>> = toPeer
    BY <2>2, ConcatEmptySeq
  <2>4. /\ \/ toPeer' = toPeer
           \/ toPeer' = toPeer \o <<Frame("chunk", sealed)>>
           \/ toPeer' = toPeer \o <<Frame("chunk", sealed), Frame("end", 0)>>
        /\ pc' # "over" => /\ toPeer' = toPeer \o <<Frame("chunk", sealed)>> /\ pc' = "seal"
                           /\ ref' = [ref EXCEPT !.sentBytes = sealed]
    BY <1>2, <2>1, <2>3 DEF SendChunk, SendLast, Put, Fail
  <2>5. /\ Last(toPeer \o <<Frame("chunk", sealed)>>, peer'.received) = sealed
        /\ Last(toPeer \o <<Frame("chunk", sealed), Frame("end", 0)>>, peer'.received) = sealed
    BY <2>2, PutChunk, PutEnd
  <2>6. Wired' \in {Wired, sealed} /\ (pc' # "over" => Wired' = sealed)
    BY <2>1, <2>4, <2>5, WiredIs
  <2>7. pc' # "over" => ref'.sentBytes = sealed
    BY <2>4, TransferFacts DEF Transfers
  <2> QED
    BY <2>1, <2>4, <2>6, <2>7
<1>3. CASE TransferAccept \/ TransferAck \/ Aside
  <2>1. UNCHANGED <<toPeer, peer, online>>
    BY <1>3 DEF TransferAccept, TransferAck, Aside, FromPeer, TransferReject, PeerLeft,
       Dismiss, Render, Effect
  <2>2. pc = "buffer" => pc' = "buffer"
    <3>1. TransferAccept => pc = "offered"
      BY AcceptSteps
    <3> QED
      BY <1>3, <3>1 DEF TransferAck, Aside, TransferReject, PeerLeft, Dismiss, Render, Effect
  <2> QED
    BY <2>1, <2>2, WiredIs, BufferLeaves
<1>4. CASE SendFile \/ Decide
  <2>1. UNCHANGED <<peer, online>> /\ pc \in {"idle", "offered"} /\ pc' = "offered"
    BY <1>4, DecideSteps DEF SendFile
  <2>2. ListInv' /\ EndInv'
    BY <1>4, NextList, NextEnd DEF Next
  <2>3. pc \notin Begun /\ pc' \notin Begun
    BY <2>1 DEF Begun, Running
  <2>4. Wired = peer.received
    BY <2>3, WiredIsNat
  <2>5. \A i \in DOMAIN toPeer' : toPeer'[i].kind # "chunk"
    BY <2>1, <2>2, OfferIsNoEnd DEF ListInv
  <2>6. Wired' = peer'.received
    BY <2>5, LastOfNone, WiredIs
  <2> QED
    BY <2>1, <2>4, <2>6
<1>5. CASE Receive
  <2>1. /\ pc \in Begun /\ toPeer # <<>> /\ toPeer' = Tail(toPeer) /\ UNCHANGED <<pc, online>>
        /\ peer'.received = IF Head(toPeer).kind = "chunk" THEN Head(toPeer).n ELSE peer.received
    BY <1>5, ReceiveFacts
  <2>2. toPeer \in Seq(Sent) /\ EndIsLast(toPeer)
    BY <2>1 DEF ListInv, EndInv
  <2> QED
    BY <1>5, <2>1, <2>2, Taken, WiredIs, BufferLeaves
<1>6. CASE PeerStops \/ UNCHANGED vars
  <2>1. UNCHANGED <<toPeer, pc, online>> /\ peer'.received = peer.received
    BY <1>6, TransferFacts DEF PeerStops, vars, Peers
  <2> QED
    BY <1>6, <2>1, WiredIs, BufferLeaves
<1>7. CASE Lost \/ BufferStuck
  BY <1>7 DEF Lost, BufferStuck
<1> QED
  BY <1>1, <1>2, <1>3, <1>4, <1>5, <1>6, <1>7, Steps DEF Loop

LEMMA NextFlow ==
    ASSUME ListInv, EndInv, CopiesInv, CursorInv, AckInv, FlowInv, [Next]_vars
    PROVE  FlowInv'
<1> USE DEF sendVars, netVars
<1>r. /\ "over" \notin Running /\ "stuck" \notin Running /\ Begun = Running \cup {"stuck", "over"}
      /\ Running = {"seal", "frame", "window", "buffer"}
      /\ "offered" \notin Begun /\ "idle" \notin Begun
  BY DEF Running, Begun
<1>t. /\ sealed \in Nat /\ sealed <= total /\ total \in Nat /\ Wired \in Nat
      /\ peer.lastAcked \in Nat
      /\ ref.sentBytes \in Nat /\ ref.lastAck \in Nat
      /\ window \in Nat /\ ChunkSize \in Nat
  BY TransferFacts, WiredIsNat, ChunkSizeIs DEF FlowInv
<1>w. window' = window
  BY DEF Next, Loop, Seal, HandleFrame, WaitForWindow, SendChunk, SendLast, Stall, BufferStuck, OnEnvelope,
     TransferAccept, TransferReject, TransferAck, PeerLeft, SendFile, Dismiss, Render, Effect,
     Decide, Receive, PeerStops, Lost, vars
<1>p. peer'.lastAcked \in Nat /\ peer.lastAcked <= peer'.lastAcked
  <2>1. Receive => peer'.lastAcked \in Nat /\ peer.lastAcked <= peer'.lastAcked
    BY <1>t, ReceiveFacts
  <2>2. PeerStops => peer'.lastAcked = peer.lastAcked
    BY TransferFacts DEF PeerStops, Peers
  <2>3. Loop \/ Stall => peer' = peer
    BY LoopSteps DEF Looped
  <2>4. Aside => peer' = peer
    BY AsideSteps
  <2>5. TransferAccept \/ TransferAck \/ Decide => peer' = peer
    BY AcceptSteps, AckSteps, DecideSteps
  <2>6. SendFile \/ BufferStuck \/ Lost \/ UNCHANGED vars => peer' = peer
    BY DEF SendFile, BufferStuck, Lost, vars
  <2> QED
    BY <1>t, <2>1, <2>2, <2>3, <2>4, <2>5, <2>6, Steps
<1>1. WindowRespected'
  <2> SUFFICES ASSUME window > 0, online' PROVE Wired' - peer'.lastAcked < window
    BY <1>w DEF WindowRespected
  <2>1. online /\ (Wired' = Wired \/ (pc = "buffer" /\ Wired' = sealed))
    BY <1>t, WiredSteps
  <2>2. CASE Wired' = Wired
    <3>1. Wired - peer.lastAcked < window
      BY <2>1 DEF FlowInv, WindowRespected
    <3> QED
      BY <1>t, <1>p, <2>2, <3>1
  <2>3. CASE pc = "buffer" /\ Wired' = sealed
    <3>1. sealed - peer.lastAcked < window
      BY <1>r, <2>1, <2>3 DEF FlowInv
    <3> QED
      BY <1>t, <1>p, <2>3, <3>1
  <2> QED
    BY <2>1, <2>2, <2>3
<1>2. ASSUME online', pc' \in Running
      PROVE  /\ ref'.status = "streaming" => ref'.sentBytes = Wired'
             /\ pc' = "seal" => sealed' = Wired'
             /\ sealed' - Wired' \in 0..ChunkSize
             /\ pc' \in {"window", "buffer"} => need' = sealed' - Wired'
             /\ (pc' = "buffer" /\ window > 0) => sealed' - peer'.lastAcked < window
  <2>0. online
    BY <1>t, <1>2, WiredSteps
  <2>f. pc \in Running =>
          /\ ref.status = "streaming" => ref.sentBytes = Wired
          /\ pc = "seal" => sealed = Wired
          /\ sealed - Wired \in 0..ChunkSize
          /\ pc \in {"window", "buffer"} => need = sealed - Wired
          /\ (pc = "buffer" /\ window > 0) => sealed - peer.lastAcked < window
    BY <2>0 DEF FlowInv
  <2>s. ASSUME pc' = pc, sealed' = sealed, need' = need, Wired' = Wired,
               ref'.status = "streaming" =>
                  ref.status = "streaming" /\ ref'.sentBytes = ref.sentBytes
        PROVE  /\ ref'.status = "streaming" => ref'.sentBytes = Wired'
               /\ pc' = "seal" => sealed' = Wired'
               /\ sealed' - Wired' \in 0..ChunkSize
               /\ pc' \in {"window", "buffer"} => need' = sealed' - Wired'
               /\ (pc' = "buffer" /\ window > 0) => sealed' - peer'.lastAcked < window
    BY <1>2, <1>t, <1>p, <2>f, <2>s
  <2>1. CASE Seal
    <3>1. UNCHANGED <<toPeer, peer, ref>> /\ pc = "seal" /\ pc' \in {"frame", "window"}
      BY <2>1 DEF Seal
    <3>2. Wired' = Wired /\ sealed = Wired
      BY <1>r, <2>f, <3>1, WiredIs
    <3> DEFINE n == Least(ChunkSize, total - sealed)
    <3>3. n \in 0..ChunkSize
      BY <1>t DEF Least
    <3>4. sealed' = sealed + n /\ (pc' = "window" => need' = sealed' - sealed)
      BY <2>1 DEF Seal
    <3> HIDE DEF n
    <3> QED
      BY <1>r, <1>t, <2>f, <3>1, <3>2, <3>3, <3>4
  <2>2. CASE HandleFrame
    <3>1. UNCHANGED <<toPeer, peer, ref, sealed>> /\ pc = "frame"
      BY <2>2 DEF HandleFrame
    <3>2. pc' = "window" /\ need' = sealed - ref.sentBytes /\ ref.status = "streaming"
      BY <1>2, <1>r, <2>2 DEF HandleFrame, Fail
    <3>3. Wired' = Wired
      BY <3>1, WiredIs
    <3> QED
      BY <1>r, <1>t, <2>f, <3>1, <3>2, <3>3
  <2>3. CASE WaitForWindow
    <3>1. UNCHANGED <<toPeer, peer, ref, sealed, need>> /\ pc = "window"
      BY <2>3 DEF WaitForWindow
    <3>2. /\ pc' = "buffer" /\ ~ NoRoom
          /\ window > 0 => ref.status = "streaming"
      BY <1>2, <1>r, <1>t, <2>3 DEF WaitForWindow, Fail
    <3>3. Wired' = Wired
      BY <3>1, WiredIs
    <3>4. window > 0 => sealed - peer.lastAcked < window
      <4> SUFFICES ASSUME window > 0 PROVE sealed - peer.lastAcked < window
        OBVIOUS
      <4>1. ref.sentBytes = Wired /\ need = sealed - Wired /\ ref.lastAck <= peer.lastAcked
        BY <1>r, <2>f, <3>1, <3>2 DEF CursorInv
      <4>2. ref.sentBytes + need = sealed
        BY <1>t, <4>1
      <4>3. InFlight(sealed, ref.lastAck) < window
        BY <1>t, <3>2, <4>2 DEF NoRoom, WindowFull, InFlight
      <4> QED
        BY <1>t, <4>1, <4>3 DEF InFlight
    <3> QED
      BY <1>r, <1>t, <2>f, <3>1, <3>2, <3>3, <3>4
  <2>4. CASE SendChunk \/ SendLast
    <3>1. pc = "buffer" /\ UNCHANGED <<peer, sealed>>
      BY <2>4 DEF SendChunk, SendLast
    <3>2. pc' = "seal" /\ Wired' = sealed /\ ref'.sentBytes = sealed
      BY <1>2, <1>r, <1>t, <2>4, <3>1, WiredSteps DEF Loop
    <3> QED
      BY <1>t, <3>1, <3>2
  <2>5. CASE Stall
    BY <1>2, <1>r, <2>5 DEF Stall, Fail
  <2>6. CASE TransferAccept
    <3>1. /\ pc = "offered" /\ pc' = "seal" /\ UNCHANGED <<toPeer, peer, sealed>>
          /\ ref'.sentBytes = ref.sentBytes
      BY <1>2, <1>r, <2>6, AcceptSteps
    <3>2. sealed = 0 /\ ref.sentBytes = 0 /\ peer.received = 0
      BY <1>r, <1>t, <3>1 DEF CursorInv, EndInv
    <3>3. Wired = 0 /\ Wired' = Wired
      BY <1>r, <3>1, <3>2, WiredIsNat, WiredIs
    <3> QED
      BY <1>t, <3>1, <3>2, <3>3
  <2>7. CASE TransferAck
    <3>1. UNCHANGED <<toPeer, peer, sealed, need, pc>>
          /\ ref'.sentBytes = ref.sentBytes /\ ref'.status = ref.status
      BY <2>7, AckSteps
    <3>2. Wired' = Wired
      BY <3>1, WiredIs
    <3> QED
      BY <2>s, <3>1, <3>2
  <2>8. CASE Aside
    <3>1. /\ UNCHANGED <<toPeer, peer, sealed, need, pc>>
          /\ (pc \in Running /\ ref'.status = "streaming") =>
                ref.status = "streaming" /\ ref'.sentBytes = ref.sentBytes
      BY <2>8, AsideSteps
    <3>2. Wired' = Wired
      BY <3>1, WiredIs
    <3> QED
      BY <1>2, <2>s, <3>1, <3>2
  <2>9. CASE SendFile \/ Decide
    <3>1. pc' = "offered"
      BY <2>9, DecideSteps DEF SendFile
    <3> QED
      BY <1>2, <1>r, <3>1
  <2>10. CASE Receive \/ PeerStops \/ UNCHANGED vars
    <3>1. UNCHANGED <<sealed, need, pc, ref>>
      BY <2>10 DEF Receive, PeerStops, vars
    <3>2. Wired' = Wired
      <4>2. CASE Receive
        <5>1. /\ pc \in Begun /\ toPeer # <<>> /\ toPeer' = Tail(toPeer)
              /\ peer'.received = IF Head(toPeer).kind = "chunk" THEN Head(toPeer).n
                                  ELSE peer.received
          BY <1>t, <4>2, ReceiveFacts
        <5>2. toPeer \in Seq(Sent) /\ EndIsLast(toPeer)
          BY <5>1 DEF ListInv, EndInv
        <5> QED
          BY <5>1, <5>2, Taken, WiredIs
      <4>3. CASE PeerStops \/ UNCHANGED vars
        <5>1. UNCHANGED toPeer /\ peer'.received = peer.received
          BY <4>3, TransferFacts DEF PeerStops, vars, Peers
        <5> QED
          BY <5>1, WiredIs
      <4> QED
        BY <2>10, <4>2, <4>3
    <3> QED
      BY <2>s, <3>1, <3>2
  <2>11. CASE Lost \/ BufferStuck
    BY <1>2, <1>r, <2>11 DEF Lost, BufferStuck
  <2> QED
    BY <2>1, <2>2, <2>3, <2>4, <2>5, <2>6, <2>7, <2>8, <2>9, <2>10, <2>11, Steps DEF Loop
<1> QED
  BY <1>1, <1>2, <1>w DEF FlowInv

\* What a receiver has not acknowledged leaves room for a chunk: less than a
\* quarter of a window that holds two.
LEMMA Room ==
    ASSUME window \in Nat, window >= 2 * ChunkSize,
           NEW received \in Nat, NEW lastAck \in Nat, NEW n \in 0..ChunkSize,
           ~ ShouldAck(received, lastAck, window)
    PROVE  ~ WindowFull(received + n, lastAck, window)
<1>1. ChunkSize \in Nat /\ ChunkSize >= 2
  BY LimitsAssumption DEF ChunkSize, NegotiateChunkSize, FloorChunkSize, Least, Advertised
<1>2. /\ AckThreshold(window) \in Nat \ {0}
      /\ 4 * AckThreshold(window) <= window
  BY <1>1 DEF AckThreshold
<1>3. received - lastAck < AckThreshold(window)
  BY <1>2 DEF ShouldAck
<1>4. received + n - lastAck < window
  BY <1>1, <1>2, <1>3
<1> QED
  BY <1>1, <1>4 DEF WindowFull, InFlight

LEMMA StarvedFacts ==
    ASSUME ListInv, EndInv, CursorInv, AckInv, FlowInv
    PROVE  NeverStarved
<1> SUFFICES ASSUME pc = "window", ref.status = "streaming", window > 0, NoRoom, Quiet,
                    ~ peer.silent, ~ peer.left, online
             PROVE  FALSE
  BY DEF NeverStarved
<1>r. pc \in Running /\ pc \in Begun
  BY DEF Running, Begun
<1>t. /\ sealed \in Nat /\ Wired \in Nat /\ peer.received \in Nat /\ peer.lastAcked \in Nat
      /\ ref.sentBytes \in Nat /\ ref.lastAck \in Nat /\ ChunkSize \in Nat
      /\ window \in Nat /\ window >= 2 * ChunkSize
  BY TransferFacts, WiredIsNat, ChunkSizeIs DEF FlowInv
<1>1. Wired = peer.received
  BY WiredIsNat DEF Quiet
<1>2. toPage = <<>>
  <2> SUFFICES ASSUME toPage # <<>> PROVE FALSE
    OBVIOUS
  <2>1. toPage \in Seq(Acks)
    BY <1>r DEF ListInv
  <2>2. 1 \in DOMAIN toPage /\ toPage[1] \in Acks
    BY <2>1, TailFacts
  <2> QED
    BY <2>2 DEF Quiet, Acks
<1>3. ref.lastAck = peer.lastAcked
  BY <1>r, <1>2 DEF AckInv
<1>4. /\ ref.sentBytes = Wired /\ sealed - Wired \in 0..ChunkSize
      /\ need = sealed - Wired
  BY <1>r DEF FlowInv
<1>5. ~ ShouldAck(peer.received, peer.lastAcked, window)
  BY DEF AckInv
<1>6. ~ WindowFull(peer.received + need, peer.lastAcked, window)
  BY <1>t, <1>4, <1>5, Room
<1> QED
  BY <1>1, <1>3, <1>4, <1>6 DEF NoRoom

\* Fail follows only a peer that left or stopped reading, or a transfer that
\* is aborted already.
LEMMA NextAbort ==
    ASSUME ListInv, CopiesInv, CursorInv, AckInv, NeverStarved, AbortHasCause, [Next]_vars
    PROVE  AbortHasCause'
<1> USE DEF sendVars, netVars
<1> DEFINE Cause == peer.silent \/ peer.left \/ ~ online
<1>t. state \in Transfers /\ ref.lastAck \in Nat /\ sealed \in Nat /\ peer \in Peers
  BY TransferFacts
<1>r. Running = {"seal", "frame", "window", "buffer"}
  BY DEF Running
<1>c. Cause => Cause'
  <2>1. PeerStops => (peer.silent => peer'.silent) /\ (peer.left => peer'.left)
    BY <1>t DEF PeerStops, Peers
  <2>2. Receive => peer'.silent = peer.silent /\ peer'.left = peer.left
    BY <1>t DEF Receive, Peers
  <2>3. ~ PeerStops /\ ~ Receive => peer' = peer
    <3>1. Loop \/ Stall => peer' = peer
      BY LoopSteps DEF Looped
    <3>2. TransferAccept \/ TransferAck \/ Decide => peer' = peer
      BY AcceptSteps, AckSteps, DecideSteps
    <3>3. Aside => peer' = peer
      BY AsideSteps
    <3>4. SendFile \/ BufferStuck \/ Lost \/ UNCHANGED vars => peer' = peer
      BY DEF SendFile, BufferStuck, Lost, vars
    <3> QED
      BY <3>1, <3>2, <3>3, <3>4, Steps
  <2>4. online' => online
    <3>1. Loop \/ Stall => online' = online
      BY LoopSteps DEF Looped
    <3>2. TransferAccept \/ TransferAck \/ Decide => online' = online
      BY AcceptSteps, AckSteps, DecideSteps
    <3>3. Aside => online' = online
      BY AsideSteps
    <3>4. SendFile \/ BufferStuck \/ Lost \/ PeerStops \/ Receive \/ UNCHANGED vars
             => (online' => online)
      BY DEF SendFile, BufferStuck, Lost, PeerStops, Receive, vars
    <3> QED
      BY <3>1, <3>2, <3>3, <3>4, Steps
  <2> QED
    BY <2>1, <2>2, <2>3, <2>4
<1> SUFFICES ASSUME state'.status = "aborted" PROVE Cause'
  BY DEF AbortHasCause
<1>0. CASE state.status = "aborted"
  BY <1>0, <1>c DEF AbortHasCause
<1>f. CASE Fail /\ (friend => Cause)
  <2>1. peer.left \/ friend
    BY DEF AckInv
  <2> QED
    BY <1>f, <1>c, <2>1
<1>1. CASE Seal
  BY <1>0, <1>1 DEF Seal
<1>2. CASE HandleFrame \/ WaitForWindow
  <2>1. CASE state' = state
    BY <1>0, <2>1
  <2>2. CASE state' # state
    <3>1. Fail /\ ref.status # "streaming" /\ pc \in Running
      BY <1>2, <1>r, <2>2 DEF HandleFrame, WaitForWindow
    <3>2. state.status \in {"aborted", "none"}
      BY <3>1 DEF CopiesInv
    <3> QED
      BY <1>0, <1>t, <3>1, <3>2, FailFacts
  <2> QED
    BY <2>1, <2>2
<1>3. CASE Stall
  <2>1. Fail /\ Cause
    BY <1>3 DEF Stall, NeverStarved
  <2> QED
    BY <1>c, <2>1
<1>4. CASE SendChunk \/ SendLast
  <2>1. (Fail /\ ~ friend)
        \/ \E u \in Progress(state, sealed, ref.lastAck) :
              state'.status = u.status \/ state'.status = "done"
    <3>1. CASE SendChunk
      BY <3>1 DEF SendChunk
    <3>2. CASE SendLast
      <4>1. PICK u \in Progress(state, sealed, ref.lastAck) :
              IF friend
              THEN /\ ref' = [ref EXCEPT !.sentBytes = sealed,
                                         !.status = IF worker THEN "done" ELSE @]
                   /\ state' = IF u.status # "streaming" THEN u
                               ELSE IF worker THEN ref' ELSE Status(u, "done")
              ELSE Fail
        BY <3>2 DEF SendLast
      <4>2. u \in Transfers
        BY <1>t, <4>1, ProgressFacts
      <4>3. Status(u, "done").status = "done"
        BY <4>2, EntryFacts DEF Statuses
      <4>4. friend /\ worker => ref'.status = "done"
        BY <4>1, TransferFacts DEF Transfers
      <4> QED
        BY <4>1, <4>3, <4>4
    <3> QED
      BY <1>4, <3>1, <3>2
  <2>2. \A u \in Progress(state, sealed, ref.lastAck) : u.status = state.status
    BY <1>t, ProgressFacts
  <2> QED
    BY <1>0, <1>f, <2>1, <2>2
<1>5. CASE TransferAccept \/ TransferAck
  <2>1. state'.status \in {state.status, "streaming"}
    BY <1>5, AcceptSteps, AckSteps
  <2> QED
    BY <1>0, <2>1
<1>6. CASE Aside
  <2>1. state.status = "aborted" \/ peer.left
    BY <1>6, AsideSteps
  <2> QED
    BY <1>0, <1>c, <2>1
<1>7. CASE SendFile
  <2>1. state'.status = "awaiting-decision"
    BY <1>7, EntryFacts DEF SendFile, Click, Statuses
  <2> QED
    BY <2>1
<1>8. CASE BufferStuck \/ Decide \/ Receive \/ PeerStops \/ Lost \/ UNCHANGED vars
  BY <1>0, <1>8 DEF BufferStuck, Decide, Receive, PeerStops, Lost, vars
<1> QED
  BY <1>1, <1>2, <1>3, <1>4, <1>5, <1>6, <1>7, <1>8, Steps DEF Loop

\* All of it, as it is inductive.
RefInv == CopiesInv /\ CursorInv /\ AckInv /\ FlowInv /\ AbortHasCause

LEMMA InitRef == Init => RefInv
<1> SUFFICES ASSUME Init PROVE RefInv
  OBVIOUS
<1>1. /\ state = None /\ shown = None /\ ref = None /\ pc = "idle" /\ friend
      /\ peer.received = 0 /\ peer.lastAcked = 0 /\ sealed = 0 /\ ~ effectDue /\ online
      /\ toPeer = <<>>
  BY DEF Init
<1>2. \E w \in Nat : window = EffectiveWindow(w, ChunkSize)
  BY PortalSendAssumption DEF Init
<1>3. window \in Nat /\ (window > 0 => window >= 2 * ChunkSize)
  BY <1>2, ChunkSizeIs DEF EffectiveWindow
<1>4. ~ ShouldAck(0, 0, window)
  BY <1>3 DEF ShouldAck, AckThreshold
<1>5. Wired = 0
  BY <1>1, LastOfNone, WiredIs
<1>6. pc \notin Begun /\ pc \notin Running
  BY <1>1 DEF Begun, Running
<1>7. None.status = "none" /\ None.sentBytes = 0 /\ None.lastAck = 0
  BY EntryFacts
<1>8. CopiesInv /\ CursorInv /\ AbortHasCause
  BY <1>1, <1>6, <1>7 DEF CopiesInv, CursorInv, AbortHasCause
<1>9. AckInv
  BY <1>1, <1>4, <1>6 DEF AckInv
<1>10. FlowInv
  BY <1>1, <1>3, <1>5, <1>6 DEF FlowInv, WindowRespected
<1> QED
  BY <1>8, <1>9, <1>10 DEF RefInv

LEMMA NextRef ==
    ASSUME ~ OtherTransfers, ListInv, EndInv, RefInv, [Next]_vars
    PROVE  RefInv'
<1>1. window \in Nat /\ NeverStarved
  BY StarvedFacts DEF RefInv, FlowInv
<1> QED
  BY <1>1, NextCopies, NextCursor, NextAck, NextFlow, NextAbort DEF RefInv

LEMMA Refs == ~ OtherTransfers => (Spec => [](ListInv /\ EndInv /\ RefInv))
<1> SUFFICES ASSUME ~ OtherTransfers PROVE Spec => [](ListInv /\ EndInv /\ RefInv)
  OBVIOUS
<1>1. ListInv /\ EndInv /\ RefInv /\ [Next]_vars => ListInv' /\ EndInv' /\ RefInv'
  BY NextList, NextEnd, NextRef
<1> QED
  BY <1>1, InitList, InitEnd, InitRef, PTL DEF Spec

\* As long as no other transfer makes the page render, what is on the wire
\* and not acknowledged stays below the window that was agreed on
\* (waitForWindow), although every ack goes to a ref that effects overwrite
\* with what was rendered before.
THEOREM WindowKept == ~ OtherTransfers => (Spec => []WindowRespected)
<1> SUFFICES ASSUME ~ OtherTransfers PROVE Spec => []WindowRespected
  OBVIOUS
<1>1. RefInv => WindowRespected
  BY DEF RefInv, FlowInv
<1> QED
  BY <1>1, Refs, PTL

\* Under the same condition a sender that waits for room has an ack or a
\* frame on its way, unless its peer stopped reading: no effect loses an ack
\* (Merged), and the window holds the next chunk whenever no ack is owed.
THEOREM NotStarved == ~ OtherTransfers => (Spec => []NeverStarved)
<1> SUFFICES ASSUME ~ OtherTransfers PROVE Spec => []NeverStarved
  OBVIOUS
<1>1. ListInv /\ EndInv /\ RefInv => NeverStarved
  BY StarvedFacts DEF RefInv
<1> QED
  BY <1>1, Refs, PTL

\* Under the same condition nothing but a peer that left or fell silent, or a
\* lost connection, aborts a transfer: the status that the sending loop reads
\* in the ref is never one from before the accept.
THEOREM AbortsHaveCause == ~ OtherTransfers => (Spec => []AbortHasCause)
<1> SUFFICES ASSUME ~ OtherTransfers PROVE Spec => []AbortHasCause
  OBVIOUS
<1>1. RefInv => AbortHasCause
  BY DEF RefInv
<1> QED
  BY <1>1, Refs, PTL
=============================================================================
