---------------------------- MODULE TransferProofs ----------------------------
(***************************************************************************)
(* What holds of a transfer between two Go clients for files, chunks and   *)
(* windows of any size, whatever is lost and whoever leaves: the counters  *)
(* of the flow control never cross, the window is kept to, no chunk is     *)
(* taken for one out of range, and the receiver tells one verdict; and     *)
(* what the negotiated limits promise for every advertisement.             *)
(***************************************************************************)
EXTENDS Transfer, SequenceTheorems, FiniteSetTheorems, TLAPS

-----------------------------------------------------------------------------
(* The limits. *)

\* Whatever the three parties advertise, the chunk size is a size, of at
\* least the floor, and neither the relay's nor the receiver's maximum is
\* exceeded when it is at least the floor itself (NegotiateChunkSize).
THEOREM ChunkSizeBounds ==
    ASSUME NEW preference \in Int, NEW relayMax \in Int, NEW acceptMax \in Int
    PROVE  LET chunk == NegotiateChunkSize(preference, relayMax, acceptMax)
           IN  /\ chunk \in Nat
               /\ chunk >= ChunkDataSize
               /\ relayMax >= ChunkDataSize => chunk <= relayMax
               /\ acceptMax >= ChunkDataSize => chunk <= acceptMax
BY LimitsAssumption DEF NegotiateChunkSize, FloorChunkSize, Least, Advertised

\* A window is a window of at least two chunks, and at least four bytes, so
\* that it has a quarter (EffectiveWindow, AckThreshold).
LEMMA WindowBounds ==
    ASSUME NEW windowAd \in Int, NEW chunk \in Nat, chunk >= ChunkDataSize,
           EffectiveWindow(windowAd, chunk) > 0
    PROVE  LET W == EffectiveWindow(windowAd, chunk)
           IN  /\ W \in Nat
               /\ W >= 2 * chunk
               /\ AckThreshold(W) \in Nat \ {0}
               /\ 4 * AckThreshold(W) <= W
BY LimitsAssumption DEF EffectiveWindow, AckThreshold

\* The flow control cannot deadlock: when the receiver has taken everything
\* that was sent, owes no ack, and the sender has its last one, the next
\* chunk fits under the window, whatever its length (waitForWindow against
\* ShouldAck; the 2 * chunk floor of EffectiveWindow is what makes it true).
THEOREM WindowOpens ==
    ASSUME NEW windowAd \in Int, NEW chunk \in Nat, chunk >= ChunkDataSize,
           NEW got \in Nat, NEW acked \in Nat, acked <= got,
           ~ ShouldAck(got, acked, EffectiveWindow(windowAd, chunk)),
           NEW n \in Nat, n <= chunk
    PROVE  ~ WindowFull(got + n, acked, EffectiveWindow(windowAd, chunk))
<1> DEFINE W == EffectiveWindow(windowAd, chunk)
<1>1. W \in Int
  BY DEF EffectiveWindow
<1>2. CASE W <= 0
  BY <1>1, <1>2 DEF WindowFull
<1>3. CASE W > 0
  <2>1. /\ W >= 2 * chunk
        /\ AckThreshold(W) \in Nat \ {0}
        /\ 4 * AckThreshold(W) <= W
    BY <1>3, WindowBounds
  <2>2. got - acked < AckThreshold(W)
    BY <2>1 DEF ShouldAck
  <2>3. got + n - acked < W
    <3> HIDE DEF W
    <3> QED
      BY <1>1, <2>1, <2>2
  <2> QED
    BY <1>1, <2>3 DEF WindowFull, InFlight
<1> QED
  BY <1>1, <1>2, <1>3

-----------------------------------------------------------------------------
(* Queues of messages. *)

Kinds == {"accept", "ack", "reject", "chunk", "end"}

Messages == [kind : Kinds, seq : Nat, n : Nat, last : BOOLEAN]

LEMMA AppendFacts ==
    ASSUME NEW q \in Seq(Messages), NEW m \in Messages
    PROVE  /\ Append(q, m) \in Seq(Messages)
           /\ Len(q) \in Nat /\ Len(Append(q, m)) = Len(q) + 1
           /\ Append(q, m)[Len(q) + 1] = m
           /\ \A i \in 1..Len(q) : Append(q, m)[i] = q[i]
  BY AppendProperties

LEMMA TailFacts ==
    ASSUME NEW q \in Seq(Messages), q # <<>>
    PROVE  /\ Tail(q) \in Seq(Messages)
           /\ Len(q) \in Nat \ {0} /\ Len(Tail(q)) = Len(q) - 1
           /\ \A i \in 1..(Len(q) - 1) : Tail(q)[i] = q[i + 1]
           /\ Head(q) = q[1] /\ Head(q) \in Messages
  BY HeadTailProperties, EmptySeq

-----------------------------------------------------------------------------
(* Lengths and offsets in the file. *)

TermsOK ==
    /\ terms \in [size : Nat, file : Nat, chunk : Nat, window : Nat]
    /\ terms.chunk >= ChunkDataSize

LEMMA InitTerms == Init => TermsOK
<1> SUFFICES ASSUME NEW s \in Nat, NEW f \in Nat, NEW r \in Nat, NEW w \in Nat,
                    terms = Terms(s, f, r, w)
             PROVE  TermsOK
  BY TransferAssumption DEF Init
<1> DEFINE maxChunk  == IF r > 0 THEN Least(r, MaxChunkBytes) ELSE MaxChunkBytes
           acceptMax == IF w = 0 THEN 0 ELSE maxChunk
           chunk     == NegotiateChunkSize(PreferredChunkSize, r, acceptMax)
<1>1. acceptMax \in Nat
  BY TransferAssumption DEF Least
<1>2. chunk \in Nat /\ chunk >= ChunkDataSize
  <2> HIDE DEF acceptMax
  <2> QED
    BY <1>1, LimitsAssumption DEF NegotiateChunkSize, FloorChunkSize, Least, Advertised
<1>3. EffectiveWindow(w, chunk) \in Nat
  <2> HIDE DEF chunk
  <2> QED
    BY <1>2 DEF EffectiveWindow
<1>4. terms = [size |-> s, file |-> f, chunk |-> chunk, window |-> EffectiveWindow(w, chunk)]
  BY DEF Terms
<1> HIDE DEF chunk
<1> QED
  BY <1>2, <1>3, <1>4 DEF TermsOK

LEMMA TermsStay == [Next]_vars => terms' = terms
  BY DEF Next, AcceptTransfer, RejectTransfer, StreamFile, WaitForWindow, CheckAborted, SendChunk,
     SendEnd, Finish, FlowControlStall, SenderReads, ReceiverReads, ReceiveStall, PeerLeft,
     SenderFailsTransfer, ReceiverLists, ReceiverAborts, Faults, ReadFails, DiskFails,
     LoseToReceiver, LoseToSender, SenderUnfriends, ReceiverUnfriends, sender, vars

\* Chunk k is what lies between its offset and the next.
LEMMA OffsetFacts ==
    ASSUME TermsOK
    PROVE  /\ Offset(0) = 0
           /\ \A k \in Nat : /\ LengthOf(k) \in Nat
                             /\ Offset(k) \in Nat
                             /\ Offset(k + 1) = Offset(k) + LengthOf(k)
           /\ \A j, k \in Nat : j < k => Offset(j + 1) <= Offset(k)
<1> DEFINE c == chunkSize
<1>0. c \in Nat \ {0} /\ fileSize \in Nat
  BY LimitsAssumption DEF TermsOK, chunkSize, fileSize
<1> HIDE DEF c
<1>1. \A k \in Nat : k * c \in Nat /\ (k + 1) * c = k * c + c
  BY <1>0
<1>2. 0 * c = 0
  BY <1>0
<1>3. \A j, k \in Nat : j < k => (j + 1) * c <= k * c
  BY <1>0
<1>4. \A k \in Nat : Offset(k) = Least(k * c, fileSize)
  BY DEF Offset, c
<1>5. \A k \in Nat :
         LengthOf(k) = IF fileSize < k * c THEN 0 ELSE Least(c, fileSize - k * c)
  BY DEF LengthOf, c
<1>6. Offset(0) = 0
  BY <1>0, <1>2, <1>4 DEF Least
<1>7. ASSUME NEW k \in Nat
      PROVE  LengthOf(k) \in Nat /\ Offset(k) \in Nat /\ Offset(k + 1) = Offset(k) + LengthOf(k)
  <2>1. Offset(k) = Least(k * c, fileSize) /\ Offset(k + 1) = Least(k * c + c, fileSize)
    BY <1>1, <1>4
  <2>2. LengthOf(k) = IF fileSize < k * c THEN 0 ELSE Least(c, fileSize - k * c)
    BY <1>5
  <2>3. k * c \in Nat
    BY <1>1
  <2> QED
    BY <2>1, <2>2, <2>3, <1>0 DEF Least
<1>8. ASSUME NEW j \in Nat, NEW k \in Nat, j < k PROVE Offset(j + 1) <= Offset(k)
  <2>1. Offset(j + 1) = Least((j + 1) * c, fileSize) /\ Offset(k) = Least(k * c, fileSize)
    BY <1>4
  <2>2. (j + 1) * c <= k * c /\ (j + 1) * c \in Nat /\ k * c \in Nat
    BY <1>1, <1>3, <1>8
  <2> QED
    BY <2>1, <2>2, <1>0 DEF Least
<1> QED
  BY <1>6, <1>7, <1>8

-----------------------------------------------------------------------------
(* Types, as far as the rest needs them. *)

Counters == {sent, sSeq, lastAck, received, lastAcked} \subseteq Nat

Queues == toR \in Seq(Messages) /\ toS \in Seq(Messages)

\* streamFile is started by the accept, at the first chunk.
Started ==
    /\ sPc \in {"idle", "window", "check", "seal", "end", "finish", "stopped"}
    /\ sStatus = "awaiting" => sPc = "idle"
    /\ sPc = "idle" => sSeq = 0

Shape == TermsOK /\ Counters /\ Queues /\ Started

LEMMA InitShape == Init => Shape
  BY InitTerms DEF Init, Shape, Counters, Queues, Started

LEMMA MsgFacts ==
    ASSUME TermsOK
    PROVE  /\ \A k \in Kinds : Msg(k) \in Messages /\ Msg(k).kind = k
           /\ \A n \in Nat : Ack(n) \in Messages /\ Ack(n).kind = "ack" /\ Ack(n).n = n
           /\ \A k \in Nat : /\ Chunk(k) \in Messages /\ Chunk(k).kind = "chunk"
                             /\ Chunk(k).seq = k /\ Chunk(k).n = LengthOf(k)
<1>1. \A k \in Nat : LengthOf(k) \in Nat /\ IsLast(k) \in BOOLEAN
  BY OffsetFacts DEF IsLast
<1> QED
  BY <1>1 DEF Msg, Ack, Chunk, Messages, Kinds

LEMMA TakeFacts ==
    ASSUME NEW m \in Messages, TakeChunk(m), Counters
    PROVE  /\ received' = received + m.n
           /\ lastAcked' \in {lastAcked, received'}
           /\ toS' = toS \/ (toS' = Append(toS, Ack(received')) /\ lastAcked' = received')
  BY DEF TakeChunk, SendToS

LEMMA NextShape == ASSUME Shape, [Next]_vars PROVE Shape'
<1> USE DEF Shape, Counters, Queues, Started
<1>t. TermsOK'
  BY TermsStay DEF TermsOK
<1>m. /\ \A k \in Kinds : Msg(k) \in Messages
      /\ \A n \in Nat : Ack(n) \in Messages
      /\ \A k \in Nat : Chunk(k) \in Messages /\ LengthOf(k) \in Nat
  BY MsgFacts, OffsetFacts
<1>k. Kinds = {"accept", "ack", "reject", "chunk", "end"}
  BY DEF Kinds
<1>a. \A q \in Seq(Messages) : \A m \in Messages : Append(q, m) \in Seq(Messages)
  OBVIOUS
<1>b. \A q \in Seq(Messages) : q # <<>> => Tail(q) \in Seq(Messages) /\ Head(q) \in Messages
  BY TailFacts
<1>1. CASE AcceptTransfer \/ RejectTransfer
  BY <1>1, <1>t, <1>m, <1>k, <1>a DEF AcceptTransfer, RejectTransfer, SendToS, sender, assembly
<1>2. CASE WaitForWindow \/ CheckAborted
  BY <1>2, <1>t DEF WaitForWindow, CheckAborted, receiver, assembly
<1>f. Fail => sPc' = "stopped" /\ sStatus' \in {sStatus, "failed"}
  BY DEF Fail
<1>3. CASE SendChunk
  <2>1. UNCHANGED <<lastAck, received, lastAcked, toS>> /\ sPc = "seal"
    BY <1>3 DEF SendChunk, receiver, assembly
  <2>2. CASE sPeer = "friend"
    <3>1. /\ toR' = Append(toR, Chunk(sSeq)) /\ sent' = sent + LengthOf(sSeq) /\ sSeq' = sSeq + 1
          /\ sPc' \in {"end", "window"} /\ sStatus' = sStatus
      BY <1>3, <2>2 DEF SendChunk
    <3>2. sSeq \in Nat /\ sent \in Nat /\ toR \in Seq(Messages)
      OBVIOUS
    <3>3. Chunk(sSeq) \in Messages /\ LengthOf(sSeq) \in Nat
      BY <3>2, <1>m
    <3>4. toR' \in Seq(Messages)
      BY <3>1, <3>2, <3>3, <1>a
    <3>5. sent' \in Nat /\ sSeq' \in Nat
      BY <3>1, <3>2, <3>3
    <3> QED
      BY <2>1, <3>1, <3>4, <3>5, <1>t
  <2>3. CASE sPeer # "friend"
    <3>1. Fail /\ UNCHANGED <<sent, sSeq, toR>>
      BY <1>3, <2>3 DEF SendChunk
    <3> QED
      BY <2>1, <3>1, <1>f, <1>t
  <2> QED
    BY <2>2, <2>3
<1>4. CASE SendEnd
  <2>1. UNCHANGED <<lastAck, received, lastAcked, toS, sent, sSeq>> /\ sPc = "end"
    BY <1>4 DEF SendEnd, receiver, assembly
  <2>2. \/ toR' = Append(toR, Msg("end")) /\ sPc' = "finish" /\ sStatus' = sStatus
        \/ Fail /\ toR' = toR
    BY <1>4 DEF SendEnd
  <2>3. toR' \in Seq(Messages)
    BY <2>2, <1>m, <1>k, <1>a
  <2> QED
    BY <2>1, <2>2, <2>3, <1>f, <1>t
<1>5. CASE Finish
  BY <1>5, <1>t DEF Finish, receiver, assembly
<1>6. CASE FlowControlStall \/ ReadFails
  BY <1>6, <1>t DEF FlowControlStall, ReadFails, Blocked, Fail, receiver, assembly
<1>7. CASE SenderReads
  <2>1. toS' \in Seq(Messages) /\ Head(toS).n \in Nat
    BY <1>7, <1>b DEF SenderReads, Messages
  <2> QED
    BY <1>7, <2>1, <1>t DEF SenderReads, receiver, assembly
<1>8. CASE SenderUnfriends \/ SenderFailsTransfer
  BY <1>8, <1>t DEF SenderUnfriends, SenderFailsTransfer, receiver, assembly
<1>9. CASE ReceiverReads
  <2>1. toR' = Tail(toR) /\ toR' \in Seq(Messages) /\ Head(toR) \in Messages
    BY <1>9, <1>b DEF ReceiverReads
  <2>2. UNCHANGED <<sent, sSeq, lastAck, sPc, sStatus>>
    BY <1>9 DEF ReceiverReads, sender
  <2>3. /\ received' \in Nat /\ lastAcked' \in Nat /\ toS' \in Seq(Messages)
    <3>1. CASE TakeChunk(Head(toR))
      <4>1. Head(toR).n \in Nat
        BY <2>1 DEF Messages
      <4> QED
        <5>1. received' \in Nat /\ lastAcked' \in Nat
          BY <3>1, <4>1, <2>1, TakeFacts
        <5> QED
          BY <3>1, <5>1, <2>1, <1>m, <1>a, TakeFacts
    <3>2. CASE ~ TakeChunk(Head(toR))
      BY <1>9, <3>2 DEF ReceiverReads, HandleChunk, HandleTransferEnd, assembly
    <3> QED
      BY <3>1, <3>2
  <2> QED
    BY <2>1, <2>2, <2>3, <1>t
<1>10. CASE DiskFails \/ LoseToReceiver \/ LoseToSender
  BY <1>10, <1>t, <1>b DEF DiskFails, LoseToReceiver, LoseToSender, sender, receiver, assembly
<1>11. CASE ReceiveStall \/ ReceiverUnfriends \/ ReceiverLists \/ ReceiverAborts
  BY <1>11, <1>t DEF ReceiveStall, ReceiverUnfriends, ReceiverLists, ReceiverAborts, sender, assembly
<1>12. CASE UNCHANGED vars
  BY <1>12, <1>t DEF vars, sender, receiver, assembly
<1> QED
  BY <1>1, <1>2, <1>3, <1>4, <1>5, <1>6, <1>7, <1>8, <1>9, <1>10, <1>11, <1>12
     DEF Next, StreamFile, PeerLeft, Faults

LEMMA Shaped == Spec => []Shape
  BY InitShape, NextShape, PTL DEF Spec

-----------------------------------------------------------------------------
(* The counters of the flow control. *)

\* The chunks on their way are chunks of the file in order, none of them
\* taken yet; an ack on its way is no more than what was acknowledged.
Flow(bytes, next, q, acks, got, acked, heard) ==
    /\ bytes = Offset(next)
    /\ \A i \in 1..Len(q) : q[i].kind = "chunk" =>
          /\ q[i].seq < next
          /\ q[i].n = LengthOf(q[i].seq)
          /\ got <= Offset(q[i].seq)
    /\ \A i, j \in 1..Len(q) :
          i < j /\ q[i].kind = "chunk" /\ q[j].kind = "chunk" => q[i].seq < q[j].seq
    /\ \A i \in 1..Len(acks) : acks[i].kind = "ack" => acks[i].n <= acked
    /\ heard <= acked /\ acked <= got /\ got <= bytes

FlowInv == Flow(sent, sSeq, toR, toS, received, lastAcked, lastAck)

LEMMA FlowNext ==
    ASSUME terms' = terms, Flow(sent', sSeq', toR', toS', received', lastAcked', lastAck')
    PROVE  FlowInv'
  BY DEF FlowInv, Flow, Offset, LengthOf, chunkSize, fileSize

LEMMA FlowTail ==
    ASSUME TermsOK, NEW b, NEW x, NEW q \in Seq(Messages), NEW a, NEW g, NEW k, NEW h,
           Flow(b, x, q, a, g, k, h), q # <<>>
    PROVE  Flow(b, x, Tail(q), a, g, k, h)
<1>1. \A i \in 1..Len(Tail(q)) : i \in Nat /\ i + 1 \in 1..Len(q) /\ Tail(q)[i] = q[i + 1]
  BY TailFacts
<1>2. \A i \in 1..Len(Tail(q)) : Tail(q)[i].kind = "chunk" =>
         /\ Tail(q)[i].seq < x
         /\ Tail(q)[i].n = LengthOf(Tail(q)[i].seq)
         /\ g <= Offset(Tail(q)[i].seq)
  BY <1>1 DEF Flow
<1>3. ASSUME NEW i \in 1..Len(Tail(q)), NEW j \in 1..Len(Tail(q)), i < j,
             Tail(q)[i].kind = "chunk", Tail(q)[j].kind = "chunk"
      PROVE  Tail(q)[i].seq < Tail(q)[j].seq
  <2>1. i + 1 < j + 1
    BY <1>1, <1>3
  <2> QED
    BY <1>1, <1>3, <2>1 DEF Flow
<1> QED
  BY <1>2, <1>3 DEF Flow

LEMMA FlowHear ==
    ASSUME TermsOK, NEW b, NEW x, NEW q, NEW a \in Seq(Messages), NEW g, NEW k, NEW h,
           Flow(b, x, q, a, g, k, h), a # <<>>
    PROVE  /\ Flow(b, x, q, Tail(a), g, k, h)
           /\ Head(a).kind = "ack" => Flow(b, x, q, Tail(a), g, k, Head(a).n)
<1>1. \A i \in 1..Len(Tail(a)) : i + 1 \in 1..Len(a) /\ Tail(a)[i] = a[i + 1]
  BY TailFacts
<1>2. 1 \in 1..Len(a) /\ Head(a) = a[1]
  BY TailFacts
<1> QED
  BY <1>1, <1>2 DEF Flow

LEMMA FlowSend ==
    ASSUME TermsOK, NEW b \in Nat, NEW x \in Nat, NEW q \in Seq(Messages), NEW a,
           NEW g \in Nat, NEW k, NEW h, Flow(b, x, q, a, g, k, h)
    PROVE  Flow(b + LengthOf(x), x + 1, Append(q, Chunk(x)), a, g, k, h)
<1> DEFINE r == Append(q, Chunk(x))
<1>1. /\ Len(q) \in Nat /\ Len(r) = Len(q) + 1 /\ r[Len(q) + 1] = Chunk(x)
      /\ \A i \in 1..Len(q) : r[i] = q[i]
  BY AppendFacts, MsgFacts
<1>2. /\ Chunk(x).kind = "chunk" /\ Chunk(x).seq = x /\ Chunk(x).n = LengthOf(x)
  BY MsgFacts
<1>3. LengthOf(x) \in Nat /\ Offset(x + 1) = b + LengthOf(x) /\ g <= Offset(x) /\ g <= b + LengthOf(x)
  <2>1. b = Offset(x) /\ g <= b
    BY DEF Flow
  <2>2. LengthOf(x) \in Nat /\ Offset(x + 1) = Offset(x) + LengthOf(x)
    BY OffsetFacts
  <2> QED
    BY <2>1, <2>2
<1> HIDE DEF r
<1>4. ASSUME NEW i \in 1..Len(r), r[i].kind = "chunk"
      PROVE  r[i].seq < x + 1 /\ r[i].n = LengthOf(r[i].seq) /\ g <= Offset(r[i].seq)
  <2>1. CASE i = Len(q) + 1
    BY <2>1, <1>1, <1>2, <1>3
  <2>2. CASE i \in 1..Len(q)
    <3>1. r[i] = q[i] /\ q[i] \in Messages
      BY <2>2, <1>1, ElementOfSeq
    <3>2. q[i].seq < x /\ q[i].n = LengthOf(q[i].seq) /\ g <= Offset(q[i].seq) /\ q[i].seq \in Nat
      BY <2>2, <3>1, <1>4 DEF Flow, Messages
    <3> QED
      BY <3>1, <3>2
  <2> QED
    BY <2>1, <2>2, <1>1
<1>5. ASSUME NEW i \in 1..Len(r), NEW j \in 1..Len(r), i < j,
             r[i].kind = "chunk", r[j].kind = "chunk"
      PROVE  r[i].seq < r[j].seq
  <2>1. i \in 1..Len(q)
    BY <1>1, <1>5
  <2>2. CASE j = Len(q) + 1
    BY <2>1, <2>2, <1>1, <1>2, <1>5 DEF Flow
  <2>3. CASE j \in 1..Len(q)
    BY <2>1, <2>3, <1>1, <1>5 DEF Flow
  <2> QED
    BY <2>2, <2>3, <1>1
<1> QED
  BY <1>3, <1>4, <1>5 DEF Flow, r

LEMMA FlowEnd ==
    ASSUME NEW b, NEW x, NEW q \in Seq(Messages), NEW m \in Messages, NEW a, NEW g, NEW k, NEW h,
           Flow(b, x, q, a, g, k, h), m.kind # "chunk"
    PROVE  Flow(b, x, Append(q, m), a, g, k, h)
<1> DEFINE r == Append(q, m)
<1>1. /\ Len(q) \in Nat /\ Len(r) = Len(q) + 1 /\ r[Len(q) + 1] = m
      /\ \A i \in 1..Len(q) : r[i] = q[i]
  BY AppendFacts
<1> HIDE DEF r
<1>2. \A i \in 1..Len(r) : r[i].kind = "chunk" => i \in 1..Len(q) /\ r[i] = q[i]
  BY <1>1
<1> QED
  BY <1>2 DEF Flow, r

LEMMA FlowSay ==
    ASSUME NEW b, NEW x, NEW q, NEW a \in Seq(Messages), NEW m \in Messages, NEW g, NEW k, NEW h,
           Flow(b, x, q, a, g, k, h), m.kind = "ack" => m.n <= k
    PROVE  Flow(b, x, q, Append(a, m), g, k, h)
<1> DEFINE r == Append(a, m)
<1>1. /\ Len(a) \in Nat /\ Len(r) = Len(a) + 1 /\ r[Len(a) + 1] = m
      /\ \A i \in 1..Len(a) : r[i] = a[i]
  BY AppendFacts
<1> HIDE DEF r
<1>2. ASSUME NEW i \in 1..Len(r), r[i].kind = "ack" PROVE r[i].n <= k
  <2>1. CASE i = Len(a) + 1
    BY <2>1, <1>1, <1>2
  <2>2. CASE i \in 1..Len(a)
    BY <2>2, <1>1, <1>2 DEF Flow
  <2> QED
    BY <2>1, <2>2, <1>1
<1> QED
  BY <1>2 DEF Flow, r

LEMMA FlowTake ==
    ASSUME TermsOK, NEW b \in Nat, NEW x \in Nat, NEW q \in Seq(Messages), NEW a,
           NEW g \in Nat, NEW k \in Nat, NEW h,
           Flow(b, x, q, a, g, k, h), q # <<>>, Head(q).kind = "chunk"
    PROVE  Flow(b, x, Tail(q), a, g + Head(q).n, k, h)
<1> DEFINE y == Head(q).seq
           n == Head(q).n
<1>1. /\ Len(q) \in Nat \ {0} /\ Head(q) = q[1] /\ Head(q) \in Messages
      /\ Len(Tail(q)) = Len(q) - 1
      /\ \A i \in 1..(Len(q) - 1) : Tail(q)[i] = q[i + 1]
  BY TailFacts
<1>2. 1 \in 1..Len(q) /\ y \in Nat /\ n \in Nat
  BY <1>1 DEF Messages
<1>3. y < x /\ n = LengthOf(y) /\ g <= Offset(y)
  BY <1>1, <1>2 DEF Flow
<1>4. g + n <= Offset(y + 1)
  <2>1. Offset(y + 1) = Offset(y) + LengthOf(y) /\ Offset(y) \in Nat
    BY <1>2, OffsetFacts
  <2> QED
    BY <2>1, <1>2, <1>3
<1>5. ASSUME NEW z \in Nat, y < z PROVE g + n <= Offset(z)
  <2>1. \A j \in Nat : Offset(j) \in Nat
    BY OffsetFacts
  <2>2. Offset(y + 1) <= Offset(z)
    BY <1>2, <1>5, OffsetFacts
  <2>3. y + 1 \in Nat
    BY <1>2
  <2>4. Offset(y + 1) \in Nat /\ Offset(z) \in Nat
    BY <2>1, <2>3
  <2>5. g + n \in Nat
    BY <1>2
  <2> HIDE DEF y, n
  <2> QED
    BY <2>2, <2>4, <2>5, <1>4
<1>6. Flow(b, x, Tail(q), a, g, k, h)
  BY FlowTail
<1>7. ASSUME NEW i \in 1..Len(Tail(q)), Tail(q)[i].kind = "chunk"
      PROVE  g + n <= Offset(Tail(q)[i].seq)
  <2>1. i + 1 \in 1..Len(q) /\ 1 < i + 1 /\ Tail(q)[i] = q[i + 1] /\ q[i + 1] \in Messages
    BY <1>1, ElementOfSeq
  <2>2. y < q[i + 1].seq /\ q[i + 1].seq \in Nat
    <3>1. q[1].kind = "chunk" /\ q[i + 1].kind = "chunk"
      BY <1>1, <1>7, <2>1
    <3> QED
      BY <1>1, <1>2, <2>1, <3>1 DEF Flow, Messages
  <2> QED
    BY <2>1, <2>2, <1>5
<1>8. g + n <= b
  BY <1>3, <1>5 DEF Flow
<1>9. k <= g + n
  BY <1>2 DEF Flow
<1> HIDE DEF n
<1> QED
  BY <1>6, <1>7, <1>8, <1>9 DEF Flow, n

LEMMA FlowAcked ==
    ASSUME NEW b, NEW x, NEW q, NEW a \in Seq(Messages), NEW g \in Nat, NEW k \in Nat, NEW h \in Nat,
           Flow(b, x, q, a, g, k, h)
    PROVE  Flow(b, x, q, a, g, g, h)
<1>1. ASSUME NEW i \in 1..Len(a), a[i].kind = "ack" PROVE a[i].n <= g
  <2>1. a[i] \in Messages
    BY ElementOfSeq
  <2> QED
    BY <1>1, <2>1 DEF Flow, Messages
<1>2. h <= g
  BY DEF Flow
<1> QED
  BY <1>1, <1>2 DEF Flow

LEMMA InitFlow == Init => FlowInv
<1> SUFFICES ASSUME Init PROVE FlowInv
  OBVIOUS
<1>1. Offset(0) = 0
  BY InitTerms, OffsetFacts
<1> QED
  BY <1>1 DEF Init, FlowInv, Flow

LEMMA NextFlow == ASSUME Shape, FlowInv, [Next]_vars PROVE FlowInv'
<1>t. terms' = terms /\ TermsOK
  BY TermsStay DEF Shape
<1>n. /\ sent \in Nat /\ sSeq \in Nat /\ lastAck \in Nat /\ received \in Nat /\ lastAcked \in Nat
      /\ toR \in Seq(Messages) /\ toS \in Seq(Messages)
  BY DEF Shape, Counters, Queues
<1>f. Flow(sent, sSeq, toR, toS, received, lastAcked, lastAck)
  BY DEF FlowInv
<1> SUFFICES Flow(sent', sSeq', toR', toS', received', lastAcked', lastAck')
  BY <1>t, FlowNext
<1>m. /\ \A k \in Kinds : Msg(k) \in Messages /\ Msg(k).kind = k
      /\ \A n \in Nat : Ack(n) \in Messages /\ Ack(n).kind = "ack" /\ Ack(n).n = n
  BY <1>t, MsgFacts
<1>1. CASE AcceptTransfer \/ RejectTransfer
  <2>1. UNCHANGED <<sent, sSeq, toR, received, lastAcked, lastAck>>
    BY <1>1 DEF AcceptTransfer, RejectTransfer, sender, assembly
  <2>2. PICK k \in {"accept", "reject"} : toS' \in {toS, Append(toS, Msg(k))}
    BY <1>1 DEF AcceptTransfer, RejectTransfer, SendToS
  <2>3. Msg(k) \in Messages /\ Msg(k).kind # "ack"
    BY <1>m DEF Kinds
  <2>4. Flow(sent, sSeq, toR, Append(toS, Msg(k)), received, lastAcked, lastAck)
    BY <1>n, <1>f, <2>3, FlowSay
  <2> QED
    BY <2>1, <2>2, <2>4, <1>f
<1>2. CASE \/ WaitForWindow \/ CheckAborted \/ Finish \/ FlowControlStall \/ ReadFails
           \/ SenderUnfriends \/ SenderFailsTransfer \/ ReceiverUnfriends \/ ReceiverLists
           \/ ReceiverAborts \/ ReceiveStall \/ UNCHANGED vars
  <2>1. UNCHANGED <<sent, sSeq, toR, toS, received, lastAcked, lastAck>>
    BY <1>2 DEF WaitForWindow, CheckAborted, Finish, FlowControlStall, ReadFails, SenderUnfriends,
       SenderFailsTransfer, ReceiverUnfriends, ReceiverLists, ReceiverAborts, ReceiveStall, vars,
       sender, receiver, assembly
  <2> QED
    BY <2>1, <1>f
<1>3. CASE SendChunk
  <2>1. UNCHANGED <<lastAck, received, lastAcked, toS>>
    BY <1>3 DEF SendChunk, receiver, assembly
  <2>2. \/ /\ toR' = Append(toR, Chunk(sSeq)) /\ sent' = sent + LengthOf(sSeq) /\ sSeq' = sSeq + 1
        \/ UNCHANGED <<sent, sSeq, toR>>
    BY <1>3 DEF SendChunk
  <2>3. Flow(sent + LengthOf(sSeq), sSeq + 1, Append(toR, Chunk(sSeq)), toS, received, lastAcked, lastAck)
    BY <1>t, <1>n, <1>f, FlowSend
  <2> QED
    BY <2>1, <2>2, <2>3, <1>f
<1>4. CASE SendEnd
  <2>1. UNCHANGED <<lastAck, received, lastAcked, toS, sent, sSeq>>
    BY <1>4 DEF SendEnd, receiver, assembly
  <2>2. toR' = Append(toR, Msg("end")) \/ toR' = toR
    BY <1>4 DEF SendEnd
  <2>3. Msg("end") \in Messages /\ Msg("end").kind # "chunk"
    BY <1>m DEF Kinds
  <2>4. Flow(sent, sSeq, Append(toR, Msg("end")), toS, received, lastAcked, lastAck)
    BY <1>n, <1>f, <2>3, FlowEnd
  <2> QED
    BY <2>1, <2>2, <2>4, <1>f
<1>5. CASE SenderReads
  <2>1. /\ UNCHANGED <<sent, sSeq, toR, received, lastAcked>> /\ toS # <<>> /\ toS' = Tail(toS)
        /\ \/ lastAck' = lastAck
           \/ Head(toS).kind = "ack" /\ lastAck' = Head(toS).n
    BY <1>5 DEF SenderReads, receiver, assembly
  <2>2. /\ Flow(sent, sSeq, toR, Tail(toS), received, lastAcked, lastAck)
        /\ Head(toS).kind = "ack" =>
              Flow(sent, sSeq, toR, Tail(toS), received, lastAcked, Head(toS).n)
    BY <1>t, <1>n, <1>f, <2>1, FlowHear
  <2> QED
    BY <2>1, <2>2
<1>6. CASE ReceiverReads
  <2>1. UNCHANGED <<sent, sSeq, lastAck>> /\ toR # <<>> /\ toR' = Tail(toR)
    BY <1>6 DEF ReceiverReads, sender
  <2>2. Head(toR) \in Messages
    BY <1>n, <2>1, TailFacts
  <2>3. CASE Head(toR).kind = "chunk" /\ TakeChunk(Head(toR))
    <3>1. /\ received' = received + Head(toR).n
          /\ lastAcked' \in {lastAcked, received'}
          /\ toS' = toS \/ (toS' = Append(toS, Ack(received')) /\ lastAcked' = received')
      BY <2>2, <2>3, TakeFacts DEF Shape
    <3>2. received' \in Nat
      BY <3>1, <2>2, <1>n DEF Messages
    <3>3. Flow(sent, sSeq, Tail(toR), toS, received', lastAcked, lastAck)
      BY <1>t, <1>n, <1>f, <2>1, <2>3, <3>1, FlowTake
    <3>4. Flow(sent, sSeq, Tail(toR), toS, received', received', lastAck)
      BY <1>n, <3>2, <3>3, FlowAcked
    <3>5. Ack(received') \in Messages /\ Ack(received').n = received'
      BY <1>m, <3>2
    <3>6. Flow(sent, sSeq, Tail(toR), Append(toS, Ack(received')), received', received', lastAck)
      BY <1>n, <3>2, <3>4, <3>5, FlowSay
    <3> QED
      BY <2>1, <3>1, <3>3, <3>4, <3>6
  <2>4. CASE ~ (Head(toR).kind = "chunk" /\ TakeChunk(Head(toR)))
    <3>1. UNCHANGED <<received, lastAcked, toS>>
      BY <1>6, <2>4 DEF ReceiverReads, HandleChunk, HandleTransferEnd, assembly
    <3> QED
      BY <1>t, <1>n, <1>f, <2>1, <3>1, FlowTail
  <2> QED
    BY <2>3, <2>4
<1>7. CASE DiskFails \/ LoseToReceiver
  <2>1. UNCHANGED <<sent, sSeq, toS, received, lastAcked, lastAck>> /\ toR # <<>> /\ toR' = Tail(toR)
    BY <1>7 DEF DiskFails, LoseToReceiver, sender, receiver, assembly
  <2> QED
    BY <1>t, <1>n, <1>f, <2>1, FlowTail
<1>8. CASE LoseToSender
  <2>1. UNCHANGED <<sent, sSeq, toR, received, lastAcked, lastAck>> /\ toS # <<>> /\ toS' = Tail(toS)
    BY <1>8 DEF LoseToSender, sender, receiver, assembly
  <2> QED
    BY <1>t, <1>n, <1>f, <2>1, FlowHear
<1> QED
  BY <1>1, <1>2, <1>3, <1>4, <1>5, <1>6, <1>7, <1>8 DEF Next, StreamFile, PeerLeft, Faults

LEMMA Flowing == Spec => []FlowInv
  BY InitFlow, NextFlow, Shaped, PTL DEF Spec

-----------------------------------------------------------------------------
(* The window. *)

\* What waitForWindow let through stays below the window until it is sent.
Below(win, bytes, heard, pc, n) ==
    win > 0 =>
        /\ bytes < heard + win
        /\ pc \in {"check", "seal"} => bytes + n < heard + win

WindowInv == Below(window, sent, lastAck, sPc, LengthOf(sSeq))

LEMMA InitWindow == Init => WindowInv
<1> SUFFICES ASSUME Init PROVE WindowInv
  OBVIOUS
<1>1. window \in Nat
  BY InitTerms DEF TermsOK, window
<1>2. sent = 0 /\ lastAck = 0 /\ sPc = "idle"
  BY DEF Init
<1> QED
  BY <1>1, <1>2 DEF WindowInv, Below

LEMMA HeardMore ==
    \A s, h, k, w \in Nat : s < h + w /\ h <= k => s < k + w
  OBVIOUS

LEMMA NextWindow == ASSUME Shape, WindowInv, [Next]_vars PROVE WindowInv'
<1>t. terms' = terms /\ window \in Nat /\ LengthOf(sSeq) \in Nat
  BY TermsStay, OffsetFacts DEF Shape, TermsOK, Counters, window
<1>n. sent \in Nat /\ lastAck \in Nat
  BY DEF Shape, Counters
<1>w. Below(window, sent, lastAck, sPc, LengthOf(sSeq))
  BY DEF WindowInv
<1>p. sSeq' = sSeq /\ Below(window, sent', lastAck', sPc', LengthOf(sSeq)) => WindowInv'
  BY <1>t DEF WindowInv, window, LengthOf, chunkSize, fileSize
<1>1. CASE WaitForWindow
  <2>1. UNCHANGED <<sent, sSeq, lastAck>>
    BY <1>1 DEF WaitForWindow
  <2>2. CASE sPc' = "stopped"
    BY <1>p, <1>w, <2>1, <2>2 DEF Below
  <2>3. CASE sPc' # "stopped"
    <3>1. sPc = "window" /\ ~ WindowFull(sent + LengthOf(sSeq), lastAck, window)
      BY <1>1, <2>3 DEF WaitForWindow, Blocked
    <3>2. window > 0 => sent + LengthOf(sSeq) < lastAck + window
      BY <1>t, <1>n, <3>1 DEF WindowFull, InFlight
    <3> QED
      BY <1>p, <1>w, <2>1, <3>2 DEF Below
  <2> QED
    BY <2>2, <2>3
<1>2. CASE CheckAborted
  <2>1. UNCHANGED <<sent, sSeq, lastAck>> /\ sPc = "check" /\ sPc' \in {"stopped", "seal"}
    BY <1>2 DEF CheckAborted
  <2> QED
    BY <1>p, <1>w, <2>1 DEF Below
<1>3. CASE SendChunk
  <2>1. CASE UNCHANGED <<sent, sSeq>>
    <3>1. lastAck' = lastAck /\ sPc' \in {"stopped", "end", "window"}
      BY <1>3 DEF SendChunk, Fail
    <3> QED
      BY <1>p, <1>w, <2>1, <3>1 DEF Below
  <2>2. CASE ~ UNCHANGED <<sent, sSeq>>
    <3>1. /\ sPc = "seal" /\ sent' = sent + LengthOf(sSeq) /\ lastAck' = lastAck
          /\ sPc' \in {"end", "window"}
      BY <1>3, <2>2 DEF SendChunk
    <3>2. window' = window
      BY <1>t DEF window
    <3>3. window > 0 => sent + LengthOf(sSeq) < lastAck + window
      BY <1>w, <3>1 DEF Below
    <3>4. window > 0 => sent' < lastAck' + window'
      BY <3>1, <3>2, <3>3
    <3>5. Below(window', sent', lastAck', sPc', LengthOf(sSeq)')
      BY <3>1, <3>2, <3>4 DEF Below
    <3> QED
      BY <3>5 DEF WindowInv
  <2> QED
    BY <2>1, <2>2
<1>4. CASE SendEnd \/ Finish \/ FlowControlStall \/ ReadFails
  <2>1. UNCHANGED <<sent, sSeq, lastAck>> /\ sPc' \in {"finish", "stopped"}
    BY <1>4 DEF SendEnd, Finish, FlowControlStall, ReadFails, Fail
  <2> QED
    BY <1>p, <1>w, <2>1 DEF Below
<1>5. CASE SenderReads
  <2>1. UNCHANGED <<sent, sSeq>> /\ toS # <<>>
    BY <1>5 DEF SenderReads
  <2>2. Head(toS).n \in Nat
    BY <2>1, TailFacts DEF Shape, Queues, Messages
  <2>3. lastAck' \in Nat /\ lastAck' >= lastAck /\ (sPc' = sPc \/ sPc' = "window")
    BY <1>5, <1>n, <2>2 DEF SenderReads
  <2>4. ASSUME window > 0 PROVE sent' < lastAck' + window
    <3>1. sent < lastAck + window /\ sent' = sent
      BY <1>w, <2>1, <2>4 DEF Below
    <3>2. lastAck' \in Nat /\ lastAck <= lastAck'
      BY <2>3, <1>n
    <3>3. window \in Nat
      BY <1>t
    <3> QED
      BY <3>1, <3>2, <3>3, <1>n, HeardMore
  <2>5. ASSUME window > 0, sPc' \in {"check", "seal"}
        PROVE  sent' + LengthOf(sSeq) < lastAck' + window
    <3>1. sent + LengthOf(sSeq) < lastAck + window /\ sent' = sent
      BY <1>w, <2>1, <2>3, <2>5 DEF Below
    <3> QED
      BY <3>1, <1>n, <1>t, <2>3
  <2>6. Below(window, sent', lastAck', sPc', LengthOf(sSeq))
    BY <2>4, <2>5 DEF Below
  <2> QED
    BY <1>p, <2>1, <2>6
<1>6. CASE UNCHANGED <<sent, sSeq, lastAck, sPc>>
  BY <1>6, <1>p, <1>w
<1>7. \/ UNCHANGED <<sent, sSeq, lastAck, sPc>>
      \/ WaitForWindow \/ CheckAborted \/ SendChunk \/ SendEnd \/ Finish
      \/ FlowControlStall \/ ReadFails \/ SenderReads
  BY DEF Next, StreamFile, PeerLeft, Faults, AcceptTransfer, RejectTransfer, ReceiverReads,
     ReceiveStall, SenderFailsTransfer, ReceiverLists, ReceiverAborts, DiskFails, LoseToReceiver,
     LoseToSender, SenderUnfriends, ReceiverUnfriends, sender, vars
<1> QED
  BY <1>1, <1>2, <1>3, <1>4, <1>5, <1>6, <1>7

LEMMA Windowed == Spec => []WindowInv
  BY InitWindow, NextWindow, Shaped, PTL DEF Spec

\* The sender never believes a byte to have arrived that the receiver has not
\* taken: what handleTransferAck stores never passes what handleChunk has
\* counted, and that never passes what streamFile has sent.  Nor does what is
\* on its way ever reach the window they settled on: streamFile sends no
\* chunk that waitForWindow did not let through.
THEOREM WindowKept == Spec => []WindowRespected
<1>1. Shape /\ FlowInv /\ WindowInv => WindowRespected
  <2>0. FlowInv => AcksAreHonest
    BY DEF FlowInv, Flow, AcksAreHonest
  <2> SUFFICES ASSUME Shape, FlowInv, WindowInv, window > 0 PROVE sent - received < window
    BY <2>0 DEF WindowRespected
  <2>1. lastAck <= lastAcked /\ lastAcked <= received
    BY DEF FlowInv, Flow
  <2>2. sent < lastAck + window
    BY DEF WindowInv, Below
  <2> QED
    BY <2>1, <2>2 DEF Shape, Counters, TermsOK, window
<1> QED
  BY <1>1, Shaped, Flowing, Windowed, PTL

-----------------------------------------------------------------------------
(* The sequence numbers. *)

\* A chunk starts within the size that was offered, or is the first.
Within(k) == k = 0 \/ k * chunkSize < Size

\* So do the next one, as long as one is to be sent, and those on their way.
RangeInv ==
    /\ sPc \in {"idle", "window", "check", "seal"} => Within(sSeq)
    /\ \A i \in 1..Len(toR) : toR[i].kind = "chunk" => Within(toR[i].seq)

LEMMA DivUp ==
    ASSUME NEW s \in Nat, NEW d \in Nat \ {0}, NEW k \in Nat, k * d < s
    PROVE  k < (s + d - 1) \div d
<1>1. (k + 1) * d <= s + d - 1
  BY SMT
<1>2. \A n \in Nat : (k + 1) * d <= n => k + 1 <= n \div d
  BY SMT
<1>3. s + d - 1 \in Nat
  OBVIOUS
<1>4. (s + d - 1) \div d \in Int
  BY <1>3
<1> QED
  BY <1>1, <1>2, <1>3, <1>4

LEMMA WithinRange ==
    ASSUME TermsOK, NEW k \in Nat, Within(k)
    PROVE  ~ (k >= ChunkCount(Size, ChunkDataSize))
<1>1. /\ Size \in Nat /\ chunkSize \in Nat /\ ChunkDataSize \in Nat \ {0}
      /\ chunkSize >= ChunkDataSize
  BY LimitsAssumption DEF TermsOK, Size, chunkSize
<1> DEFINE s == Size
           c == chunkSize
           d == ChunkDataSize
<1> HIDE DEF s, c, d
<1>2. k = 0 \/ k * c < s
  BY DEF Within, s, c
<1>3. s \in Nat /\ c \in Nat /\ d \in Nat \ {0} /\ c >= d
  BY <1>1 DEF s, c, d
<1>4. k * d \in Nat /\ k * c \in Nat /\ k * d <= k * c
  BY <1>3
<1>5. CASE s = 0
  <2>1. k = 0
    BY <1>2, <1>4, <1>5
  <2>2. ChunkCount(s, d) = 1
    BY <1>5 DEF ChunkCount
  <2> QED
    BY <2>1, <2>2 DEF s, d
<1>6. CASE s > 0
  <2>1. k * d < s
    BY <1>2, <1>3, <1>4, <1>6
  <2>2. k < (s + d - 1) \div d
    BY <2>1, <1>3, DivUp
  <2>3. ChunkCount(s, d) = (s + d - 1) \div d
    BY <1>3, <1>6 DEF ChunkCount
  <2>4. (s + d - 1) \div d \in Int
    BY <1>3
  <2>5. ~ (k >= ChunkCount(s, d))
    BY <2>2, <2>3, <2>4
  <2> QED
    BY <2>5 DEF s, d
<1> QED
  BY <1>3, <1>5, <1>6

\* A chunk that is not the last one is full, and the next starts below Size.
LEMMA NextWithin ==
    ASSUME TermsOK, NEW k \in Nat, sent = Offset(k), ~ IsLast(k)
    PROVE  Within(k + 1)
<1> DEFINE c == chunkSize
           n == LengthOf(k)
<1>1. c \in Nat \ {0} /\ fileSize \in Nat /\ Size \in Nat
  BY LimitsAssumption DEF TermsOK, chunkSize, fileSize, Size
<1>2. n \in Nat /\ n >= c /\ sent + n < Size /\ sent \in Nat
  BY <1>1, OffsetFacts DEF IsLast
<1>3. k * c \in Nat /\ (k + 1) * c = k * c + c
  BY <1>1
<1>4. n = IF fileSize < k * c THEN 0 ELSE Least(c, fileSize - k * c)
  BY DEF LengthOf
<1>5. sent = Least(k * c, fileSize)
  BY DEF Offset
<1> HIDE DEF c, n
<1>6. n = c /\ sent = k * c
  BY <1>1, <1>2, <1>3, <1>4, <1>5 DEF Least
<1>7. (k + 1) * c < Size
  BY <1>1, <1>2, <1>3, <1>6
<1> QED
  BY <1>7 DEF Within, c

LEMMA InitRange == Init => RangeInv
  BY DEF Init, RangeInv, Within

LEMMA NextRange == ASSUME Shape, FlowInv, RangeInv, [Next]_vars PROVE RangeInv'
<1>t. terms' = terms /\ TermsOK /\ sSeq \in Nat /\ toR \in Seq(Messages)
  BY TermsStay DEF Shape, Counters, Queues
<1>r. /\ sPc \in {"idle", "window", "check", "seal"} => Within(sSeq)
      /\ \A i \in 1..Len(toR) : toR[i].kind = "chunk" => Within(toR[i].seq)
  BY DEF RangeInv
<1>p. ASSUME sPc' \in {"idle", "window", "check", "seal"} => Within(sSeq'),
             \A i \in 1..Len(toR') : toR'[i].kind = "chunk" => Within(toR'[i].seq)
      PROVE  RangeInv'
  BY <1>p, <1>t DEF RangeInv, Within, chunkSize, Size
<1>1. CASE SendChunk /\ ~ UNCHANGED toR
  <2>1. /\ sPc = "seal" /\ toR' = Append(toR, Chunk(sSeq)) /\ sSeq' = sSeq + 1
        /\ sPc' = IF IsLast(sSeq) THEN "end" ELSE "window"
    BY <1>1 DEF SendChunk
  <2>2. Chunk(sSeq) \in Messages /\ Chunk(sSeq).seq = sSeq
    BY <1>t, MsgFacts
  <2>3. /\ Len(toR) \in Nat /\ Len(toR') = Len(toR) + 1 /\ toR'[Len(toR) + 1] = Chunk(sSeq)
        /\ \A i \in 1..Len(toR) : toR'[i] = toR[i]
    BY <1>t, <2>1, <2>2, AppendFacts
  <2>4. Within(sSeq)
    BY <1>r, <2>1
  <2>5. \A i \in 1..Len(toR') : toR'[i].kind = "chunk" => Within(toR'[i].seq)
    BY <1>r, <2>2, <2>3, <2>4
  <2>6. sPc' \in {"idle", "window", "check", "seal"} => Within(sSeq')
    <3>1. sent = Offset(sSeq)
      BY DEF FlowInv, Flow
    <3>2. ~ IsLast(sSeq) => Within(sSeq + 1)
      BY <1>t, <3>1, NextWithin
    <3> QED
      BY <2>1, <3>2
  <2> QED
    BY <1>p, <2>5, <2>6
<1>2. CASE SendEnd
  <2>1. sPc' \in {"finish", "stopped"} /\ (toR' = toR \/ toR' = Append(toR, Msg("end")))
    BY <1>2 DEF SendEnd, Fail
  <2>2. Msg("end") \in Messages /\ Msg("end").kind = "end"
    BY <1>t, MsgFacts DEF Kinds
  <2>3. \A i \in 1..Len(toR') : toR'[i].kind = "chunk" => Within(toR'[i].seq)
    <3>1. CASE toR' = Append(toR, Msg("end"))
      <4>1. /\ Len(toR) \in Nat /\ Len(toR') = Len(toR) + 1 /\ toR'[Len(toR) + 1] = Msg("end")
            /\ \A i \in 1..Len(toR) : toR'[i] = toR[i]
        BY <1>t, <2>2, <3>1, AppendFacts
      <4> QED
        BY <1>r, <2>2, <4>1
    <3> QED
      BY <1>r, <2>1, <3>1
  <2> QED
    BY <1>p, <2>1, <2>3
<1>3. CASE toR # <<>> /\ toR' = Tail(toR) /\ UNCHANGED <<sPc, sSeq>>
  <2>1. \A i \in 1..Len(toR') : i + 1 \in 1..Len(toR) /\ toR'[i] = toR[i + 1]
    BY <1>t, <1>3, TailFacts
  <2> QED
    BY <1>3, <1>p, <1>r, <2>1
<1>4. CASE UNCHANGED toR /\ (sPc' \in {"stopped", "finish"} \/ UNCHANGED <<sPc, sSeq>>)
  BY <1>4, <1>p, <1>r
<1>5. CASE WaitForWindow \/ CheckAborted
  <2>1. UNCHANGED <<toR, sSeq>> /\ sPc \in {"window", "check"}
    BY <1>5 DEF WaitForWindow, CheckAborted
  <2> QED
    BY <2>1, <1>p, <1>r
<1>6. CASE SenderReads
  <2>1. UNCHANGED <<toR, sSeq>> /\ (sPc' = sPc \/ sStatus = "awaiting")
    BY <1>6 DEF SenderReads
  <2>2. sStatus = "awaiting" => Within(sSeq)
    BY DEF Shape, Started, Within
  <2> QED
    BY <2>1, <2>2, <1>p, <1>r
<1>7. CASE SendChunk /\ UNCHANGED toR
  <2>1. CASE Fail
    BY <1>4, <1>7, <2>1 DEF Fail
  <2>2. CASE ~ Fail
    <3>1. toR' = Append(toR, Chunk(sSeq)) /\ toR' = toR
      BY <1>7, <2>2 DEF SendChunk
    <3>2. Chunk(sSeq) \in Messages
      BY <1>t, MsgFacts
    <3>3. Len(toR) \in Nat /\ Len(Append(toR, Chunk(sSeq))) = Len(toR) + 1
      BY <1>t, <3>2, AppendFacts
    <3> QED
      BY <3>1, <3>3
  <2> QED
    BY <2>1, <2>2
<1>8. CASE Finish \/ FlowControlStall \/ ReadFails
  <2>1. sPc' = "stopped" /\ toR' = toR
    BY <1>8 DEF Finish, FlowControlStall, ReadFails, Fail
  <2> QED
    BY <1>4, <2>1
<1>9. CASE ReceiverReads \/ DiskFails \/ LoseToReceiver
  BY <1>3, <1>9 DEF ReceiverReads, DiskFails, LoseToReceiver, sender
<1>10. CASE \/ AcceptTransfer \/ RejectTransfer \/ SenderUnfriends \/ SenderFailsTransfer
            \/ ReceiverUnfriends \/ ReceiverLists \/ ReceiverAborts \/ ReceiveStall
            \/ LoseToSender \/ UNCHANGED vars
  BY <1>4, <1>10 DEF AcceptTransfer, RejectTransfer, SenderUnfriends, SenderFailsTransfer,
     ReceiverUnfriends, ReceiverLists, ReceiverAborts, ReceiveStall, LoseToSender, vars, sender
<1> QED
  BY <1>1, <1>2, <1>5, <1>6, <1>7, <1>8, <1>9, <1>10 DEF Next, StreamFile, PeerLeft, Faults

\* handleChunk never takes a chunk of an honest sender for one out of range:
\* its bound assumes the smallest chunk size, streamFile counts with the
\* negotiated one and stops at the size that was offered, however the file
\* has grown meanwhile.
THEOREM InRange == Spec => []NeverOutOfRange
<1>1. Shape /\ RangeInv => NeverOutOfRange
  <2> SUFFICES ASSUME Shape, RangeInv, NEW i \in DOMAIN toR, toR[i].kind = "chunk"
               PROVE  ~ OutOfRange(toR[i])
    BY DEF NeverOutOfRange
  <2>1. toR \in Seq(Messages) /\ TermsOK
    BY DEF Shape, Queues
  <2>2. i \in 1..Len(toR) /\ toR[i] \in Messages
    BY <2>1, LenProperties, ElementOfSeq
  <2>3. toR[i].seq \in Nat /\ Within(toR[i].seq)
    BY <2>2 DEF RangeInv, Messages
  <2> QED
    BY <2>1, <2>3, WithinRange DEF OutOfRange
<1>2. Spec => []RangeInv
  BY InitRange, NextRange, Shaped, Flowing, PTL DEF Spec
<1> QED
  BY <1>1, <1>2, Shaped, PTL

-----------------------------------------------------------------------------
(* The receiver's verdict. *)

\* Who tells a verdict takes the transfer off c.inbound in the same hold of
\* the mutex, so that only handlePeerLeft, which listed the transfer before,
\* may still come; it looks at the status again.
VerdictInv ==
    /\ rListed => rTold = <<>> /\ rStatus \in {"offered", "streaming"}
    /\ rPeer = "listed" => rTold = <<>> \/ rStatus \in {"failed", "done"}
    /\ rTold = <<>> \/ \E v \in Verdicts : rTold = <<v>>

LEMMA AbortFacts ==
    ASSUME AbortInbound, rTold = <<>>
    PROVE  rStatus' = "failed" /\ rListed' = FALSE /\ rTold' = <<"failed">>
  BY DEF AbortInbound

LEMMA FinalizeFacts ==
    ASSUME NEW c, NEW e, Finalize(c, e), rTold = <<>>
    PROVE  \/ UNCHANGED <<rStatus, rListed, rTold>>
           \/ rStatus' = "done" /\ rListed' = FALSE /\ rTold' = <<"complete">>
  BY DEF Finalize

LEMMA ReadsFacts ==
    ASSUME ReceiverReads
    PROVE  /\ rPeer' = rPeer
           /\ \/ UNCHANGED <<rStatus, rListed, rTold>>
              \/ rListed /\ AbortInbound
              \/ rListed /\ \E c, e : Finalize(c, e)
<1>1. rPeer' = rPeer
  BY DEF ReceiverReads
<1>2. CASE Taking /\ HandleChunk(Head(toR))
  <2>1. rListed
    BY <1>2 DEF Taking
  <2>2. CASE TakeChunk(Head(toR))
    BY <1>1, <2>1, <2>2 DEF TakeChunk
  <2>3. CASE ~ TakeChunk(Head(toR))
    BY <1>1, <1>2, <2>1, <2>3 DEF HandleChunk
  <2> QED
    BY <2>2, <2>3
<1>3. CASE Taking /\ HandleTransferEnd(Head(toR))
  <2>1. rListed
    BY <1>3 DEF Taking
  <2>2. Finalize(lastSeq # None /\ nextSeq = lastSeq + 1, TRUE)
    BY <1>3 DEF HandleTransferEnd
  <2> QED
    BY <1>1, <2>1, <2>2
<1>4. CASE UNCHANGED <<rStatus, rListed, rTold>>
  BY <1>1, <1>4
<1> QED
  BY <1>2, <1>3, <1>4 DEF ReceiverReads

LEMMA InitVerdict == Init => VerdictInv
  BY DEF Init, VerdictInv

LEMMA NextVerdict == ASSUME VerdictInv, [Next]_vars PROVE VerdictInv'
<1> USE DEF VerdictInv, Verdicts
<1>1. CASE AcceptTransfer
  BY <1>1 DEF AcceptTransfer
<1>2. CASE RejectTransfer
  <2>1. rTold = <<>> /\ rListed' = FALSE /\ UNCHANGED <<rStatus, rPeer>>
    BY <1>2 DEF RejectTransfer
  <2>2. CASE rPeer = "friend"
    BY <1>2, <2>1, <2>2 DEF RejectTransfer
  <2>3. CASE rPeer # "friend"
    BY <1>2, <2>1, <2>3 DEF RejectTransfer
  <2> QED
    BY <2>2, <2>3
<1>3. CASE ReceiverReads
  <2>1. CASE UNCHANGED <<rStatus, rListed, rTold>>
    BY <1>3, <2>1, ReadsFacts
  <2>2. CASE rListed /\ AbortInbound
    BY <2>2, AbortFacts
  <2>3. CASE rListed /\ \E c, e : Finalize(c, e)
    <3>1. \/ UNCHANGED <<rStatus, rListed, rTold>>
          \/ rStatus' = "done" /\ rListed' = FALSE /\ rTold' = <<"complete">>
      BY <2>3, FinalizeFacts
    <3> QED
      BY <1>3, <3>1, ReadsFacts
  <2> QED
    BY <1>3, <2>1, <2>2, <2>3, ReadsFacts
<1>4. CASE ReceiveStall \/ DiskFails
  <2>1. rListed /\ AbortInbound
    BY <1>4 DEF ReceiveStall, DiskFails, Taking
  <2> QED
    BY <2>1, AbortFacts
<1>5. CASE ReceiverLists
  BY <1>5 DEF ReceiverLists
<1>6. CASE ReceiverAborts
  <2>1. rPeer' = "gone"
    BY <1>6 DEF ReceiverAborts
  <2>2. CASE rStatus \in {"failed", "done"}
    BY <1>6, <2>1, <2>2 DEF ReceiverAborts
  <2>3. CASE rStatus \notin {"failed", "done"}
    <3>1. AbortInbound /\ rTold = <<>>
      BY <1>6, <2>3 DEF ReceiverAborts
    <3> QED
      BY <2>1, <3>1, AbortFacts
  <2> QED
    BY <2>2, <2>3
<1>7. CASE ReceiverUnfriends
  BY <1>7 DEF ReceiverUnfriends
<1>8. CASE UNCHANGED <<rStatus, rListed, rPeer, rTold>>
  BY <1>8
<1>9. \/ UNCHANGED <<rStatus, rListed, rPeer, rTold>>
      \/ AcceptTransfer \/ RejectTransfer \/ ReceiverReads \/ ReceiveStall \/ DiskFails
      \/ ReceiverLists \/ ReceiverAborts \/ ReceiverUnfriends
  BY DEF Next, StreamFile, PeerLeft, Faults, WaitForWindow, CheckAborted, SendChunk, SendEnd, Finish,
     FlowControlStall, ReadFails, SenderReads, SenderUnfriends, SenderFailsTransfer, LoseToReceiver,
     LoseToSender, receiver, vars
<1> QED
  BY <1>1, <1>2, <1>3, <1>4, <1>5, <1>6, <1>7, <1>8, <1>9

\* The receiver's client emits one verdict of a transfer: the user's reject,
\* the stall timer, handleChunk, handleTransferEnd and failTransfersForPeer
\* exclude each other.
THEOREM OneVerdict == Spec => []InboundOneVerdict
<1>1. VerdictInv => InboundOneVerdict
  <2> SUFFICES ASSUME VerdictInv PROVE Len(rTold) <= 1
    BY DEF InboundOneVerdict
  <2>1. CASE rTold = <<>>
    BY <2>1
  <2>2. CASE rTold # <<>>
    <3>1. PICK v \in Verdicts : rTold = <<v>>
      BY <2>2 DEF VerdictInv
    <3> QED
      BY <3>1
  <2> QED
    BY <2>1, <2>2
<1> QED
  BY <1>1, InitVerdict, NextVerdict, PTL DEF Spec

-----------------------------------------------------------------------------
(* The assembly of the file. *)

Sending(pc) == pc \in {"idle", "window", "check", "seal"}
Ended(pc) == pc \in {"finish", "stopped"}

\* What was taken in order is the file so far.  A chunk that is buffered waits
\* for one that was lost, and the sender is past that one.
Ahead(next, held, got, seq, q) ==
    /\ held = {} => /\ got = Offset(next) /\ next <= seq
                    /\ \A i \in 1..Len(q) : q[i].kind = "chunk" => next <= q[i].seq
    /\ held # {} => /\ next < seq
                    /\ \A i \in 1..Len(q) : q[i].kind = "chunk" => next < q[i].seq

\* The chunk flagged last is the last one, and the end comes after it.
Flags(seq, q, pc, last, end) ==
    /\ \A i \in 1..Len(q) : q[i].kind = "chunk" /\ q[i].last => q[i].seq + 1 = seq /\ ~ Sending(pc)
    /\ \A i \in 1..Len(q) : q[i].kind = "end" => Ended(pc)
    /\ last # None => last + 1 = seq /\ ~ Sending(pc)
    /\ end => Ended(pc)

\* A complete file of another size than the offered one is not kept.
Closing(next, last, st) ==
    /\ st = "offered" => last = None
    /\ st = "streaming" /\ last # None /\ next = last + 1 => Offset(next) = Size

Whole(next, held, got, seq, pc, st) ==
    st = "done" => got = Size /\ held = {} /\ next = seq /\ Ended(pc)

Assembled(next, held, got, seq, q, pc, last, end, st) ==
    /\ next \in Nat /\ held \in SUBSET Nat /\ last \in Nat \cup {None} /\ end \in BOOLEAN
    /\ Ahead(next, held, got, seq, q)
    /\ Flags(seq, q, pc, last, end)
    /\ Closing(next, last, st)
    /\ Whole(next, held, got, seq, pc, st)

AssemblyInv ==
    Assembled(nextSeq, pending, received, sSeq, toR, sPc, lastSeq, endSeen, rStatus)

LEMMA AssembledNext ==
    ASSUME terms' = terms,
           Assembled(nextSeq', pending', received', sSeq', toR', sPc', lastSeq', endSeen', rStatus')
    PROVE  AssemblyInv'
  BY DEF AssemblyInv, Assembled, Ahead, Flags, Closing, Whole, Offset, Size, chunkSize, fileSize

LEMMA InitAssembly == Init => AssemblyInv
<1> SUFFICES ASSUME Init PROVE AssemblyInv
  OBVIOUS
<1>1. Offset(0) = 0
  BY InitTerms, OffsetFacts
<1>2. Ahead(nextSeq, pending, received, sSeq, toR)
  BY <1>1 DEF Init, Ahead
<1>3. Flags(sSeq, toR, sPc, lastSeq, endSeen)
  BY DEF Init, Flags
<1>4. Closing(nextSeq, lastSeq, rStatus) /\ Whole(nextSeq, pending, received, sSeq, sPc, rStatus)
  BY DEF Init, Closing, Whole
<1>5. nextSeq \in Nat /\ pending \in SUBSET Nat /\ lastSeq \in Nat \cup {None} /\ endSeen \in BOOLEAN
  BY DEF Init
<1> QED
  BY <1>2, <1>3, <1>4, <1>5 DEF AssemblyInv, Assembled

\* streamFile moves on without a new chunk, or the receiver gives up or starts.
LEMMA AssembledMoves ==
    ASSUME NEW next, NEW held, NEW got, NEW seq, NEW q, NEW pc, NEW last, NEW end, NEW st,
           Assembled(next, held, got, seq, q, pc, last, end, st),
           NEW pc2, Sending(pc2) => Sending(pc), Ended(pc) => Ended(pc2),
           NEW st2, st2 \in {st, "failed"} \/ (st = "offered" /\ st2 = "streaming")
    PROVE  Assembled(next, held, got, seq, q, pc2, last, end, st2)
<1>1. Flags(seq, q, pc2, last, end)
  BY DEF Assembled, Flags
<1>2. Closing(next, last, st2)
  BY DEF Assembled, Closing
<1>3. Whole(next, held, got, seq, pc2, st2)
  BY DEF Assembled, Whole
<1> QED
  BY <1>1, <1>2, <1>3 DEF Assembled

LEMMA AssembledTail ==
    ASSUME NEW next, NEW held, NEW got, NEW seq, NEW q \in Seq(Messages), q # <<>>,
           NEW pc, NEW last, NEW end, NEW st,
           Assembled(next, held, got, seq, q, pc, last, end, st)
    PROVE  Assembled(next, held, got, seq, Tail(q), pc, last, end, st)
<1> DEFINE r == Tail(q)
<1>1. \A i \in 1..Len(r) : i + 1 \in 1..Len(q) /\ r[i] = q[i + 1]
  BY TailFacts
<1> HIDE DEF r
<1>2. Ahead(next, held, got, seq, r)
  BY <1>1 DEF Assembled, Ahead
<1>3. Flags(seq, r, pc, last, end)
  BY <1>1 DEF Assembled, Flags
<1> QED
  BY <1>2, <1>3 DEF Assembled, r

LEMMA AssembledSend ==
    ASSUME TermsOK, NEW next, NEW held, NEW got, NEW seq \in Nat, NEW q \in Seq(Messages),
           NEW pc, Sending(pc), NEW last, NEW end, NEW st,
           Assembled(next, held, got, seq, q, pc, last, end, st),
           NEW pc2, pc2 = IF IsLast(seq) THEN "end" ELSE "window"
    PROVE  Assembled(next, held, got, seq + 1, Append(q, Chunk(seq)), pc2, last, end, st)
<1> DEFINE m == Chunk(seq)
           r == Append(q, m)
<1>1. m \in Messages /\ m.kind = "chunk" /\ m.seq = seq /\ (m.last => IsLast(seq))
  BY MsgFacts DEF Chunk
<1>2. /\ Len(q) \in Nat /\ Len(r) = Len(q) + 1 /\ r[Len(q) + 1] = m
      /\ \A i \in 1..Len(q) : r[i] = q[i]
  BY <1>1, AppendFacts
<1> HIDE DEF m, r
<1>3. next \in Nat /\ Ahead(next, held, got, seq, q) /\ Flags(seq, q, pc, last, end)
  BY DEF Assembled
<1>4. \A i \in 1..Len(r) : (i \in 1..Len(q) /\ r[i] = q[i]) \/ r[i] = m
  BY <1>2
<1>5. Ahead(next, held, got, seq + 1, r)
  <2>1. CASE held = {}
    BY <1>1, <1>3, <1>4, <2>1 DEF Ahead
  <2>2. CASE held # {}
    BY <1>1, <1>3, <1>4, <2>2 DEF Ahead
  <2> QED
    BY <2>1, <2>2
<1>6. ~ Ended(pc)
  BY DEF Sending, Ended
<1>7. Flags(seq + 1, r, pc2, last, end)
  <2>1. last = None /\ ~ end
    BY <1>3, <1>6 DEF Flags
  <2>2. \A i \in 1..Len(r) : r[i].kind # "end"
    BY <1>1, <1>3, <1>4, <1>6 DEF Flags
  <2>3. ASSUME NEW i \in 1..Len(r), r[i].kind = "chunk", r[i].last
        PROVE  r[i].seq + 1 = seq + 1 /\ ~ Sending(pc2)
    <3>1. r[i] = m
      BY <1>3, <1>4, <2>3 DEF Flags
    <3> QED
      BY <1>1, <2>3, <3>1 DEF Sending
  <2> QED
    BY <2>1, <2>2, <2>3 DEF Flags
<1>8. Whole(next, held, got, seq + 1, pc2, st)
  BY <1>6 DEF Assembled, Whole
<1> QED
  BY <1>5, <1>7, <1>8 DEF Assembled, r, m

LEMMA AssembledEnd ==
    ASSUME NEW next, NEW held, NEW got, NEW seq, NEW q \in Seq(Messages), NEW m \in Messages,
           m.kind = "end", NEW pc, NEW last, NEW end, NEW st,
           Assembled(next, held, got, seq, q, pc, last, end, st)
    PROVE  Assembled(next, held, got, seq, Append(q, m), "finish", last, end, st)
<1> DEFINE r == Append(q, m)
<1>1. /\ Len(q) \in Nat /\ Len(r) = Len(q) + 1 /\ r[Len(q) + 1] = m
      /\ \A i \in 1..Len(q) : r[i] = q[i]
  BY AppendFacts
<1> HIDE DEF r
<1>2. \A i \in 1..Len(r) : (i \in 1..Len(q) /\ r[i] = q[i]) \/ r[i].kind = "end"
  BY <1>1
<1>3. Ahead(next, held, got, seq, r)
  BY <1>2 DEF Assembled, Ahead
<1>4. Flags(seq, r, "finish", last, end)
  BY <1>2 DEF Assembled, Flags, Sending, Ended
<1>5. Whole(next, held, got, seq, "finish", st)
  BY DEF Assembled, Whole, Ended
<1> QED
  BY <1>3, <1>4, <1>5 DEF Assembled, r

LEMMA WrittenNext ==
    ASSUME NEW k \in Nat, k = nextSeq
    PROVE  Written(k, {}) = k + 1
<1>1. Cardinality({}) = 0
  BY FS_EmptySet
<1>2. \A i : i \in (k + 1)..(k + 1 + 0) <=> i = k + 1
  OBVIOUS
<1>3. (k + 1)..((k + 1) - 1) = {}
  OBVIOUS
<1> QED
  BY <1>1, <1>2, <1>3 DEF Written

\* A chunk that is taken is either the next one, and nothing was lost so far,
\* or behind one that was lost, and then the file will never be complete.
LEMMA AssembledTake ==
    ASSUME Shape, FlowInv, AssemblyInv, Taking, toR # <<>>, Head(toR).kind = "chunk",
           TakeChunk(Head(toR))
    PROVE  Assembled(nextSeq', pending', received', sSeq, Tail(toR), sPc, lastSeq', endSeen', rStatus')
<1> DEFINE m == Head(toR)
           k == m.seq
           r == Tail(toR)
           e == Written(k, pending)
           end == IF m.last THEN k ELSE lastSeq
<1>1. /\ m \in Messages /\ k \in Nat /\ m.n \in Nat /\ 1 \in 1..Len(toR) /\ m = toR[1]
      /\ \A i \in 1..Len(r) : /\ i + 1 \in 1..Len(toR) /\ 1 < i + 1 /\ r[i] = toR[i + 1]
                              /\ r[i].seq \in Nat
  <2>1. /\ Len(toR) \in Nat \ {0} /\ Len(r) = Len(toR) - 1 /\ r \in Seq(Messages)
        /\ \A i \in 1..(Len(toR) - 1) : r[i] = toR[i + 1]
        /\ m = toR[1] /\ m \in Messages
    BY TailFacts DEF Shape, Queues
  <2>2. k \in Nat /\ m.n \in Nat /\ 1 \in 1..Len(toR)
    BY <2>1 DEF Messages
  <2> HIDE DEF r, m
  <2>3. ASSUME NEW i \in 1..Len(r)
        PROVE  i + 1 \in 1..Len(toR) /\ 1 < i + 1 /\ r[i] = toR[i + 1] /\ r[i].seq \in Nat
    <3>1. r[i] \in Messages
      BY <2>1, <2>3, ElementOfSeq
    <3> QED
      BY <2>1, <3>1 DEF Messages
  <2> QED
    BY <2>1, <2>2, <2>3
<1>2. /\ sSeq \in Nat /\ received \in Nat /\ nextSeq \in Nat /\ pending \in SUBSET Nat
      /\ lastSeq \in Nat \cup {None} /\ endSeen \in BOOLEAN
  BY DEF Shape, Counters, AssemblyInv, Assembled
<1>3. k < sSeq /\ m.n = LengthOf(k)
  BY <1>1 DEF FlowInv, Flow
<1>4. ASSUME NEW i \in 1..Len(r), r[i].kind = "chunk" PROVE k < r[i].seq
  <2>1. toR[1].kind = "chunk" /\ toR[i + 1].kind = "chunk"
    BY <1>1, <1>4
  <2> QED
    BY <1>1, <1>4, <2>1 DEF FlowInv, Flow
<1>5. Ahead(nextSeq, pending, received, sSeq, toR) /\ Flags(sSeq, toR, sPc, lastSeq, endSeen)
  BY DEF AssemblyInv, Assembled
<1>6. /\ pending = {} => nextSeq <= k /\ received = Offset(nextSeq)
      /\ pending # {} => nextSeq < k
  BY <1>1, <1>5 DEF Ahead
<1>7. /\ received' = received + m.n /\ nextSeq' = e /\ lastSeq' = end /\ endSeen' = endSeen
      /\ pending' = {j \in pending \cup {k} : j >= e}
      /\ IF (end # None /\ e = end + 1) /\ Offset(e) # Size
         THEN rStatus' = "failed"
         ELSE Finalize(end # None /\ e = end + 1, endSeen)
  BY DEF TakeChunk, AbortInbound
<1>8. rStatus = "streaming"
  BY DEF Taking
<1>9. Flags(sSeq, r, sPc, end, endSeen)
  <2>1. Flags(sSeq, r, sPc, lastSeq, endSeen)
    BY <1>1, <1>5 DEF Flags
  <2>2. m.last => k + 1 = sSeq /\ ~ Sending(sPc)
    BY <1>1, <1>5 DEF Flags
  <2> QED
    BY <2>1, <2>2 DEF Flags
<1>10. end \in Nat \cup {None} /\ (end # None => end + 1 = sSeq)
  BY <1>1, <1>2, <1>9 DEF Flags
<1>11. CASE k = nextSeq
  <2>1. pending = {} /\ received = Offset(k)
    BY <1>1, <1>2, <1>6, <1>11
  <2>2. e = k + 1
    BY <1>1, <1>11, <2>1, WrittenNext
  <2>3. pending' = {} /\ nextSeq' \in Nat
    BY <1>1, <1>7, <2>1, <2>2
  <2>4. received' = Offset(e)
    BY <1>1, <1>3, <1>7, <2>1, <2>2, OffsetFacts DEF Shape
  <2>5. Ahead(e, {}, received', sSeq, r)
    <3>1. e <= sSeq
      BY <1>1, <1>2, <1>3, <2>2
    <3>2. ASSUME NEW i \in 1..Len(r), r[i].kind = "chunk" PROVE e <= r[i].seq
      <4>1. k < r[i].seq /\ r[i].seq \in Nat
        BY <1>1, <1>4, <3>2
      <4> HIDE DEF e, r, k
      <4>2. k \in Nat
        BY <1>1
      <4> QED
        BY <2>2, <4>1, <4>2
    <3> QED
      BY <2>4, <3>1, <3>2 DEF Ahead
  <2>6. Closing(e, end, rStatus')
    BY <1>7, <1>8 DEF Closing, Finalize
  <2>7. Whole(e, {}, received', sSeq, sPc, rStatus')
    <3> SUFFICES ASSUME rStatus' = "done"
                 PROVE  received' = Size /\ e = sSeq /\ Ended(sPc)
      BY DEF Whole
    <3>1. end # None /\ e = end + 1 /\ endSeen /\ Offset(e) = Size
      BY <1>7, <1>8 DEF Finalize
    <3> QED
      BY <3>1, <2>4, <1>5, <1>10 DEF Flags
  <2> HIDE DEF e, end, r
  <2> QED
    BY <1>2, <1>7, <1>9, <1>10, <2>3, <2>5, <2>6, <2>7 DEF Assembled, r
<1>12. CASE k # nextSeq
  <2>1. nextSeq < k /\ e = nextSeq
    BY <1>1, <1>2, <1>6, <1>12 DEF Written
  <2>2. pending' \in SUBSET Nat /\ pending' # {}
    <3>1. pending' = {j \in pending \cup {k} : j >= nextSeq} /\ k >= nextSeq
      BY <1>1, <1>2, <1>7, <2>1
    <3>2. k \in pending' /\ k \in Nat
      BY <1>1, <3>1
    <3> HIDE DEF k, e
    <3> QED
      BY <1>2, <3>1, <3>2
  <2>3. ~ (end # None /\ e = end + 1)
    BY <1>1, <1>2, <1>3, <1>10, <2>1
  <2>4. rStatus' = "streaming"
    BY <1>7, <1>8, <2>3 DEF Finalize
  <2>5. Ahead(e, pending', received', sSeq, r)
    <3>1. ASSUME NEW i \in 1..Len(r), r[i].kind = "chunk" PROVE e < r[i].seq
      <4>1. k < r[i].seq /\ r[i].seq \in Nat
        BY <1>1, <1>4, <3>1
      <4> HIDE DEF e, r, k
      <4>2. k \in Nat /\ nextSeq \in Nat
        BY <1>1, <1>2
      <4> QED
        BY <2>1, <4>1, <4>2
    <3>2. e < sSeq
      BY <1>1, <1>2, <1>3, <2>1
    <3> QED
      BY <2>2, <3>1, <3>2 DEF Ahead
  <2>6. Closing(e, end, rStatus') /\ Whole(e, pending', received', sSeq, sPc, rStatus')
    BY <2>3, <2>4 DEF Closing, Whole
  <2>7. e \in Nat
    BY <1>2, <2>1
  <2> HIDE DEF e, end, r
  <2> QED
    BY <1>2, <1>7, <1>9, <1>10, <2>2, <2>5, <2>6, <2>7 DEF Assembled, r
<1> QED
  BY <1>11, <1>12

LEMMA AssembledFinish ==
    ASSUME AssemblyInv, Taking, HandleTransferEnd(Head(toR)), toR # <<>>, toR \in Seq(Messages)
    PROVE  Assembled(nextSeq', pending', received', sSeq, Tail(toR), sPc, lastSeq', endSeen', rStatus')
<1>1. 1 \in 1..Len(toR) /\ toR[1] = Head(toR)
  BY TailFacts
<1>2. Head(toR).kind = "end" /\ endSeen' = TRUE
      /\ UNCHANGED <<nextSeq, pending, received, lastSeq>>
      /\ Finalize(lastSeq # None /\ nextSeq = lastSeq + 1, TRUE)
  BY DEF HandleTransferEnd
<1>3. Assembled(nextSeq, pending, received, sSeq, Tail(toR), sPc, lastSeq, endSeen, rStatus)
  BY AssembledTail DEF AssemblyInv
<1>4. Ended(sPc)
  BY <1>1, <1>2 DEF AssemblyInv, Assembled, Flags
<1>5. Flags(sSeq, Tail(toR), sPc, lastSeq, TRUE)
  BY <1>3, <1>4 DEF Assembled, Flags
<1>6. rStatus = "streaming" /\ rStatus' \in {"streaming", "done"}
  BY <1>2 DEF Taking, Finalize
<1>7. Closing(nextSeq, lastSeq, rStatus')
  BY <1>3, <1>6 DEF Assembled, Closing
<1>8. Whole(nextSeq, pending, received, sSeq, sPc, rStatus')
  <2> SUFFICES ASSUME rStatus' = "done"
               PROVE  received = Size /\ pending = {} /\ nextSeq = sSeq /\ Ended(sPc)
    BY DEF Whole
  <2>1. lastSeq # None /\ nextSeq = lastSeq + 1
    BY <1>2, <1>6 DEF Finalize
  <2>2. nextSeq = sSeq
    BY <1>3, <2>1 DEF Assembled, Flags
  <2>3. pending = {} /\ received = Offset(nextSeq)
    BY <1>3, <2>2 DEF Assembled, Ahead
  <2>4. Offset(nextSeq) = Size
    BY <1>3, <1>6, <2>1 DEF Assembled, Closing
  <2> QED
    BY <1>4, <2>2, <2>3, <2>4
<1> QED
  BY <1>2, <1>3, <1>5, <1>7, <1>8 DEF Assembled

LEMMA NextAssembly == ASSUME Shape, FlowInv, AssemblyInv, [Next]_vars PROVE AssemblyInv'
<1>t. terms' = terms /\ TermsOK /\ sSeq \in Nat /\ toR \in Seq(Messages)
  BY TermsStay DEF Shape, Counters, Queues
<1>a. Assembled(nextSeq, pending, received, sSeq, toR, sPc, lastSeq, endSeen, rStatus)
  BY DEF AssemblyInv
<1> SUFFICES Assembled(nextSeq', pending', received', sSeq', toR', sPc', lastSeq', endSeen', rStatus')
  BY <1>t, AssembledNext
<1>1. CASE /\ UNCHANGED <<nextSeq, pending, received, sSeq, toR, lastSeq, endSeen>>
           /\ Sending(sPc') => Sending(sPc)
           /\ Ended(sPc) => Ended(sPc')
           /\ rStatus' \in {rStatus, "failed"} \/ (rStatus = "offered" /\ rStatus' = "streaming")
  BY <1>1, <1>a, AssembledMoves
<1>2. CASE \/ AcceptTransfer \/ RejectTransfer \/ SenderUnfriends \/ SenderFailsTransfer
           \/ ReceiverUnfriends \/ ReceiverLists \/ ReceiverAborts \/ ReceiveStall
           \/ LoseToSender \/ UNCHANGED vars
  <2>1. /\ UNCHANGED <<nextSeq, pending, received, sSeq, toR, lastSeq, endSeen, sPc>>
        /\ rStatus' \in {rStatus, "failed"} \/ (rStatus = "offered" /\ rStatus' = "streaming")
    BY <1>2 DEF AcceptTransfer, RejectTransfer, SenderUnfriends, SenderFailsTransfer,
       ReceiverUnfriends, ReceiverLists, ReceiverAborts, ReceiveStall, AbortInbound, LoseToSender,
       vars, sender, receiver, assembly
  <2> QED
    BY <2>1, <1>1
<1>3. CASE \/ WaitForWindow \/ CheckAborted \/ Finish \/ FlowControlStall \/ ReadFails
  <2>1. /\ UNCHANGED <<nextSeq, pending, received, sSeq, toR, lastSeq, endSeen, rStatus>>
        /\ Sending(sPc') => Sending(sPc)
        /\ Ended(sPc) => Ended(sPc')
    BY <1>3 DEF WaitForWindow, CheckAborted, Finish, FlowControlStall, ReadFails, Blocked, Fail,
       receiver, assembly, Sending, Ended
  <2> QED
    BY <2>1, <1>1
<1>4. CASE SenderReads
  <2>1. /\ UNCHANGED <<nextSeq, pending, received, sSeq, toR, lastSeq, endSeen, rStatus>>
        /\ sPc' = sPc \/ (sStatus = "awaiting" /\ sPc' = "window")
    BY <1>4 DEF SenderReads, receiver, assembly
  <2>2. sStatus = "awaiting" => sPc = "idle"
    BY DEF Shape, Started
  <2>3. (Sending(sPc') => Sending(sPc)) /\ (Ended(sPc) => Ended(sPc'))
    BY <2>1, <2>2 DEF Sending, Ended
  <2> QED
    BY <2>1, <2>3, <1>1
<1>5. CASE SendChunk
  <2>1. UNCHANGED <<nextSeq, pending, received, lastSeq, endSeen, rStatus>> /\ sPc = "seal"
    BY <1>5 DEF SendChunk, receiver, assembly
  <2>2. CASE sPeer = "friend"
    <3>1. /\ toR' = Append(toR, Chunk(sSeq)) /\ sSeq' = sSeq + 1
          /\ sPc' = IF IsLast(sSeq) THEN "end" ELSE "window"
      BY <1>5, <2>2 DEF SendChunk
    <3>2. Sending(sPc)
      BY <2>1 DEF Sending
    <3> QED
      BY <1>t, <1>a, <2>1, <3>1, <3>2, AssembledSend
  <2>3. CASE sPeer # "friend"
    <3>1. UNCHANGED <<sSeq, toR>> /\ sPc' = "stopped"
      BY <1>5, <2>3 DEF SendChunk, Fail
    <3> QED
      BY <2>1, <3>1, <1>1 DEF Sending, Ended
  <2> QED
    BY <2>2, <2>3
<1>6. CASE SendEnd
  <2>1. UNCHANGED <<nextSeq, pending, received, lastSeq, endSeen, rStatus, sSeq>> /\ sPc = "end"
    BY <1>6 DEF SendEnd, receiver, assembly
  <2>2. \/ toR' = Append(toR, Msg("end")) /\ sPc' = "finish"
        \/ UNCHANGED toR /\ sPc' = "stopped"
    BY <1>6 DEF SendEnd, Fail
  <2>3. Msg("end") \in Messages /\ Msg("end").kind = "end"
    BY <1>t, MsgFacts DEF Kinds
  <2>4. CASE toR' = Append(toR, Msg("end")) /\ sPc' = "finish"
    BY <1>t, <1>a, <2>1, <2>3, <2>4, AssembledEnd
  <2>5. CASE UNCHANGED toR /\ sPc' = "stopped"
    BY <2>1, <2>5, <1>1 DEF Sending, Ended
  <2> QED
    BY <2>2, <2>4, <2>5
<1>7. CASE DiskFails \/ LoseToReceiver
  <2>1. /\ UNCHANGED <<nextSeq, pending, received, sSeq, sPc, lastSeq, endSeen>>
        /\ rStatus' \in {rStatus, "failed"} /\ toR # <<>> /\ toR' = Tail(toR)
    BY <1>7 DEF DiskFails, LoseToReceiver, AbortInbound, sender, receiver, assembly
  <2>2. Assembled(nextSeq, pending, received, sSeq, toR', sPc, lastSeq, endSeen, rStatus)
    BY <1>t, <1>a, <2>1, AssembledTail
  <2> QED
    BY <2>1, <2>2, AssembledMoves
<1>8. CASE ReceiverReads
  <2>1. UNCHANGED <<sSeq, sPc>> /\ toR # <<>> /\ toR' = Tail(toR)
    BY <1>8 DEF ReceiverReads, sender
  <2>2. CASE Taking /\ Head(toR).kind = "chunk" /\ TakeChunk(Head(toR))
    BY <2>1, <2>2, AssembledTake
  <2>3. CASE Taking /\ HandleTransferEnd(Head(toR))
    BY <1>t, <2>1, <2>3, AssembledFinish
  <2>4. CASE UNCHANGED <<nextSeq, pending, received, lastSeq, endSeen>> /\ rStatus' \in {rStatus, "failed"}
    <3>1. Assembled(nextSeq, pending, received, sSeq, toR', sPc, lastSeq, endSeen, rStatus)
      BY <1>t, <1>a, <2>1, AssembledTail
    <3> QED
      BY <2>1, <2>4, <3>1, AssembledMoves
  <2> QED
    BY <1>8, <2>2, <2>3, <2>4 DEF ReceiverReads, HandleChunk, AbortInbound, assembly
<1> QED
  BY <1>2, <1>3, <1>4, <1>5, <1>6, <1>7, <1>8 DEF Next, StreamFile, PeerLeft, Faults

LEMMA Assembling == Spec => []AssemblyInv
  BY InitAssembly, NextAssembly, Shaped, Flowing, PTL DEF Spec

\* The receiver reports success for the whole file only, of the size that was
\* offered and up to the chunk flagged last, whatever was lost on the way,
\* whoever left, and however the file changed under streamFile (writeInOrder,
\* tryFinalize).
THEOREM OnlyWhole == Spec => []WholeFile
<1>1. AssemblyInv => WholeFile
  BY DEF AssemblyInv, Assembled, Whole, Ended, WholeFile
<1> QED
  BY <1>1, Assembling, PTL

-----------------------------------------------------------------------------
(* Type correctness. *)

\* What the invariants above leave open.
Labels ==
    /\ sStatus \in {"awaiting", "streaming", "done", "failed"}
    /\ sPeer \in {"friend", "leaving", "gone"}
    /\ rPeer \in {"friend", "leaving", "listed", "gone"}
    /\ rStatus \in {"offered", "streaming", "done", "failed"}
    /\ sTold \in Seq(Verdicts) /\ rTold \in Seq(Verdicts)

Switches == aborted \in BOOLEAN /\ faulty \in BOOLEAN /\ rListed \in BOOLEAN /\ rAsked \in BOOLEAN

LEMMA InitSwitches == Init => Switches
<1>1. Init => aborted = FALSE /\ faulty = FALSE /\ rListed = TRUE /\ rAsked = TRUE
  BY DEF Init
<1> QED
  BY <1>1, Zenon DEF Switches

LEMMA NextSwitches == ASSUME Switches, [Next]_vars PROVE Switches'
<1>1. aborted' = aborted \/ aborted' = TRUE
  BY DEF Next, AcceptTransfer, RejectTransfer, StreamFile, WaitForWindow, CheckAborted, SendChunk,
     SendEnd, Finish, FlowControlStall, SenderReads, ReceiverReads, ReceiveStall, PeerLeft,
     SenderFailsTransfer, ReceiverLists, ReceiverAborts, Faults, ReadFails, DiskFails, Fail,
     LoseToReceiver, LoseToSender, SenderUnfriends, ReceiverUnfriends, sender, vars
<1>2. faulty' = faulty \/ faulty' = TRUE
  BY DEF Next, AcceptTransfer, RejectTransfer, StreamFile, WaitForWindow, CheckAborted, SendChunk,
     SendEnd, Finish, FlowControlStall, SenderReads, ReceiverReads, ReceiveStall, PeerLeft,
     SenderFailsTransfer, ReceiverLists, ReceiverAborts, Faults, ReadFails, DiskFails,
     LoseToReceiver, LoseToSender, SenderUnfriends, ReceiverUnfriends, vars
<1>3. rListed' = rListed \/ rListed' = FALSE
  <2>1. CASE ReceiverReads
    BY <2>1, ReadsFacts DEF AbortInbound, Finalize
  <2>2. CASE ~ ReceiverReads
    BY <2>2 DEF Next, AcceptTransfer, RejectTransfer, StreamFile, WaitForWindow, CheckAborted,
       SendChunk, SendEnd, Finish, FlowControlStall, SenderReads, ReceiveStall, PeerLeft,
       SenderFailsTransfer, ReceiverLists, ReceiverAborts, Faults, ReadFails, DiskFails, AbortInbound,
       LoseToReceiver, LoseToSender, SenderUnfriends, ReceiverUnfriends, receiver, vars
  <2> QED
    BY <2>1, <2>2
<1>4. rAsked' = rAsked \/ rAsked' = (rPeer # "friend")
  BY DEF Next, AcceptTransfer, RejectTransfer, StreamFile, WaitForWindow, CheckAborted, SendChunk,
     SendEnd, Finish, FlowControlStall, SenderReads, ReceiverReads, ReceiveStall, PeerLeft,
     SenderFailsTransfer, ReceiverLists, ReceiverAborts, Faults, ReadFails, DiskFails,
     LoseToReceiver, LoseToSender, SenderUnfriends, ReceiverUnfriends, receiver, vars
<1>5. (rPeer # "friend") \in BOOLEAN
  OBVIOUS
<1> QED
  BY <1>1, <1>2, <1>3, <1>4, <1>5, Zenon DEF Switches

LEMMA InitLabels == Init => Labels
<1>1. <<>> \in Seq(Verdicts)
  OBVIOUS
<1> QED
  BY <1>1 DEF Init, Labels

LEMMA NextLabels == ASSUME Labels, [Next]_vars PROVE Labels'
<1> USE DEF Labels
<1>v. \A q \in Seq(Verdicts) : Append(q, "failed") \in Seq(Verdicts) /\ Append(q, "complete") \in Seq(Verdicts)
  BY DEF Verdicts
<1>1. CASE AcceptTransfer \/ RejectTransfer
  BY <1>1, <1>v DEF AcceptTransfer, RejectTransfer, sender
<1>f. Fail => /\ sStatus' \in {sStatus, "failed"}
              /\ sTold' \in {sTold, Append(sTold, "failed")}
  BY DEF Fail
<1>2. CASE WaitForWindow \/ CheckAborted
  BY <1>2 DEF WaitForWindow, CheckAborted, receiver
<1>3. CASE SendChunk \/ SendEnd
  <2>1. /\ UNCHANGED <<sPeer, rPeer, rStatus, rTold>>
        /\ Fail \/ UNCHANGED <<sStatus, sTold>>
    BY <1>3 DEF SendChunk, SendEnd, receiver
  <2> QED
    BY <2>1, <1>f, <1>v
<1>4. CASE Finish
  BY <1>4, <1>v DEF Finish, receiver
<1>5. CASE FlowControlStall \/ ReadFails
  <2>1. UNCHANGED <<sPeer, rPeer, rStatus, rTold>> /\ Fail
    BY <1>5 DEF FlowControlStall, ReadFails, receiver
  <2> QED
    BY <2>1, <1>f, <1>v
<1>6. CASE SenderReads \/ SenderUnfriends \/ SenderFailsTransfer
  <2>1. /\ UNCHANGED <<rPeer, rStatus, rTold>>
        /\ sStatus' \in {sStatus, "streaming", "failed"}
        /\ sPeer' \in {sPeer, "leaving", "gone"}
        /\ sTold' \in {sTold, Append(sTold, "failed")}
    <3>1. CASE SenderReads
      BY <3>1 DEF SenderReads, receiver
    <3>2. CASE SenderUnfriends \/ SenderFailsTransfer
      BY <3>2 DEF SenderUnfriends, SenderFailsTransfer, receiver
    <3> QED
      BY <1>6, <3>1, <3>2
  <2> QED
    BY <2>1, <1>v
<1>7. CASE ReceiverReads
  <2>1. UNCHANGED <<sender, rAsked, rPeer, faulty>>
    BY <1>7 DEF ReceiverReads
  <2>2. CASE UNCHANGED <<rStatus, rListed, rTold>>
    BY <2>1, <2>2 DEF sender
  <2>3. CASE AbortInbound
    BY <2>1, <2>3, <1>v DEF AbortInbound, sender
  <2>4. CASE \E c, e : Finalize(c, e)
    BY <2>1, <2>4, <1>v DEF Finalize, sender
  <2> QED
    BY <1>7, <2>2, <2>3, <2>4, ReadsFacts
<1>8. CASE DiskFails \/ ReceiveStall \/ ReceiverAborts
  BY <1>8, <1>v DEF DiskFails, ReceiveStall, ReceiverAborts, AbortInbound, sender
<1>9. CASE ReceiverUnfriends \/ ReceiverLists \/ LoseToReceiver \/ LoseToSender \/ UNCHANGED vars
  BY <1>9 DEF ReceiverUnfriends, ReceiverLists, LoseToReceiver, LoseToSender, vars, sender, receiver
<1> QED
  BY <1>1, <1>2, <1>3, <1>4, <1>5, <1>6, <1>7, <1>8, <1>9 DEF Next, StreamFile, PeerLeft, Faults

\* Every variable of a transfer keeps its shape; the counters of both sides
\* and the window (outboundTransfer, inboundTransfer) are never negative.
THEOREM TypeCorrect == Spec => []TypeOK
<1>1. Shape /\ AssemblyInv /\ Labels /\ Switches => TypeOK
  BY Zenon DEF Shape, TermsOK, Counters, Started, AssemblyInv, Assembled, Labels, Switches, TypeOK
<1>2. Spec => []Labels
  BY InitLabels, NextLabels, PTL DEF Spec
<1>3. Spec => []Switches
  BY InitSwitches, NextSwitches, PTL DEF Spec
<1> QED
  BY <1>1, <1>2, <1>3, Shaped, Assembling, PTL

-----------------------------------------------------------------------------
(* The flow control cannot get stuck. *)

\* Nothing is streamed before the accept.
OfferedInv ==
    rStatus = "offered" =>
        /\ sPc = "idle" /\ toR = <<>>
        /\ \A i \in 1..Len(toS) : toS[i].kind # "accept"

FriendsInv == ~ faulty => sPeer = "friend" /\ rPeer = "friend"

\* No ack is owed: another quarter of the window was not taken yet.
QuarterInv == rListed => ~ ShouldAck(received, lastAcked, window)

LEMMA Threshold == ASSUME NEW w \in Nat PROVE AckThreshold(w) \in Nat
  BY DEF AckThreshold

LEMMA InitSteady == Init => OfferedInv /\ FriendsInv /\ QuarterInv
<1> SUFFICES ASSUME Init PROVE OfferedInv /\ FriendsInv /\ QuarterInv
  OBVIOUS
<1>1. /\ sPc = "idle" /\ toR = <<>> /\ toS = <<>> /\ sPeer = "friend" /\ rPeer = "friend"
      /\ received = 0 /\ lastAcked = 0
  BY DEF Init
<1>2. AckThreshold(window) \in Nat
  BY InitTerms, Threshold DEF TermsOK, window
<1>3. ~ ShouldAck(0, 0, window)
  BY <1>2 DEF ShouldAck
<1> QED
  BY <1>1, <1>3 DEF OfferedInv, FriendsInv, QuarterInv

LEMMA NextOffered == ASSUME Shape, OfferedInv, [Next]_vars PROVE OfferedInv'
<1> SUFFICES ASSUME rStatus' = "offered" PROVE OfferedInv'
  BY DEF OfferedInv
<1>t. toS \in Seq(Messages) /\ TermsOK
  BY DEF Shape, Queues
<1>0. rStatus = "offered" /\ ~ Taking
  <2>1. CASE ReceiverReads
    BY <2>1, ReadsFacts DEF AbortInbound, Finalize, Taking, ReceiverReads
  <2>2. CASE ~ ReceiverReads
    BY <2>2 DEF Next, AcceptTransfer, RejectTransfer, StreamFile, WaitForWindow, CheckAborted,
       SendChunk, SendEnd, Finish, FlowControlStall, SenderReads, ReceiveStall, PeerLeft,
       SenderFailsTransfer, ReceiverLists, ReceiverAborts, Faults, ReadFails, DiskFails, AbortInbound,
       LoseToReceiver, LoseToSender, SenderUnfriends, ReceiverUnfriends, receiver, vars, Taking
  <2> QED
    BY <2>1, <2>2
<1>1. sPc = "idle" /\ toR = <<>> /\ \A i \in 1..Len(toS) : toS[i].kind # "accept"
  BY <1>0 DEF OfferedInv
<1>2. CASE RejectTransfer
  <2>1. toS' = toS \/ toS' = Append(toS, Msg("reject"))
    BY <1>2 DEF RejectTransfer, SendToS
  <2>2. UNCHANGED <<sPc, toR>>
    BY <1>2 DEF RejectTransfer, sender
  <2>3. Msg("reject") \in Messages /\ Msg("reject").kind = "reject"
    BY <1>t, MsgFacts DEF Kinds
  <2>4. CASE toS' = Append(toS, Msg("reject"))
    <3>1. /\ Len(toS) \in Nat /\ Len(toS') = Len(toS) + 1 /\ toS'[Len(toS) + 1] = Msg("reject")
          /\ \A i \in 1..Len(toS) : toS'[i] = toS[i]
      BY <1>t, <2>3, <2>4, AppendFacts
    <3>2. \A i \in 1..Len(toS') : toS'[i].kind # "accept"
      BY <1>1, <2>3, <3>1
    <3> QED
      BY <1>1, <2>2, <3>2 DEF OfferedInv
  <2>5. CASE toS' = toS
    BY <1>1, <2>2, <2>5 DEF OfferedInv
  <2> QED
    BY <2>1, <2>4, <2>5
<1>3. CASE SenderReads \/ LoseToSender
  <2>1. toS # <<>> /\ toS' = Tail(toS)
    BY <1>3 DEF SenderReads, LoseToSender
  <2>2. \A i \in 1..Len(toS') : i + 1 \in 1..Len(toS) /\ toS'[i] = toS[i + 1]
    BY <1>t, <2>1, TailFacts
  <2>3. Head(toS).kind # "accept"
    BY <1>t, <1>1, <2>1, TailFacts
  <2>4. UNCHANGED <<sPc, toR>>
    BY <1>3, <2>3 DEF SenderReads, LoseToSender, sender
  <2> QED
    BY <1>1, <2>2, <2>4 DEF OfferedInv
<1>4. CASE UNCHANGED <<sPc, toR, toS>>
  BY <1>1, <1>4 DEF OfferedInv
<1>5. RejectTransfer \/ SenderReads \/ LoseToSender \/ UNCHANGED <<sPc, toR, toS>>
  BY <1>0, <1>1 DEF Next, AcceptTransfer, StreamFile, WaitForWindow, CheckAborted, SendChunk, SendEnd,
     Finish, FlowControlStall, Blocked, ReceiverReads, ReceiveStall, PeerLeft, SenderFailsTransfer,
     ReceiverLists, ReceiverAborts, Faults, ReadFails, DiskFails, LoseToReceiver,
     SenderUnfriends, ReceiverUnfriends, sender, vars
<1> QED
  BY <1>2, <1>3, <1>4, <1>5

LEMMA NextFriends == ASSUME FriendsInv, [Next]_vars PROVE FriendsInv'
  BY DEF FriendsInv, Next, AcceptTransfer, RejectTransfer, StreamFile, WaitForWindow, CheckAborted,
     SendChunk, SendEnd, Finish, FlowControlStall, SenderReads, ReceiverReads, ReceiveStall, PeerLeft,
     SenderFailsTransfer, ReceiverLists, ReceiverAborts, Faults, ReadFails, DiskFails,
     LoseToReceiver, LoseToSender, SenderUnfriends, ReceiverUnfriends, sender, receiver, vars

LEMMA NextQuarter == ASSUME Shape, QuarterInv, [Next]_vars PROVE QuarterInv'
<1> SUFFICES ASSUME rListed' PROVE ~ ShouldAck(received', lastAcked', window')
  BY DEF QuarterInv
<1>1. window' = window /\ window \in Nat /\ received \in Nat
  BY TermsStay DEF window, Shape, TermsOK, Counters
<1>2. CASE ReceiverReads /\ Taking /\ HandleChunk(Head(toR)) /\ TakeChunk(Head(toR))
  <2>1. Head(toR) \in Messages
    BY <1>2, TailFacts DEF ReceiverReads, Shape, Queues
  <2>2. received' = received + Head(toR).n /\ received' \in Nat
    BY <1>1, <1>2, <2>1 DEF TakeChunk, Messages
  <2>3. lastAcked' = IF ShouldAck(received', lastAcked, window) THEN received' ELSE lastAcked
    BY <1>2, <2>2 DEF TakeChunk, AbortInbound
  <2>4. ~ ShouldAck(received', received', window)
    BY <1>1, <2>2, Threshold DEF ShouldAck
  <2> QED
    BY <1>1, <2>3, <2>4
<1>3. CASE UNCHANGED <<received, lastAcked>> /\ rListed
  BY <1>1, <1>3 DEF QuarterInv
<1>4. \/ ReceiverReads /\ Taking /\ HandleChunk(Head(toR)) /\ TakeChunk(Head(toR))
      \/ UNCHANGED <<received, lastAcked>> /\ rListed
  <2>1. CASE ReceiverReads
    BY <2>1 DEF ReceiverReads, HandleChunk, HandleTransferEnd, AbortInbound, Taking, assembly
  <2>2. CASE ~ ReceiverReads
    BY <2>2 DEF Next, AcceptTransfer, RejectTransfer, StreamFile, WaitForWindow, CheckAborted,
       SendChunk, SendEnd, Finish, FlowControlStall, SenderReads, ReceiveStall, PeerLeft,
       SenderFailsTransfer, ReceiverLists, ReceiverAborts, Faults, ReadFails, DiskFails, AbortInbound,
       LoseToReceiver, LoseToSender, SenderUnfriends, ReceiverUnfriends, receiver, assembly, vars
  <2> QED
    BY <2>1, <2>2
<1> QED
  BY <1>2, <1>3, <1>4

\* While nothing failed, what is on its way are the chunks that the receiver
\* has yet to take, all of them and in order.
InOrder(next, held, seq, q) ==
    /\ next \in Nat /\ held = {}
    /\ next + Len(q) = seq
    /\ \A i \in 1..Len(q) : q[i].kind = "chunk" /\ q[i].seq + 1 = next + i

Streaming == ~ faulty /\ rListed /\ rStatus = "streaming"

InOrderInv == Streaming /\ Sending(sPc) => InOrder(nextSeq, pending, sSeq, toR)

\* The sender has the receiver's last ack, or it is the last thing on its way.
LastAck(q, heard, acked) ==
    heard = acked \/ (Len(q) > 0 /\ q[Len(q)].kind = "ack" /\ q[Len(q)].n = acked)

LastAckInv == Streaming /\ window > 0 => LastAck(toS, lastAck, lastAcked)

LEMMA InitInOrder == Init => InOrderInv /\ LastAckInv
  BY DEF Init, InOrderInv, LastAckInv, Streaming

\* Before the accept every counter is at its start.
LEMMA Untouched ==
    ASSUME Shape, FlowInv, AssemblyInv, OfferedInv, rStatus = "offered"
    PROVE  /\ sSeq = 0 /\ nextSeq = 0 /\ pending = {} /\ toR = <<>>
           /\ lastAck = 0 /\ lastAcked = 0 /\ received = 0
<1>1. sSeq = 0 /\ toR = <<>>
  BY DEF OfferedInv, Shape, Started
<1>2. nextSeq = 0 /\ pending = {}
  BY <1>1 DEF AssemblyInv, Assembled, Ahead
<1>3. sent = 0
  BY <1>1, OffsetFacts DEF FlowInv, Flow, Shape
<1> QED
  BY <1>1, <1>2, <1>3 DEF FlowInv, Flow, Shape, Counters

LEMMA NextInOrder ==
    ASSUME Shape, FlowInv, AssemblyInv, OfferedInv, FriendsInv, InOrderInv, [Next]_vars
    PROVE  InOrderInv'
<1> SUFFICES ASSUME ~ faulty', rListed', rStatus' = "streaming", Sending(sPc')
             PROVE  InOrder(nextSeq', pending', sSeq', toR')
  BY DEF InOrderInv, Streaming, Sending
<1>t. toR \in Seq(Messages) /\ TermsOK /\ sSeq \in Nat
  BY DEF Shape, Queues, Counters
<1>n. ~ faulty
  BY DEF Next, AcceptTransfer, RejectTransfer, StreamFile, WaitForWindow, CheckAborted,
     SendChunk, SendEnd, Finish, FlowControlStall, SenderReads, ReceiverReads, ReceiveStall, PeerLeft,
     SenderFailsTransfer, ReceiverLists, ReceiverAborts, Faults, ReadFails, DiskFails,
     LoseToReceiver, LoseToSender, SenderUnfriends, ReceiverUnfriends, vars
<1>s. Sending(sPc)
  <2>1. sStatus = "awaiting" => sPc = "idle"
    BY DEF Shape, Started
  <2> QED
    BY <2>1 DEF Sending, Next, AcceptTransfer, RejectTransfer, StreamFile, WaitForWindow, CheckAborted,
       SendChunk, SendEnd, Finish, Fail, FlowControlStall, SenderReads, ReceiverReads, ReceiveStall,
       PeerLeft, SenderFailsTransfer, ReceiverLists, ReceiverAborts, Faults, ReadFails, DiskFails,
       LoseToReceiver, LoseToSender, SenderUnfriends, ReceiverUnfriends, sender, vars
<1>1. CASE AcceptTransfer
  <2>1. rStatus = "offered" /\ UNCHANGED <<nextSeq, pending, sSeq, toR>>
    BY <1>1 DEF AcceptTransfer, sender, assembly
  <2> QED
    BY <2>1, Untouched DEF InOrder
<1>2. CASE SendChunk
  <2>1. UNCHANGED <<nextSeq, pending, faulty, rListed, rStatus>>
    BY <1>2 DEF SendChunk, receiver, assembly
  <2>2. InOrder(nextSeq, pending, sSeq, toR)
    BY <1>n, <1>s, <2>1 DEF InOrderInv, Streaming
  <2>3. toR' = Append(toR, Chunk(sSeq)) /\ sSeq' = sSeq + 1
    BY <1>2 DEF SendChunk, Fail, Sending
  <2>4. Chunk(sSeq) \in Messages /\ Chunk(sSeq).kind = "chunk" /\ Chunk(sSeq).seq = sSeq
    BY <1>t, MsgFacts
  <2>5. /\ Len(toR) \in Nat /\ Len(toR') = Len(toR) + 1 /\ toR'[Len(toR) + 1] = Chunk(sSeq)
        /\ \A i \in 1..Len(toR) : toR'[i] = toR[i]
    BY <1>t, <2>3, <2>4, AppendFacts
  <2>6. nextSeq \in Nat /\ pending = {} /\ nextSeq + Len(toR) = sSeq
    BY <2>2 DEF InOrder
  <2>7. ASSUME NEW i \in 1..Len(toR')
        PROVE  toR'[i].kind = "chunk" /\ toR'[i].seq + 1 = nextSeq + i
    <3>1. CASE i = Len(toR) + 1
      BY <2>4, <2>5, <2>6, <3>1
    <3>2. CASE i \in 1..Len(toR)
      BY <2>2, <2>5, <3>2 DEF InOrder
    <3> QED
      BY <2>5, <3>1, <3>2
  <2>8. nextSeq + Len(toR') = sSeq'
    BY <2>3, <2>5, <2>6
  <2> QED
    BY <2>1, <2>6, <2>7, <2>8 DEF InOrder
<1>3. CASE ReceiverReads
  <2>1. UNCHANGED <<sSeq, faulty, rPeer>> /\ toR # <<>> /\ toR' = Tail(toR)
    BY <1>3 DEF ReceiverReads, sender
  <2>2. rListed /\ rStatus = "streaming" /\ ~ AbortInbound
    BY <1>3, ReadsFacts DEF AbortInbound, Finalize
  <2>3. Taking
    BY <1>n, <2>2 DEF Taking, FriendsInv
  <2>4. InOrder(nextSeq, pending, sSeq, toR)
    BY <1>n, <1>s, <2>2 DEF InOrderInv, Streaming
  <2>5. /\ Len(toR) \in Nat \ {0} /\ Len(toR') = Len(toR) - 1 /\ Head(toR) = toR[1]
        /\ \A i \in 1..(Len(toR) - 1) : toR'[i] = toR[i + 1]
        /\ toR[1] \in Messages
    BY <1>t, <2>1, TailFacts
  <2>6. /\ Head(toR).kind = "chunk" /\ Head(toR).seq = nextSeq
        /\ nextSeq \in Nat /\ pending = {} /\ nextSeq + Len(toR) = sSeq
    <3>1. 1 \in 1..Len(toR) /\ toR[1].seq \in Nat
      BY <2>5 DEF Messages
    <3>2. toR[1].kind = "chunk" /\ toR[1].seq + 1 = nextSeq + 1 /\ nextSeq \in Nat
      BY <2>4, <3>1 DEF InOrder
    <3> QED
      BY <2>4, <2>5, <3>1, <3>2 DEF InOrder
  <2>7. TakeChunk(Head(toR))
    <3>1. HandleChunk(Head(toR))
      BY <1>3, <2>3, <2>6 DEF ReceiverReads, HandleTransferEnd
    <3>2. ~ Duplicate(Head(toR))
      BY <2>6 DEF Duplicate
    <3> QED
      BY <2>2, <3>1, <3>2 DEF HandleChunk
  <2>8. nextSeq' = nextSeq + 1 /\ pending' = {}
    <3>1. Written(Head(toR).seq, pending) = nextSeq + 1
      BY <2>6, WrittenNext
    <3>2. nextSeq' = nextSeq + 1 /\ pending' = {k \in {nextSeq} : k >= nextSeq + 1}
      BY <2>6, <2>7, <3>1 DEF TakeChunk
    <3> QED
      BY <2>6, <3>2
  <2>9. ASSUME NEW i \in 1..Len(toR')
        PROVE  toR'[i].kind = "chunk" /\ toR'[i].seq + 1 = nextSeq' + i
    <3>1. i + 1 \in 1..Len(toR) /\ toR'[i] = toR[i + 1] /\ i \in Nat
      BY <2>5
    <3>2. toR[i + 1].kind = "chunk" /\ toR[i + 1].seq + 1 = nextSeq + (i + 1)
      BY <2>4, <3>1 DEF InOrder
    <3>3. nextSeq + (i + 1) = nextSeq' + i
      BY <2>6, <2>8, <3>1
    <3> QED
      BY <3>1, <3>2, <3>3
  <2>10. nextSeq' \in Nat /\ nextSeq' + Len(toR') = sSeq'
    BY <2>1, <2>5, <2>6, <2>8
  <2> QED
    BY <2>8, <2>9, <2>10 DEF InOrder
<1>4. CASE UNCHANGED <<nextSeq, pending, sSeq, toR, rListed, rStatus>>
  BY <1>n, <1>s, <1>4 DEF InOrderInv, Streaming
<1>5. AcceptTransfer \/ SendChunk \/ ReceiverReads \/ UNCHANGED <<nextSeq, pending, sSeq, toR, rListed, rStatus>>
  BY DEF Next, RejectTransfer, StreamFile, WaitForWindow, CheckAborted, SendEnd, Finish,
     Fail, FlowControlStall, SenderReads, ReceiveStall, PeerLeft, SenderFailsTransfer, ReceiverLists,
     ReceiverAborts, AbortInbound, Faults, ReadFails, DiskFails, LoseToReceiver, LoseToSender,
     SenderUnfriends, ReceiverUnfriends, sender, receiver, assembly, vars, Sending
<1> QED
  BY <1>1, <1>2, <1>3, <1>4, <1>5

LEMMA NextLastAck ==
    ASSUME Shape, FlowInv, AssemblyInv, OfferedInv, FriendsInv, LastAckInv, [Next]_vars
    PROVE  LastAckInv'
<1>t. toS \in Seq(Messages) /\ TermsOK /\ window' = window /\ lastAck \in Nat /\ lastAcked \in Nat
  BY TermsStay DEF Shape, Queues, Counters, window
<1> SUFFICES ASSUME ~ faulty', rListed', rStatus' = "streaming", window > 0
             PROVE  LastAck(toS', lastAck', lastAcked')
  BY <1>t DEF LastAckInv, Streaming
<1>n. ~ faulty
  BY DEF Next, AcceptTransfer, RejectTransfer, StreamFile, WaitForWindow, CheckAborted,
     SendChunk, SendEnd, Finish, FlowControlStall, SenderReads, ReceiverReads, ReceiveStall, PeerLeft,
     SenderFailsTransfer, ReceiverLists, ReceiverAborts, Faults, ReadFails, DiskFails,
     LoseToReceiver, LoseToSender, SenderUnfriends, ReceiverUnfriends, vars
<1>1. CASE AcceptTransfer
  <2>1. rStatus = "offered" /\ UNCHANGED <<lastAck, lastAcked>>
    BY <1>1 DEF AcceptTransfer, sender, assembly
  <2> QED
    BY <2>1, Untouched DEF LastAck
<1>2. CASE SenderReads
  <2>1. /\ UNCHANGED <<lastAcked, rListed, rStatus>> /\ toS # <<>> /\ toS' = Tail(toS)
        /\ sPeer = "friend"
    BY <1>n, <1>2 DEF SenderReads, receiver, assembly, FriendsInv
  <2>2. LastAck(toS, lastAck, lastAcked)
    BY <1>n, <2>1 DEF LastAckInv, Streaming
  <2>3. /\ Len(toS) \in Nat \ {0} /\ Len(toS') = Len(toS) - 1 /\ Head(toS) = toS[1]
        /\ \A i \in 1..(Len(toS) - 1) : toS'[i] = toS[i + 1]
        /\ Head(toS) \in Messages
    BY <1>t, <2>1, TailFacts
  <2>4. lastAck <= lastAcked /\ (Head(toS).kind = "ack" => Head(toS).n <= lastAcked)
    BY <2>3 DEF FlowInv, Flow
  <2>5. /\ Head(toS).kind = "ack" => lastAck' = IF Head(toS).n >= lastAck THEN Head(toS).n ELSE lastAck
        /\ Head(toS).kind # "ack" => lastAck' = lastAck
    <3>1. Head(toS).n \in Nat /\ window \in Nat /\ ~ (window <= 0)
      BY <1>t, <2>3 DEF Messages, TermsOK, window
    <3>2. CASE Head(toS).kind # "ack"
      BY <1>2, <3>2 DEF SenderReads
    <3>3. CASE Head(toS).kind = "ack" /\ Head(toS).n >= lastAck
      <4>1. ~ (Head(toS).n < lastAck)
        BY <1>t, <3>1, <3>3
      <4> QED
        BY <1>2, <2>1, <3>1, <3>3, <4>1 DEF SenderReads
    <3>4. CASE Head(toS).kind = "ack" /\ ~ (Head(toS).n >= lastAck)
      BY <1>2, <2>1, <3>4 DEF SenderReads
    <3> QED
      BY <3>2, <3>3, <3>4
  <2>6. Head(toS).n \in Nat
    BY <2>3 DEF Messages
  <2>7. CASE lastAck = lastAcked
    <3>1. lastAck' = lastAcked
      BY <2>4, <2>5, <2>6, <2>7, <1>t
    <3> QED
      BY <2>1, <3>1 DEF LastAck
  <2>8. CASE lastAck # lastAcked /\ Len(toS) = 1
    <3>1. Head(toS).kind = "ack" /\ Head(toS).n = lastAcked
      BY <2>2, <2>3, <2>8 DEF LastAck
    <3>2. lastAck' = lastAcked
      BY <2>4, <2>5, <3>1, <1>t
    <3> QED
      BY <2>1, <3>2 DEF LastAck
  <2>9. CASE lastAck # lastAcked /\ Len(toS) # 1
    <3>1. Len(toS) > 1 /\ toS'[Len(toS')] = toS[Len(toS)] /\ Len(toS') > 0
      BY <2>3, <2>9
    <3>2. toS[Len(toS)].kind = "ack" /\ toS[Len(toS)].n = lastAcked
      BY <2>2, <2>9 DEF LastAck
    <3> QED
      BY <2>1, <3>1, <3>2 DEF LastAck
  <2> QED
    BY <2>7, <2>8, <2>9
<1>3. CASE ReceiverReads /\ TakeChunk(Head(toR)) /\ Taking
  <2>1. Head(toR) \in Messages /\ lastAck' = lastAck
    BY <1>3, TailFacts DEF ReceiverReads, sender, Shape, Queues
  <2>2. rListed /\ rStatus = "streaming" /\ rPeer = "friend"
    BY <1>3 DEF Taking
  <2>3. LastAck(toS, lastAck, lastAcked)
    BY <1>n, <2>2 DEF LastAckInv, Streaming
  <2>4. received' = received + Head(toR).n /\ received' \in Nat
    BY <1>3, <2>1 DEF TakeChunk, Messages, Shape, Counters
  <2>5. \/ UNCHANGED <<lastAcked, toS>>
        \/ lastAcked' = received' /\ toS' = Append(toS, Ack(received'))
    BY <1>3, <2>2, <2>4 DEF TakeChunk, AbortInbound, SendToS
  <2>6. CASE UNCHANGED <<lastAcked, toS>>
    BY <2>1, <2>3, <2>6
  <2>7. CASE lastAcked' = received' /\ toS' = Append(toS, Ack(received'))
    <3>1. Ack(received') \in Messages /\ Ack(received').kind = "ack" /\ Ack(received').n = received'
      BY <1>t, <2>4, MsgFacts
    <3>2. Len(toS) \in Nat /\ Len(toS') = Len(toS) + 1 /\ toS'[Len(toS) + 1] = Ack(received')
      BY <1>t, <2>7, <3>1, AppendFacts
    <3>3. Len(toS') > 0 /\ toS'[Len(toS')] = Ack(received')
      BY <3>2
    <3> QED
      BY <2>7, <3>1, <3>3 DEF LastAck
  <2> QED
    BY <2>5, <2>6, <2>7
<1>4. CASE UNCHANGED <<lastAck, lastAcked, toS, rListed, rStatus>>
  BY <1>n, <1>4 DEF LastAckInv, Streaming
<1>5. \/ AcceptTransfer \/ SenderReads
      \/ ReceiverReads /\ TakeChunk(Head(toR)) /\ Taking
      \/ UNCHANGED <<lastAck, lastAcked, toS, rListed, rStatus>>
  <2>1. CASE ReceiverReads
    BY <2>1 DEF ReceiverReads, HandleChunk, HandleTransferEnd, AbortInbound, Finalize, sender, assembly
  <2>2. CASE ~ ReceiverReads
    BY <2>2 DEF Next, RejectTransfer, StreamFile, WaitForWindow, CheckAborted, SendChunk, SendEnd,
       Finish, Fail, FlowControlStall, ReceiveStall, PeerLeft, SenderFailsTransfer, ReceiverLists,
       ReceiverAborts, AbortInbound, Faults, ReadFails, DiskFails, LoseToReceiver, LoseToSender,
       SenderUnfriends, ReceiverUnfriends, sender, receiver, assembly, vars
  <2> QED
    BY <2>1, <2>2
<1> QED
  BY <1>1, <1>2, <1>3, <1>4, <1>5

\* A window is a window of at least two chunks.
WindowTerms == window \in Nat /\ (window > 0 => window >= 2 * chunkSize)

LEMMA InitWindowTerms == Init => WindowTerms
<1> SUFFICES ASSUME NEW s \in Nat, NEW f \in Nat, NEW r \in Nat, NEW w \in Nat,
                    terms = Terms(s, f, r, w), TermsOK
             PROVE  WindowTerms
  BY TransferAssumption, InitTerms DEF Init
<1>1. PICK c : terms = [size |-> s, file |-> f, chunk |-> c, window |-> EffectiveWindow(w, c)]
  BY DEF Terms
<1>2. c \in Nat /\ chunkSize = c /\ window = EffectiveWindow(w, c) /\ window \in Nat
  BY <1>1 DEF TermsOK, chunkSize, window
<1> QED
  BY <1>2 DEF WindowTerms, EffectiveWindow

LEMMA NextWindowTerms == ASSUME WindowTerms, [Next]_vars PROVE WindowTerms'
  BY TermsStay DEF WindowTerms, window, chunkSize

LEMMA StuckNever ==
    ASSUME Shape, FlowInv, AssemblyInv, QuarterInv, InOrderInv, LastAckInv, WindowTerms,
           Blocked, ~ faulty, Taking, toR = <<>>, toS = <<>>
    PROVE  FALSE
<1>1. /\ Streaming /\ sPc = "window" /\ rListed /\ window > 0
      /\ WindowFull(sent + LengthOf(sSeq), lastAck, window)
  BY DEF Streaming, Taking, Blocked, WindowFull
<1>2. nextSeq = sSeq /\ pending = {}
  <2>1. InOrder(nextSeq, pending, sSeq, toR) /\ Len(toR) = 0
    BY <1>1 DEF InOrderInv, Sending
  <2> QED
    BY <2>1 DEF InOrder
<1>3. received = sent
  BY <1>2 DEF FlowInv, Flow, AssemblyInv, Assembled, Ahead
<1>4. lastAck = lastAcked
  <2>1. LastAck(toS, lastAck, lastAcked) /\ Len(toS) = 0
    BY <1>1 DEF LastAckInv
  <2> QED
    BY <2>1 DEF LastAck
<1>5. ~ ShouldAck(received, lastAck, window)
  BY <1>1, <1>4 DEF QuarterInv
<1>6. window \in Int /\ chunkSize \in Nat /\ chunkSize >= ChunkDataSize /\ window >= 2 * chunkSize
  BY <1>1 DEF WindowTerms, Shape, TermsOK, chunkSize
<1>7. EffectiveWindow(window, chunkSize) = window
  BY <1>1, <1>6 DEF EffectiveWindow
<1>8. LengthOf(sSeq) \in Nat /\ LengthOf(sSeq) <= chunkSize
  <2>1. LengthOf(sSeq) \in Nat
    BY OffsetFacts DEF Shape, Counters
  <2>2. LengthOf(sSeq) = 0 \/ LengthOf(sSeq) = Least(chunkSize, fileSize - sSeq * chunkSize)
    BY DEF LengthOf
  <2>3. sSeq * chunkSize \in Nat /\ fileSize \in Nat
    BY <1>6 DEF Shape, Counters, TermsOK, fileSize
  <2> QED
    BY <1>6, <2>1, <2>2, <2>3 DEF Least
<1>9. received \in Nat /\ lastAck \in Nat /\ lastAck <= received
  BY <1>4 DEF Shape, Counters, FlowInv, Flow
<1>10. ~ WindowFull(received + LengthOf(sSeq), lastAck, window)
  BY <1>5, <1>6, <1>7, <1>8, <1>9, WindowOpens
<1> QED
  BY <1>1, <1>3, <1>10

\* As long as nothing failed and the receiver takes chunks, a sender that
\* waits for the window has something on its way that will move it: the
\* acks of handleChunk, one per quarter of the window, and the floor of two
\* chunks of EffectiveWindow never leave waitForWindow waiting for nothing.
THEOREM NotStuck == Spec => []NeverStuck
<1>1. Spec => [](OfferedInv /\ FriendsInv /\ QuarterInv /\ InOrderInv /\ LastAckInv /\ WindowTerms)
  <2> DEFINE I == OfferedInv /\ FriendsInv /\ QuarterInv /\ InOrderInv /\ LastAckInv /\ WindowTerms
  <2>1. Init => I
    BY InitSteady, InitInOrder, InitWindowTerms
  <2>2. Shape /\ FlowInv /\ AssemblyInv /\ I /\ [Next]_vars => I'
    BY NextOffered, NextFriends, NextQuarter, NextInOrder, NextLastAck, NextWindowTerms
  <2> HIDE DEF I
  <2>3. Spec => []I
    BY <2>1, <2>2, Shaped, Flowing, Assembling, PTL DEF Spec
  <2> QED
    BY <2>3, PTL DEF I
<1>2. Shape /\ FlowInv /\ AssemblyInv /\ QuarterInv /\ InOrderInv /\ LastAckInv /\ WindowTerms => NeverStuck
  BY StuckNever DEF NeverStuck
<1> QED
  BY <1>1, <1>2, Shaped, Flowing, Assembling, PTL
=============================================================================
