------------------------- MODULE PortalReceiveProofs -------------------------
(***************************************************************************)
(* What holds of receiving in the portal for files, windows and chunks of  *)
(* any size: a receive is a TransferLifecycle, it is done only with the    *)
(* whole file, its sender is not kept waiting for an ack that nobody owes, *)
(* and in memory it is aborted only for a cause outside the receiver.      *)
(***************************************************************************)
EXTENDS PortalReceive, FiniteSetTheorems, SequenceTheorems, TLAPS

Offer == Frame("offer", 0)

\* The list and what is rendered of it are entries; a transfer that is not
\* heard of yet is in neither, and one that was rendered as settled stays
\* settled.  A receive to disk has no assembler on the main thread and is not
\* done, one in memory does not use the worker.
ListInv ==
    /\ state \in Transfers /\ shown \in Transfers
    /\ Offer \in wire => state.status = "none" /\ shown.status = "none"
    /\ shown.status \in Settled => state.status \in Settled \cup {"none"}
    /\ disk => asm = NoAsm /\ state.status # "done"
    /\ ~ disk => toWorker = <<>> /\ toMain = <<>>

\* What may happen to the status of a transfer that was heard of.
Moves(from, to) ==
    \/ from = to
    \/ from = "offered" /\ to \in {"streaming", "none", "aborted"}
    \/ from = "streaming" /\ to \in {"done", "aborted"}
    \/ from \in Settled /\ to = "none"

\* The effect of a step on the list.
Listed ==
    /\ state' \in Transfers
    /\ shown' \in {shown, state'}
    /\ \/ Offer \in wire /\ Offer \notin wire' /\ state'.status \in {"none", "offered"}
          /\ shown' = shown
       \/ (Offer \in wire <=> Offer \in wire') /\ Moves(state.status, state'.status)

LEMMA InitList == Init => ListInv
  BY DEF Init, ListInv, Offer, Transfers, Entry, Statuses, Settled

LEMMA MovedFacts ==
    ASSUME NEW t \in Transfers, NEW from, NEW s \in Statuses
    PROVE  /\ Moved(t, from, s) \in Transfers
           /\ Moved(t, from, s).status = IF t.status \in from THEN s ELSE t.status
  BY DEF Moved, Entry, Transfers

LEMMA EntryFacts == \A s \in Statuses : Entry(s) \in Transfers /\ Entry(s).status = s
  BY DEF Entry, Transfers

LEMMA LinkedFacts ==
    ASSUME state \in Transfers
    PROVE  Linked(state) \in Transfers /\ Linked(state).status = state.status
  BY DEF Linked, Transfers

LEMMA ArriveFacts ==
    ASSUME NEW f, Arrive(f), f.kind # "offer"
    PROVE  /\ shown' = shown /\ ref' = ref /\ disk' = disk /\ toMain' = toMain
           /\ Offer \in wire <=> Offer \in wire'
  BY DEF Arrive, Offer, Frame

LEMMA StepOfList == ASSUME ListInv, [Next]_vars PROVE Listed
<1> USE DEF ListInv
<1> DEFINE St == {"none", "offered", "streaming", "done", "aborted"}
<1>s. Statuses = St /\ Settled = {"done", "aborted"}
  BY DEF Statuses, Settled
<1>f. /\ \A k, n : Frame(k, n).kind = k
      /\ Offer.kind = "offer"
  BY DEF Frame, Offer
<1>1. CASE TransferOffer
  BY <1>1, <1>s, EntryFacts DEF TransferOffer, Listed, Offer
<1>a. ASSUME NEW v, Finalize(v), state'.status # "done" \/ ~ disk
      PROVE  state' \in Transfers /\ Moves(state.status, state'.status)
  BY <1>a, <1>s, EntryFacts DEF Finalize, Moves, Entry, Transfers
<1>2. CASE TransferEnd
  <2>1. shown' = shown /\ (Offer \in wire <=> Offer \in wire')
    BY <1>2, <1>f, ArriveFacts DEF TransferEnd
  <2>2. state' = state \/ \E v : Finalize(v) /\ Assembling
    BY <1>2 DEF TransferEnd
  <2> QED
    BY <2>1, <2>2, <1>a, <1>s DEF Listed, Moves, Assembling
<1>3. ASSUME NEW seq \in 0..LastSeq, ChunkToWorker(seq) PROVE Listed
  BY <1>3, <1>f, ArriveFacts DEF ChunkToWorker, Listed, Moves
<1>4. ASSUME NEW seq \in 0..LastSeq, IncomingChunk(seq) PROVE Listed
  <2>1. shown' = shown /\ (Offer \in wire <=> Offer \in wire')
    BY <1>4, <1>f, ArriveFacts DEF IncomingChunk
  <2>2. state' = state \/ \E v : Finalize(v) /\ Assembling
    BY <1>4 DEF IncomingChunk
  <2> QED
    BY <2>1, <2>2, <1>a, <1>s DEF Listed, Moves, Assembling
<1>5. CASE PeerLeft
  BY <1>5, <1>s, MovedFacts DEF PeerLeft, netVars, Listed, Moves
<1>b. CASE AbortOfferLocal /\ UNCHANGED <<shown, wire>>
  BY <1>b, <1>s, MovedFacts DEF AbortOfferLocal, Listed, Moves
<1>c. CASE TellPeer /\ UNCHANGED <<shown, wire>>
  BY <1>c, <1>b, <1>s DEF TellPeer, Listed, Moves
<1>6. CASE PaintedMemory \/ OpenTimeout
  BY <1>6, <1>b, <1>c DEF PaintedMemory, OpenTimeout, netVars
<1>7. CASE PaintedDisk
  BY <1>7 DEF PaintedDisk, netVars, Listed, Moves
<1>8. CASE WorkerStart \/ WorkerFrame \/ WorkerAbort
  BY <1>8 DEF WorkerStart, WorkerFrame, WorkerAbort, HandOver, netVars, Listed, Moves
<1>9. CASE StartReady \/ NeedAck
  BY <1>9, <1>c DEF StartReady, NeedAck, FromWorker, Listed, Moves
<1>10. CASE WorkerGaveUp
  <2>1. toMain # <<>> /\ shown' = shown /\ wire' = wire
        /\ state' = IF state.status = "none" THEN state ELSE Entry("aborted")
    BY <1>10 DEF WorkerGaveUp, FromWorker
  <2>2. state.status # "done"
    BY <2>1
  <2> QED
    BY <2>1, <2>2, <1>s, EntryFacts DEF Listed, Moves, Transfers
<1>11. CASE ReceiveStall
  BY <1>11, <1>s, MovedFacts DEF ReceiveStall, netVars, Listed, Moves
<1>12. CASE AcceptIncoming \/ RejectIncoming
  BY <1>12, <1>s, MovedFacts DEF AcceptIncoming, RejectIncoming, Click, netVars, Listed, Moves
<1>13. CASE Dismiss
  BY <1>13, <1>s, EntryFacts DEF Dismiss, Click, netVars, Listed, Moves
<1>14. CASE Render \/ RunEffects
  BY <1>14, LinkedFacts DEF Render, RunEffects, Effects, netVars, Listed, Moves
<1>15. CASE Hear \/ SenderStops
  BY <1>15 DEF Hear, SenderStops, Listed, Moves
<1>16. CASE SendChunk
  BY <1>16, <1>f DEF SendChunk, Listed, Moves, Offer
<1>17. CASE Lost
  BY <1>17, <1>s DEF Lost, Listed, Moves
<1>18. CASE UNCHANGED vars
  BY <1>18 DEF vars, netVars, Listed, Moves
<1> QED
  BY <1>1, <1>2, <1>3, <1>4, <1>5, <1>6, <1>7, <1>8, <1>9, <1>10, <1>11, <1>12, <1>13,
     <1>14, <1>15, <1>16, <1>17, <1>18 DEF Next, OnFrame, Accepting, Worker, OnWorker

\* The two ways of receiving do not mix.
LEMMA ApartNext ==
    ASSUME ListInv, [Next]_vars
    PROVE  /\ disk => asm' = NoAsm
           /\ ~ disk => toWorker' = <<>> /\ toMain' = <<>>
           /\ disk' = disk
<1> USE DEF ListInv, workerVars, recvVars
<1>1. CASE TransferOffer \/ TransferEnd
  BY <1>1 DEF TransferOffer, TransferEnd, Arrive, Assembling, Finalize
<1>2. ASSUME NEW seq \in 0..LastSeq, ChunkToWorker(seq) \/ IncomingChunk(seq)
      PROVE  /\ disk => asm' = NoAsm
             /\ ~ disk => toWorker' = <<>> /\ toMain' = <<>>
             /\ disk' = disk
  BY <1>2 DEF ChunkToWorker, IncomingChunk, Arrive, Assembling, ToWorker, Finalize
<1>3. CASE PeerLeft
  BY <1>3 DEF PeerLeft
<1>4. CASE PaintedMemory \/ PaintedDisk \/ OpenTimeout
  BY <1>4 DEF PaintedMemory, PaintedDisk, OpenTimeout, AbortOfferLocal
<1>5. CASE WorkerStart \/ WorkerFrame \/ WorkerAbort
  BY <1>5 DEF WorkerStart, WorkerFrame, WorkerAbort, HandOver
<1>6. CASE StartReady
  <2>1. disk /\ disk' = disk /\ asm' = asm
    BY <1>6 DEF StartReady, FromWorker
  <2> QED
    BY <2>1
<1>7. CASE WorkerGaveUp \/ NeedAck
  BY <1>7 DEF WorkerGaveUp, NeedAck, FromWorker
<1>8. CASE ReceiveStall
  BY <1>8 DEF ReceiveStall
<1>9. CASE AcceptIncoming \/ RejectIncoming \/ Dismiss
  BY <1>9 DEF AcceptIncoming, RejectIncoming, Dismiss
<1>10. CASE Render \/ RunEffects \/ Hear \/ SendChunk \/ SenderStops \/ Lost
  BY <1>10 DEF Render, RunEffects, Hear, SendChunk, SenderStops, Lost
<1>11. CASE UNCHANGED vars
  BY <1>11 DEF vars
<1> QED
  BY <1>1, <1>2, <1>3, <1>4, <1>5, <1>6, <1>7, <1>8, <1>9, <1>10, <1>11
     DEF Next, OnFrame, Accepting, Worker, OnWorker

\* The one way to be done: the assembler, with the end or a last chunk taken
\* in, finds its digest verified.
Verifies ==
    /\ Assembling
    /\ \/ InboundVerdict([asm EXCEPT !.ended = TRUE]) = "verified"
       \/ \E seq \in 0..LastSeq :
             /\ Frame("chunk", seq) \in wire
             /\ AcceptChunk(asm, seq).verdict = "accepted"
             /\ InboundVerdict(AcceptChunk(asm, seq).a) = "verified"

LEMMA DoneByVerdict ==
    ASSUME ListInv, [Next]_vars, state'.status = "done", state.status # "done"
    PROVE  Verifies /\ sender' = sender
<1> USE DEF ListInv, netVars
<1>e. \A s \in Statuses : Entry(s).status = s
  BY EntryFacts
<1>s. Statuses = {"none", "offered", "streaming", "done", "aborted"}
  BY DEF Statuses
<1>m. \A from : \A s \in Statuses \ {"done"} : Moved(state, from, s).status # "done"
  BY MovedFacts
<1>1. CASE TransferOffer
  BY <1>1, <1>e, <1>s DEF TransferOffer
<1>2. CASE TransferEnd
  BY <1>2, <1>e, <1>s DEF TransferEnd, Finalize, Arrive, Verifies
<1>3. ASSUME NEW seq \in 0..LastSeq, ChunkToWorker(seq) PROVE Verifies /\ sender' = sender
  BY <1>3 DEF ChunkToWorker
<1>4. ASSUME NEW seq \in 0..LastSeq, IncomingChunk(seq) PROVE Verifies /\ sender' = sender
  BY <1>4, <1>e, <1>s DEF IncomingChunk, Finalize, Arrive, Verifies
<1>5. CASE PeerLeft \/ ReceiveStall
  BY <1>5, <1>m, <1>s DEF PeerLeft, ReceiveStall
<1>6. CASE AbortOfferLocal \/ TellPeer
  BY <1>6, <1>m, <1>s DEF AbortOfferLocal, TellPeer
<1>7. CASE PaintedMemory \/ PaintedDisk \/ OpenTimeout \/ StartReady
  BY <1>6, <1>7 DEF PaintedMemory, PaintedDisk, OpenTimeout, StartReady
<1>8. CASE WorkerStart \/ WorkerFrame \/ WorkerAbort \/ NeedAck
  BY <1>8 DEF WorkerStart, WorkerFrame, WorkerAbort, HandOver, NeedAck
<1>9. CASE WorkerGaveUp
  BY <1>9, <1>e, <1>s DEF WorkerGaveUp
<1>10. CASE AcceptIncoming \/ RejectIncoming \/ Dismiss
  BY <1>10, <1>m, <1>e, <1>s DEF AcceptIncoming, RejectIncoming, Dismiss, Click
<1>11. CASE Render \/ RunEffects
  BY <1>11, LinkedFacts DEF Render, RunEffects, Effects
<1>12. CASE Hear \/ SendChunk \/ SenderStops \/ Lost \/ UNCHANGED vars
  BY <1>12 DEF Hear, SendChunk, SenderStops, Lost, vars
<1> QED
  BY <1>1, <1>2, <1>3, <1>4, <1>5, <1>7, <1>8, <1>9, <1>10, <1>11, <1>12
     DEF Next, OnFrame, Accepting, Worker, OnWorker

LEMMA NextList == ASSUME ListInv, [Next]_vars PROVE ListInv'
<1> USE DEF ListInv, Settled
<1>1. Listed
  BY StepOfList
<1>2. /\ state' \in Transfers /\ shown' \in Transfers
      /\ Offer \in wire' => state'.status = "none" /\ shown'.status = "none"
  BY <1>1 DEF Listed, Moves
<1>3. shown'.status \in Settled => state'.status \in Settled \cup {"none"}
  BY <1>1 DEF Listed, Moves
<1> QED
  BY <1>2, <1>3, ApartNext, DoneByVerdict DEF Verifies, Assembling

LEMMA Lists == Spec => []ListInv
  BY InitList, NextList, PTL DEF Spec

LEMMA StepsOfLifecycle == ASSUME ListInv, [Next]_vars PROVE [Lifecycle!Next]_Phase
<1> USE DEF Lifecycle!Next, Lifecycle!Ask, Lifecycle!Lose, Lifecycle!Begin, Lifecycle!Reject,
            Lifecycle!Finish, Lifecycle!Abort, Lifecycle!Forget, Lifecycle!Settled
<1>1. Listed
  BY StepOfList
<1>2. CASE Offer \in wire /\ Offer \notin wire' /\ state'.status \in {"none", "offered"}
  BY <1>2 DEF ListInv, Offer, Phase
<1>3. CASE (Offer \in wire <=> Offer \in wire') /\ state'.status = state.status
  BY <1>3 DEF Offer, Phase
<1>4. CASE (Offer \in wire <=> Offer \in wire') /\ Moves(state.status, state'.status)
           /\ state'.status # state.status
  BY <1>4 DEF ListInv, Moves, Settled, Offer, Phase
<1> QED
  BY <1>1, <1>2, <1>3, <1>4 DEF Listed

\* The safety half of LifecycleSpec: a transfer goes through its statuses in
\* order and a verdict is final, whichever of acceptIncomingTransfer, the
\* handlers of frames, the worker, the stall timer, the effects and the user
\* gets to it first.
THEOREM IsLifecycle == Spec => Lifecycle!Init /\ [][Lifecycle!Next]_Phase
<1>1. Init => Lifecycle!Init
  BY DEF Init, Lifecycle!Init, Phase, Entry
<1> QED
  BY <1>1, StepsOfLifecycle, Lists, PTL DEF Spec
-----------------------------------------------------------------------------
(* The whole file. *)

LEMMA DivUp ==
    ASSUME NEW n \in Nat, NEW c \in Nat \ {0}
    PROVE  ((n + c - 1) \div c) * c >= n /\ (n + c - 1) \div c \in Nat
  OBVIOUS

\* The chunks of a file are all of it.
LEMMA BeforeCount ==
    ASSUME sender.size \in Nat
    PROVE  Before(Count) = sender.size /\ Count \in Nat \ {0}
<1>1. ChunkSize \in Nat \ {0}
  BY LimitsAssumption DEF ChunkSize, NegotiateChunkSize, FloorChunkSize, Least, Advertised
<1>2. CASE sender.size = 0
  BY <1>1, <1>2 DEF Before, Count, ChunkCount, Least
<1>3. CASE sender.size > 0
  <2>1. Count = (sender.size + ChunkSize - 1) \div ChunkSize
    BY <1>3 DEF Count, ChunkCount
  <2>2. Count * ChunkSize >= sender.size /\ Count \in Nat
    BY <1>1, <2>1, DivUp
  <2>3. Count # 0
    BY <1>1, <1>3, <2>2
  <2>4. Count * ChunkSize \in Nat
    BY <1>1, <2>2
  <2> QED
    BY <2>2, <2>3, <2>4 DEF Before, Least
<1> QED
  BY <1>2, <1>3

AsmFields == {"nextSeq", "pending", "receivedBytes", "lastSeq", "digest", "ended"}

SenderFields == {"size", "honest", "started", "seq", "acked", "silent", "left"}

\* Every chunk on its way was sent; the assembler has the number of the last
\* chunk only after the sender has sent it, and a digest only of a file of the
\* size that was announced.
WholeInv ==
    /\ DOMAIN asm = AsmFields
    /\ DOMAIN sender = SenderFields
    /\ sender.size \in Nat /\ sender.seq \in Nat /\ sender.seq <= LastSeq + 1
    /\ \A f \in wire : f.kind = "chunk" => f.n \in Nat /\ f.n < sender.seq
    /\ asm.lastSeq = LastSeq => sender.seq = LastSeq + 1
    /\ asm.digest => sender.size = Announced /\ sender.seq = LastSeq + 1
    /\ DoneIsWhole

LEMMA InitWhole == Init => WholeInv
<1> SUFFICES ASSUME Init PROVE WholeInv
  OBVIOUS
<1>1. /\ sender.size \in Nat /\ sender.seq = 0
      /\ DOMAIN sender = SenderFields
  BY PortalReceiveAssumption DEF Init, SenderFields
<1>2. LastSeq \in Nat
  BY <1>1, BeforeCount DEF LastSeq
<1>3. /\ DOMAIN asm = AsmFields /\ asm.lastSeq = -1 /\ ~ asm.digest
  BY DEF Init, NoAsm, AsmFields
<1>4. \A f \in wire : f.kind = "offer"
  BY DEF Init, Frame
<1>5. state.status = "none"
  BY DEF Init, Entry
<1> QED
  BY <1>1, <1>2, <1>3, <1>4, <1>5 DEF WholeInv, DoneIsWhole

\* What taking in a chunk makes of an assembler, as far as it matters here.
LEMMA Accepted ==
    ASSUME sender.size \in Nat, DOMAIN asm = AsmFields, NEW seq,
           AcceptChunk(asm, seq).verdict = "accepted"
    PROVE  LET b == AcceptChunk(asm, seq).a
           IN  /\ DOMAIN b = AsmFields
               /\ b.lastSeq = IF seq = LastSeq THEN seq ELSE asm.lastSeq
               /\ b.digest => /\ seq = LastSeq \/ asm.lastSeq = LastSeq
                              /\ sender.size = Announced
               /\ b.ended = asm.ended
<1> DEFINE next     == Frontier(asm.nextSeq, asm.pending \cup {seq})
           complete == next = LastSeq + 1 /\ (seq = LastSeq \/ asm.lastSeq = LastSeq)
           b        == [asm EXCEPT !.nextSeq = next,
                                   !.pending = (@ \cup {seq}) \ 0..(next - 1),
                                   !.receivedBytes = @ + Length(seq),
                                   !.lastSeq = IF seq = LastSeq THEN seq ELSE @,
                                   !.digest = complete]
<1>1. AcceptChunk(asm, seq).a = b /\ (complete => Before(next) = Announced)
  BY DEF AcceptChunk
<1>2. /\ DOMAIN b = AsmFields /\ b.ended = asm.ended /\ b.digest = complete
      /\ b.lastSeq = IF seq = LastSeq THEN seq ELSE asm.lastSeq
  <2> HIDE DEF next, complete
  <2> QED
    BY DEF AsmFields
<1>3. LastSeq + 1 = Count /\ Before(Count) = sender.size
  BY BeforeCount DEF LastSeq
<1>4. complete => Before(Count) = Announced
  BY <1>1, <1>3
<1> HIDE DEF b, next
<1> QED
  BY <1>1, <1>2, <1>3, <1>4

SameFile == sender'.size = sender.size /\ sender'.seq = sender.seq /\ sender'.honest = sender.honest

\* A chunk is sent, or nothing is added to what is on its way.
LEMMA Sending ==
    ASSUME WholeInv, [Next]_vars, ~ SendChunk
    PROVE  SameFile /\ DOMAIN sender' = SenderFields /\ wire' \subseteq wire
<1> USE DEF SameFile
<1>w. DOMAIN sender = SenderFields
  BY DEF WholeInv
<1>1. CASE sender' = sender /\ wire' \subseteq wire
  BY <1>1, <1>w
<1>2. CASE SenderStops
  BY <1>2, <1>w DEF SenderStops, SenderFields
<1>3. CASE Hear
  BY <1>3, <1>w DEF Hear, SenderFields
<1>4. CASE TransferOffer \/ TransferEnd \/ PeerLeft \/ Lost \/ UNCHANGED vars
  BY <1>4, <1>1 DEF TransferOffer, TransferEnd, Arrive, PeerLeft, Lost, netVars, vars
<1>5. ASSUME NEW seq \in 0..LastSeq, ChunkToWorker(seq) \/ IncomingChunk(seq)
      PROVE  sender' = sender /\ wire' \subseteq wire
  BY <1>5 DEF ChunkToWorker, IncomingChunk, Arrive
<1>6. CASE Accepting \/ Worker \/ OnWorker \/ ReceiveStall
  BY <1>6, <1>1 DEF Accepting, PaintedMemory, PaintedDisk, OpenTimeout, Worker, WorkerStart,
     WorkerFrame, WorkerAbort, HandOver, OnWorker, StartReady, WorkerGaveUp, NeedAck, FromWorker,
     ReceiveStall, netVars
<1>7. CASE AcceptIncoming \/ RejectIncoming \/ Dismiss \/ Render \/ RunEffects
  BY <1>7, <1>1 DEF AcceptIncoming, RejectIncoming, Dismiss, Render, RunEffects, netVars
<1> QED
  BY <1>1, <1>2, <1>3, <1>4, <1>5, <1>6, <1>7 DEF Next, OnFrame

\* Where the assembler of the main thread comes from.
LEMMA Assembled ==
    ASSUME [Next]_vars
    PROVE  \/ asm' \in {asm, NoAsm, NewAsm, [asm EXCEPT !.ended = TRUE]}
           \/ \E seq \in 0..LastSeq :
                 /\ Frame("chunk", seq) \in wire
                 /\ AcceptChunk(asm, seq).verdict = "accepted"
                 /\ asm' = AcceptChunk(asm, seq).a
<1>1. CASE TransferOffer \/ TransferEnd \/ PeerLeft \/ Lost \/ UNCHANGED vars
  BY <1>1 DEF TransferOffer, TransferEnd, Finalize, PeerLeft, Lost, recvVars, vars
<1>2. ASSUME NEW seq \in 0..LastSeq, ChunkToWorker(seq) \/ IncomingChunk(seq)
      PROVE  \/ asm' \in {asm, NoAsm}
             \/ /\ Frame("chunk", seq) \in wire
                /\ AcceptChunk(asm, seq).verdict = "accepted"
                /\ asm' = AcceptChunk(asm, seq).a
  BY <1>2 DEF ChunkToWorker, IncomingChunk, Arrive, Finalize
<1>3. CASE Accepting \/ Worker
  BY <1>3 DEF Accepting, PaintedMemory, PaintedDisk, OpenTimeout, AbortOfferLocal, Worker,
     WorkerStart, WorkerFrame, WorkerAbort, HandOver, recvVars
<1>4. CASE OnWorker \/ ReceiveStall
  <2>1. StartReady => asm' = asm
    BY DEF StartReady
  <2> QED
    BY <1>4, <2>1 DEF OnWorker, WorkerGaveUp, NeedAck, FromWorker, ReceiveStall
<1>5. CASE AcceptIncoming \/ RejectIncoming \/ Dismiss \/ Render \/ RunEffects
  BY <1>5 DEF AcceptIncoming, RejectIncoming, Dismiss, Render, RunEffects, recvVars
<1>6. CASE Hear \/ SendChunk \/ SenderStops
  BY <1>6 DEF Hear, SendChunk, SenderStops, recvVars
<1> QED
  BY <1>1, <1>2, <1>3, <1>4, <1>5, <1>6 DEF Next, OnFrame

LEMMA NextWhole == ASSUME ListInv, WholeInv, [Next]_vars PROVE WholeInv'
<1>a. LastSeq \in Nat
  BY BeforeCount DEF WholeInv, LastSeq
<1>b. \A k, n : Frame(k, n).kind = k /\ Frame(k, n).n = n
  BY DEF Frame
<1>1. CASE SendChunk
  <2>1. /\ sender.seq <= LastSeq
        /\ UNCHANGED <<asm, state>>
        /\ sender' = [sender EXCEPT !.seq = @ + 1]
        /\ wire' \subseteq wire \cup {Frame("chunk", sender.seq), Frame("end", 0)}
    BY <1>1, <1>a DEF SendChunk, SenderWaits, WholeInv, recvVars
  <2>2. /\ sender'.size = sender.size /\ sender'.seq = sender.seq + 1
        /\ DOMAIN sender' = SenderFields
    BY <2>1 DEF WholeInv, SenderFields
  <2>3. LastSeq' = LastSeq
    BY <2>2 DEF LastSeq, Count
  <2>4. \A f \in wire' : f.kind = "chunk" => f.n \in Nat /\ f.n < sender'.seq
    <3> SUFFICES ASSUME NEW f \in wire', f.kind = "chunk" PROVE f.n \in Nat /\ f.n < sender'.seq
      OBVIOUS
    <3>1. CASE f \in wire
      <4>1. f.n \in Nat /\ f.n < sender.seq
        BY <3>1 DEF WholeInv
      <4> QED
        BY <4>1, <2>2, <1>b DEF WholeInv
    <3>2. CASE f = Frame("chunk", sender.seq)
      BY <3>2, <2>2, <1>b DEF WholeInv
    <3> QED
      BY <2>1, <3>1, <3>2, <1>b
  <2>5. asm.lastSeq # LastSeq /\ ~ asm.digest /\ state.status # "done"
    BY <2>1, <1>a DEF WholeInv, DoneIsWhole
  <2> QED
    BY <2>1, <2>2, <2>3, <2>4, <2>5, <1>a DEF WholeInv, DoneIsWhole
<1>2. CASE ~ SendChunk
  <2>1. SameFile /\ DOMAIN sender' = SenderFields /\ wire' \subseteq wire
    BY <1>2, Sending
  <2>2. LastSeq' = LastSeq
    BY <2>1 DEF SameFile, LastSeq, Count
  <2>3. \A seq \in 0..LastSeq :
           Frame("chunk", seq) \in wire /\ seq = LastSeq => sender.seq = LastSeq + 1
    BY <1>a, <1>b DEF WholeInv
  <2>4. /\ DOMAIN asm' = AsmFields
        /\ asm'.lastSeq = LastSeq => sender.seq = LastSeq + 1
        /\ asm'.digest => sender.size = Announced /\ sender.seq = LastSeq + 1
    <3>1. CASE asm' \in {asm, [asm EXCEPT !.ended = TRUE]}
      BY <3>1 DEF WholeInv, AsmFields
    <3>2. CASE asm' \in {NoAsm, NewAsm}
      BY <3>2, <1>a DEF NoAsm, NewAsm, AsmFields
    <3>3. ASSUME NEW seq \in 0..LastSeq, Frame("chunk", seq) \in wire,
                 AcceptChunk(asm, seq).verdict = "accepted", asm' = AcceptChunk(asm, seq).a
          PROVE  /\ DOMAIN asm' = AsmFields
                 /\ asm'.lastSeq = LastSeq => sender.seq = LastSeq + 1
                 /\ asm'.digest => sender.size = Announced /\ sender.seq = LastSeq + 1
      BY <3>3, <2>3, Accepted DEF WholeInv
    <3> QED
      BY <3>1, <3>2, <3>3, Assembled
  <2>5. DoneIsWhole'
    <3>1. CASE state'.status = "done" /\ state.status # "done"
      <4>1. Verifies
        BY <3>1, DoneByVerdict
      <4>2. sender.honest /\ sender.size = Announced /\ sender.seq = LastSeq + 1
        <5>1. CASE InboundVerdict([asm EXCEPT !.ended = TRUE]) = "verified"
          BY <5>1 DEF InboundVerdict, WholeInv, AsmFields
        <5>2. ASSUME NEW seq \in 0..LastSeq, Frame("chunk", seq) \in wire,
                     AcceptChunk(asm, seq).verdict = "accepted",
                     InboundVerdict(AcceptChunk(asm, seq).a) = "verified"
              PROVE  sender.honest /\ sender.size = Announced /\ sender.seq = LastSeq + 1
          <6>1. AcceptChunk(asm, seq).a.digest /\ sender.honest
            BY <5>2 DEF InboundVerdict
          <6> QED
            BY <5>2, <6>1, <2>3, Accepted DEF WholeInv
        <5> QED
          BY <4>1, <5>1, <5>2 DEF Verifies
      <4> QED
        BY <4>2, <2>1, <2>2 DEF DoneIsWhole, SameFile
    <3> QED
      BY <3>1, <2>1, <2>2 DEF WholeInv, DoneIsWhole, SameFile
  <2> QED
    BY <2>1, <2>2, <2>4, <2>5, <1>a DEF WholeInv, SameFile
<1> QED
  BY <1>1, <1>2

\* finalizeInbound shows a file only if every byte that was offered was sent
\* and received and the sender vouched for it, whatever the order and number
\* of chunks and of transfer-end, and however large file and chunks are.
THEOREM OnlyWholeFiles == Spec => []DoneIsWhole
<1>1. WholeInv => DoneIsWhole
  BY DEF WholeInv
<1> QED
  BY <1>1, InitWhole, NextWhole, Lists, PTL DEF Spec

-----------------------------------------------------------------------------
(* The assembler. *)

LEMMA LeastNatural ==
    ASSUME NEW T \in SUBSET Nat, T # {}
    PROVE  \E x \in T : \A y \in T : x <= y
<1>1. \E R : /\ IsWellFoundedOn(R, Nat)
             /\ \A x, y \in Nat : <<y, x>> \in R <=> y < x
  <2> DEFINE R == OpToRel(<, Nat)
  <2>1. IsWellFoundedOn(R, Nat)
    BY NatLessThanWellFounded, Zenon
  <2>2. \A x, y \in Nat : <<y, x>> \in R <=> y < x
    BY DEF OpToRel
  <2> HIDE DEF R
  <2> QED BY <2>1, <2>2
<1>2. PICK R : /\ IsWellFoundedOn(R, Nat)
               /\ \A x, y \in Nat : <<y, x>> \in R <=> y < x
  BY <1>1
<1>3. PICK x \in T : \A y \in T : ~ (<<y, x>> \in R)
  BY <1>2, WFMin, Zenon
<1>4. \A y \in T : x \in Nat /\ y \in Nat /\ ~ (y < x)
  BY <1>2, <1>3, Zenon
<1> QED BY <1>4

\* Frontier is the first number that has not arrived.
LEMMA FrontierIs ==
    ASSUME NEW next \in Nat, NEW got, IsFiniteSet(got)
    PROVE  LET f == Frontier(next, got)
           IN  f \in Nat /\ f >= next /\ f \notin got /\ next..(f - 1) \subseteq got
<1> DEFINE S == next..(next + Cardinality(got))
           T == S \ got
<1>1. Cardinality(got) \in Nat /\ IsFiniteSet(S) /\ Cardinality(S) = Cardinality(got) + 1
  <2>1. Cardinality(got) \in Nat
    BY FS_CardinalityType
  <2> QED
    BY <2>1, FS_Interval
<1>2. T # {}
  <2>1. S \in SUBSET got => Cardinality(S) <= Cardinality(got)
    BY FS_Subset
  <2> QED
    BY <1>1, <2>1
<1>3. T \in SUBSET Nat
  BY <1>1
<1>4. PICK s \in T : \A y \in T : s <= y
  BY <1>2, <1>3, LeastNatural
<1>5. s \notin got /\ next..(s - 1) \subseteq got
  BY <1>1, <1>4
<1>6. \E x \in S : x \notin got /\ next..(x - 1) \subseteq got
  BY <1>4, <1>5
<1> QED
  BY <1>1, <1>6 DEF Frontier

\* The size of a chunk, as the sum of the sizes of those before it.
LEMMA Product ==
    ASSUME NEW c \in Nat, NEW k \in Nat
    PROVE  c * k \in Nat /\ c * (k + 1) = c * k + c
  OBVIOUS

LEMMA ProductLe ==
    ASSUME NEW c \in Nat, NEW k \in Nat, NEW m \in Nat, k <= m
    PROVE  c * k <= c * m
<1>1. PICK d \in Nat : m = k + d
  <2>1. m - k \in Nat /\ m = k + (m - k)
    OBVIOUS
  <2> QED
    BY <2>1
<1>2. c * m = c * k + c * d /\ c * d \in Nat /\ c * k \in Nat
  BY <1>1
<1> QED
  BY <1>2

LEMMA ChunkSizeIs == ChunkSize \in Nat /\ ChunkSize >= 2 /\ ChunkSize >= ChunkDataSize
  BY LimitsAssumption DEF ChunkSize, NegotiateChunkSize, FloorChunkSize, Least, Advertised

LEMMA RoundedUp ==
    ASSUME NEW n \in Nat, NEW c \in Nat \ {0}, n > 0
    PROVE  /\ ChunkCount(n, c) \in Nat \ {0}
           /\ c * ChunkCount(n, c) >= n
           /\ c * ChunkCount(n, c) < n + c
<1>1. ChunkCount(n, c) = (n + c - 1) \div c
  BY DEF ChunkCount
<1>2. /\ (n + c - 1) \div c \in Nat
      /\ ((n + c - 1) \div c) * c >= n
      /\ ((n + c - 1) \div c) * c < n + c
  OBVIOUS
<1>3. c * ChunkCount(n, c) = ((n + c - 1) \div c) * c
  BY <1>1, <1>2
<1>4. ChunkCount(n, c) # 0
  BY <1>1, <1>2
<1> QED
  BY <1>1, <1>2, <1>3, <1>4

\* Where the last chunk of a file lies.
LEMMA LastChunk ==
    ASSUME sender.size \in Nat
    PROVE  /\ Count \in Nat \ {0} /\ LastSeq \in Nat /\ Count = LastSeq + 1
           /\ ChunkSize * LastSeq \in Nat /\ ChunkSize * Count = ChunkSize * LastSeq + ChunkSize
           /\ ChunkSize * LastSeq <= sender.size
           /\ sender.size <= ChunkSize * Count
           /\ sender.size > 0 => ChunkSize * LastSeq < sender.size
<1>1. Count \in Nat \ {0} /\ LastSeq \in Nat /\ Count = LastSeq + 1
  BY BeforeCount DEF LastSeq
<1>2. ChunkSize * LastSeq \in Nat /\ ChunkSize * Count = ChunkSize * LastSeq + ChunkSize
  BY <1>1, Product, ChunkSizeIs
<1>3. CASE sender.size = 0
  <2>1. Count = 1
    BY <1>3 DEF Count, ChunkCount
  <2>2. LastSeq = 0 /\ ChunkSize * 0 = 0
    BY <1>1, <2>1, ChunkSizeIs
  <2> QED
    BY <1>1, <1>2, <1>3, <2>2, ChunkSizeIs
<1>4. CASE sender.size > 0
  <2>1. ChunkSize \in Nat \ {0}
    BY ChunkSizeIs
  <2>2. ChunkSize * Count >= sender.size /\ ChunkSize * Count < sender.size + ChunkSize
    BY <1>4, <2>1, RoundedUp DEF Count
  <2> QED
    BY <1>1, <1>2, <1>4, <2>1, <2>2
<1> QED
  BY <1>3, <1>4

\* All chunks but the last are full.
LEMMA LengthIs ==
    ASSUME sender.size \in Nat, NEW seq \in 0..LastSeq
    PROVE  /\ Before(seq) = ChunkSize * seq
           /\ Length(seq) = IF seq = LastSeq THEN sender.size - ChunkSize * LastSeq ELSE ChunkSize
           /\ Length(seq) \in 0..ChunkSize
           /\ Length(seq) = 0 => seq = LastSeq
<1> USE ChunkSizeIs
<1>1. /\ Count \in Nat \ {0} /\ LastSeq \in Nat /\ Count = LastSeq + 1 /\ seq \in Nat
      /\ ChunkSize * LastSeq \in Nat /\ ChunkSize * Count = ChunkSize * LastSeq + ChunkSize
      /\ ChunkSize * LastSeq <= sender.size /\ sender.size <= ChunkSize * Count
  BY LastChunk
<1>2. /\ ChunkSize * seq \in Nat /\ ChunkSize * (seq + 1) = ChunkSize * seq + ChunkSize
      /\ ChunkSize * seq <= ChunkSize * LastSeq
  BY <1>1, Product, ProductLe
<1>3. seq * ChunkSize = ChunkSize * seq /\ (seq + 1) * ChunkSize = ChunkSize * (seq + 1)
  BY <1>1
<1>4. Before(seq) = ChunkSize * seq
  BY <1>1, <1>2, <1>3 DEF Before, Least
<1>5. CASE seq = LastSeq
  <2>1. Before(seq + 1) = sender.size
    BY <1>1, <1>5, BeforeCount
  <2> QED
    BY <1>1, <1>2, <1>4, <1>5, <2>1 DEF Length
<1>6. CASE seq # LastSeq
  <2>1. seq + 1 \in Nat /\ seq + 1 <= LastSeq
    BY <1>1, <1>6
  <2>2. ChunkSize * (seq + 1) <= ChunkSize * LastSeq /\ ChunkSize * (seq + 1) \in Nat
    BY <1>1, <2>1, ProductLe, Product
  <2>3. Before(seq + 1) = ChunkSize * (seq + 1)
    BY <1>1, <1>3, <2>2 DEF Before, Least
  <2> QED
    BY <1>2, <1>4, <1>6, <2>3 DEF Length
<1> QED
  BY <1>5, <1>6

\* A smaller chunk makes more of them.
LEMMA FloorCount ==
    ASSUME sender.size \in Nat
    PROVE  Count <= ChunkCount(sender.size, ChunkDataSize)
<1> USE ChunkSizeIs, LimitsAssumption
<1>1. CASE sender.size = 0
  BY <1>1 DEF Count, ChunkCount
<1>2. CASE sender.size > 0
  <2> DEFINE q == ChunkCount(sender.size, ChunkDataSize)
  <2>1. q \in Nat /\ ChunkDataSize * q >= sender.size
    <3>1. ChunkDataSize \in Nat \ {0}
      BY LimitsAssumption
    <3> QED
      BY <1>2, <3>1, RoundedUp
  <2>2. ChunkDataSize * q <= ChunkSize * q /\ ChunkSize * q \in Nat /\ ChunkDataSize * q \in Nat
    <3> HIDE DEF q
    <3>1. q * ChunkDataSize <= q * ChunkSize
      BY <2>1, ProductLe
    <3> QED
      BY <2>1, <3>1
  <2>3. ChunkSize * q >= sender.size
    BY <2>1, <2>2
  <2>4. SUFFICES ASSUME q < Count PROVE FALSE
    BY <2>1, LastChunk
  <2>5. q <= LastSeq /\ LastSeq \in Nat
    BY <2>1, <2>4, LastChunk
  <2>6. ChunkSize * q <= ChunkSize * LastSeq
    <3> HIDE DEF q
    <3> QED
      BY <2>1, <2>5, ProductLe
  <2> QED
    BY <1>2, <2>2, <2>3, <2>6, LastChunk
<1> QED
  BY <1>1, <1>2

\* The chunks an assembler has.
Got(a) == 0..(a.nextSeq - 1) \cup a.pending

Final(size) == ChunkCount(size, ChunkSize) - 1

\* What an assembler knows of a file of some size, of which the first chunks,
\* sent in number, may have arrived.
AsmOK(a, sent, size) ==
    /\ DOMAIN a = AsmFields
    /\ a.nextSeq \in Nat /\ a.nextSeq <= sent
    /\ IsFiniteSet(a.pending)
    /\ \A s \in a.pending : s \in Nat /\ a.nextSeq < s /\ s < sent
    /\ a.receivedBytes = ChunkSize * (a.nextSeq + Cardinality(a.pending))
                         - (IF Final(size) \in Got(a) THEN ChunkSize * (Final(size) + 1) - size ELSE 0)
    /\ a.lastSeq = Final(size) <=> Final(size) \in Got(a)
    /\ a.digest <=> a.nextSeq = Final(size) + 1

LEMMA AsmStart ==
    ASSUME sender.size \in Nat, NEW sent \in Nat
    PROVE  AsmOK(NewAsm, sent, sender.size) /\ NewAsm.receivedBytes = 0 /\ ~ NewAsm.ended
<1>1. Final(sender.size) \in Nat
  BY LastChunk DEF Final, LastSeq, Count
<1>2. /\ DOMAIN NewAsm = AsmFields /\ NewAsm.nextSeq = 0 /\ NewAsm.pending = {}
      /\ NewAsm.receivedBytes = 0 /\ NewAsm.lastSeq = -1 /\ ~ NewAsm.digest /\ ~ NewAsm.ended
  BY DEF NewAsm, NoAsm, AsmFields
<1>3. ChunkSize * (0 + 0) = 0
  BY ChunkSizeIs
<1>4. Got(NewAsm) = {}
  BY <1>2 DEF Got
<1> QED
  BY <1>1, <1>2, <1>3, <1>4, FS_EmptySet DEF AsmOK

LEMMA AsmLater ==
    ASSUME NEW a, NEW sent \in Nat, NEW later \in Nat, NEW size, AsmOK(a, sent, size), sent <= later
    PROVE  AsmOK(a, later, size)
  BY DEF AsmOK

LEMMA FirstNumbers ==
    ASSUME NEW n \in Nat
    PROVE  IsFiniteSet(0..(n - 1)) /\ Cardinality(0..(n - 1)) = n
<1>1. n - 1 \in Int /\ (IF 0 > n - 1 THEN 0 ELSE (n - 1) - 0 + 1) = n
  OBVIOUS
<1> QED
  BY <1>1, FS_Interval

LEMMA AmongFirst ==
    ASSUME NEW n \in Nat, NEW S, S \subseteq 0..(n - 1)
    PROVE  IsFiniteSet(S) /\ Cardinality(S) \in Nat /\ Cardinality(S) <= n
<1> DEFINE I == 0..(n - 1)
<1>1. IsFiniteSet(I) /\ Cardinality(I) = n /\ S \in SUBSET I
  BY FirstNumbers
<1> HIDE DEF I
<1> QED
  BY <1>1, FS_Subset, FS_CardinalityType

\* How many chunks it has.
LEMMA GotMany ==
    ASSUME NEW a, NEW sent \in Nat, NEW size, AsmOK(a, sent, size)
    PROVE  /\ IsFiniteSet(Got(a)) /\ Got(a) \subseteq 0..(sent - 1)
           /\ Cardinality(a.pending) \in Nat
           /\ Cardinality(Got(a)) = a.nextSeq + Cardinality(a.pending)
<1> DEFINE S == 0..(a.nextSeq - 1)
<1>1. IsFiniteSet(S) /\ Cardinality(S) = a.nextSeq
  <2>1. a.nextSeq \in Nat
    BY DEF AsmOK
  <2> QED
    BY <2>1, FirstNumbers
<1>2. S \cap a.pending = {}
  BY DEF AsmOK
<1>3. IsFiniteSet(a.pending) /\ Cardinality(a.pending) \in Nat
  BY FS_CardinalityType DEF AsmOK
<1>4. Cardinality(S \cap a.pending) = 0
  BY <1>2, FS_EmptySet
<1>5. IsFiniteSet(S \cup a.pending) /\ Cardinality(S \cup a.pending) =
         Cardinality(S) + Cardinality(a.pending) - Cardinality(S \cap a.pending)
  BY <1>1, <1>3, FS_Union
<1>6. Got(a) \subseteq 0..(sent - 1)
  BY DEF Got, AsmOK
<1> QED
  BY <1>1, <1>3, <1>4, <1>5, <1>6 DEF Got

\* With every chunk that was sent it has the bytes up to the next one.
LEMMA AllIn ==
    ASSUME sender.size \in Nat, sender.seq \in Nat, sender.seq <= Count,
           NEW a, AsmOK(a, sender.seq, sender.size), 0..(sender.seq - 1) \subseteq Got(a)
    PROVE  a.nextSeq = sender.seq /\ a.receivedBytes = Before(sender.seq)
<1> DEFINE n == sender.seq
<1>1. n \in Nat /\ Got(a) = 0..(n - 1)
  BY GotMany
<1>2. IsFiniteSet(0..(n - 1)) /\ Cardinality(0..(n - 1)) = n
  BY <1>1, FirstNumbers
<1>3. a.nextSeq + Cardinality(a.pending) = n
  BY <1>1, <1>2, GotMany
<1>4. a.nextSeq = n
  <2> SUFFICES ASSUME a.nextSeq # n PROVE FALSE
    OBVIOUS
  <2>1. a.nextSeq \in 0..(n - 1)
    BY DEF AsmOK
  <2>2. a.nextSeq \notin Got(a)
    BY DEF Got, AsmOK
  <2> QED
    BY <1>1, <2>1, <2>2
<1>5. Final(sender.size) = LastSeq
  BY DEF Final, LastSeq, Count
<1>6. /\ LastSeq \in Nat /\ Count = LastSeq + 1 /\ ChunkSize * LastSeq \in Nat
      /\ ChunkSize * Count = ChunkSize * LastSeq + ChunkSize
  BY LastChunk
<1>7. CASE n = Count
  <2>1. LastSeq \in Got(a)
    BY <1>1, <1>6, <1>7
  <2>2. a.receivedBytes = ChunkSize * Count - (ChunkSize * Count - sender.size)
    BY <1>3, <1>5, <1>6, <1>7, <2>1 DEF AsmOK
  <2>3. Before(Count) = sender.size
    BY BeforeCount
  <2> QED
    BY <1>4, <1>6, <1>7, <2>2, <2>3, ChunkSizeIs
<1>8. CASE n # Count
  <2>1. LastSeq \notin Got(a) /\ n \in 0..LastSeq
    BY <1>1, <1>6, <1>8
  <2>2. a.receivedBytes = ChunkSize * n - 0
    BY <1>3, <1>5, <2>1 DEF AsmOK
  <2>3. Before(n) = ChunkSize * n /\ ChunkSize * n \in Nat
    BY <1>1, <2>1, LengthIs, Product, ChunkSizeIs
  <2>4. a.receivedBytes = Before(n)
    <3> HIDE DEF n
    <3> QED
      BY <2>2, <2>3
  <2> QED
    BY <1>4, <2>4
<1> QED
  BY <1>7, <1>8

\* The bytes it has are a number, and no more than the file.
LEMMA BytesWithin ==
    ASSUME sender.size \in Nat, NEW a, AsmOK(a, Count, sender.size)
    PROVE  /\ a.receivedBytes \in Nat
           /\ a.receivedBytes <= sender.size
           /\ \A seq \in (0..LastSeq) \ Got(a) : a.receivedBytes + Length(seq) <= sender.size
<1> DEFINE k == a.nextSeq + Cardinality(a.pending)
<1> USE ChunkSizeIs
<1>1. /\ Count \in Nat /\ LastSeq \in Nat /\ Count = LastSeq + 1 /\ ChunkSize * LastSeq \in Nat
      /\ ChunkSize * Count = ChunkSize * LastSeq + ChunkSize
      /\ ChunkSize * LastSeq <= sender.size /\ sender.size <= ChunkSize * Count
  BY LastChunk
<1>2. /\ IsFiniteSet(Got(a)) /\ Got(a) \subseteq 0..LastSeq
      /\ k \in Nat /\ Cardinality(Got(a)) = k
  <2>1. a.nextSeq \in Nat
    BY DEF AsmOK
  <2>2. /\ IsFiniteSet(Got(a)) /\ Got(a) \subseteq 0..(Count - 1)
        /\ Cardinality(a.pending) \in Nat
        /\ Cardinality(Got(a)) = a.nextSeq + Cardinality(a.pending)
    BY <1>1, GotMany
  <2>3. Count - 1 = LastSeq
    BY <1>1
  <2> QED
    BY <2>1, <2>2, <2>3
<1>3. Final(sender.size) = LastSeq
  BY DEF Final, LastSeq, Count
<1>4. a.receivedBytes = ChunkSize * k - (IF LastSeq \in Got(a) THEN ChunkSize * Count - sender.size ELSE 0)
  BY <1>1, <1>3 DEF AsmOK
<1>5. \A S \in SUBSET (0..LastSeq) : Cardinality(S) <= Count
  <2>1. 0..LastSeq = 0..(Count - 1)
    BY <1>1
  <2> QED
    BY <1>1, <2>1, AmongFirst
<1>6. \A S \in SUBSET (0..LastSeq) : LastSeq \notin S => Cardinality(S) <= LastSeq
  <2>1. \A S \in SUBSET (0..LastSeq) : LastSeq \notin S => S \subseteq 0..(LastSeq - 1)
    BY <1>1
  <2> QED
    BY <1>1, <2>1, AmongFirst
<1>7. k <= Count
  BY <1>2, <1>5
<1>8. LastSeq \notin Got(a) => k <= LastSeq
  BY <1>2, <1>6
<1>9. LastSeq \in Got(a) => k # 0
  BY <1>2, FS_EmptySet
<1>10. /\ ChunkSize * k \in Nat /\ ChunkSize * (k + 1) = ChunkSize * k + ChunkSize
       /\ ChunkSize * k <= ChunkSize * Count
       /\ k <= LastSeq => ChunkSize * k <= ChunkSize * LastSeq
       /\ k # 0 => ChunkSize <= ChunkSize * k
  <2> HIDE DEF k
  <2>1. k # 0 => ChunkSize * 1 <= ChunkSize * k
    BY <1>2, ProductLe
  <2>2. ChunkSize * 1 = ChunkSize
    OBVIOUS
  <2> QED
    BY <1>1, <1>2, <1>7, <2>1, <2>2, Product, ProductLe
<1>11. a.receivedBytes \in Nat /\ a.receivedBytes <= sender.size
  <2> HIDE DEF k
  <2> QED
    BY <1>1, <1>4, <1>8, <1>9, <1>10
<1>12. ASSUME NEW seq \in (0..LastSeq) \ Got(a) PROVE a.receivedBytes + Length(seq) <= sender.size
  <2>1. Length(seq) = IF seq = LastSeq THEN sender.size - ChunkSize * LastSeq ELSE ChunkSize
    BY LengthIs
  <2>2. CASE seq = LastSeq
    <3> HIDE DEF k
    <3> QED
      BY <1>1, <1>4, <1>8, <1>10, <2>1, <2>2
  <2>3. CASE seq # LastSeq
    <3>1. /\ IsFiniteSet(Got(a) \cup {seq}) /\ Cardinality(Got(a) \cup {seq}) = k + 1
          /\ Got(a) \cup {seq} \subseteq 0..LastSeq
      BY <1>2, FS_AddElement
    <3>2. k + 1 <= Count
      BY <1>5, <3>1
    <3>3. LastSeq \notin Got(a) => k + 1 <= LastSeq
      BY <1>6, <2>3, <3>1
    <3>4. /\ ChunkSize * (k + 1) <= ChunkSize * Count
          /\ LastSeq \notin Got(a) => ChunkSize * (k + 1) <= ChunkSize * LastSeq
      <4> HIDE DEF k
      <4>1. k + 1 \in Nat
        BY <1>2
      <4> QED
        BY <1>1, <3>2, <3>3, <4>1, ProductLe
    <3> HIDE DEF k
    <3> QED
      BY <1>1, <1>4, <1>10, <2>1, <2>3, <3>4
  <2> QED
    BY <2>2, <2>3
<1> QED
  BY <1>11, <1>12

\* acceptChunk takes in one chunk that it did not have.
LEMMA TakenIn ==
    ASSUME sender.size \in Nat, sender.seq \in Nat, sender.seq <= Count,
           NEW a, AsmOK(a, sender.seq, sender.size), NEW seq \in 0..(sender.seq - 1),
           AcceptChunk(a, seq).verdict = "accepted"
    PROVE  LET b == AcceptChunk(a, seq).a
           IN  /\ AsmOK(b, sender.seq, sender.size)
               /\ Got(b) = Got(a) \cup {seq}
               /\ b.ended = a.ended
<1> DEFINE got  == a.pending \cup {seq}
           next == Frontier(a.nextSeq, got)
           rest == got \ 0..(next - 1)
           done == next = LastSeq + 1 /\ (seq = LastSeq \/ a.lastSeq = LastSeq)
           b    == [a EXCEPT !.nextSeq = next,
                             !.pending = (@ \cup {seq}) \ 0..(next - 1),
                             !.receivedBytes = @ + Length(seq),
                             !.lastSeq = IF seq = LastSeq THEN seq ELSE @,
                             !.digest = done]
           n    == sender.seq
<1>a. /\ DOMAIN a = AsmFields /\ a.nextSeq \in Nat /\ a.nextSeq <= n /\ n \in Nat
      /\ IsFiniteSet(a.pending)
      /\ \A s \in a.pending : s \in Nat /\ a.nextSeq < s /\ s < n
      /\ seq \in Nat /\ seq < n
  BY DEF AsmOK
<1>1. AcceptChunk(a, seq).a = b /\ seq >= a.nextSeq /\ seq \notin a.pending
  BY <1>a DEF AcceptChunk
<1>2. IsFiniteSet(got) /\ Cardinality(got) = Cardinality(a.pending) + 1
  BY <1>a, <1>1, FS_AddElement
<1>3. next \in Nat /\ next >= a.nextSeq /\ next \notin got /\ a.nextSeq..(next - 1) \subseteq got
  BY <1>a, <1>2, FrontierIs
<1>4. \A s \in got : s \in Nat /\ a.nextSeq <= s /\ s < n
  BY <1>a, <1>1
<1>5. next <= n
  <2> HIDE DEF next, got
  <2>1. next > a.nextSeq => next - 1 \in got
    BY <1>a, <1>3
  <2> QED
    BY <1>a, <1>3, <1>4, <2>1
<1>6. /\ IsFiniteSet(rest)
      /\ \A s \in rest : s \in Nat /\ next < s /\ s < n
  <2> HIDE DEF next, got
  <2>1. IsFiniteSet(rest)
    BY <1>2, FS_Difference
  <2> QED
    BY <1>3, <1>4, <2>1
<1>7. Cardinality(got) = (next - a.nextSeq) + Cardinality(rest) /\ Cardinality(rest) \in Nat
  <2> HIDE DEF next, got
  <2>1. got \cap 0..(next - 1) = a.nextSeq..(next - 1)
    BY <1>a, <1>3, <1>4
  <2>2. Cardinality(rest) = Cardinality(got) - Cardinality(got \cap 0..(next - 1))
    BY <1>2, FS_Difference
  <2>3. Cardinality(a.nextSeq..(next - 1)) = next - a.nextSeq
    <3>1. /\ a.nextSeq \in Int /\ next - 1 \in Int
          /\ (IF a.nextSeq > next - 1 THEN 0 ELSE (next - 1) - a.nextSeq + 1) = next - a.nextSeq
      BY <1>a, <1>3
    <3> QED
      BY <3>1, FS_Interval
  <2>4. Cardinality(rest) \in Nat /\ Cardinality(got) \in Nat
    BY <1>2, <1>6, FS_CardinalityType
  <2>5. Cardinality(rest) = Cardinality(got) - (next - a.nextSeq)
    BY <2>1, <2>2, <2>3
  <2> HIDE DEF rest
  <2> QED
    BY <1>a, <1>3, <2>4, <2>5
<1>8. 0..(next - 1) \cup rest = Got(a) \cup {seq}
  <2>1. 0..(next - 1) \subseteq 0..(a.nextSeq - 1) \cup got
    <3> HIDE DEF next, got
    <3> QED
      BY <1>a, <1>3
  <2>2. 0..(a.nextSeq - 1) \subseteq 0..(next - 1)
    <3> HIDE DEF next, got
    <3> QED
      BY <1>a, <1>3
  <2> HIDE DEF next
  <2> QED
    BY <2>1, <2>2 DEF Got
<1>9. /\ DOMAIN b = AsmFields /\ b.nextSeq = next /\ b.pending = rest
      /\ b.receivedBytes = a.receivedBytes + Length(seq)
      /\ b.lastSeq = (IF seq = LastSeq THEN seq ELSE a.lastSeq)
      /\ b.digest = done /\ b.ended = a.ended
  <2> HIDE DEF next, done
  <2> QED
    BY <1>a DEF AsmFields
<1> HIDE DEF b, next, got, rest
<1>10. Got(b) = Got(a) \cup {seq}
  BY <1>8, <1>9 DEF Got
<1>11. /\ Final(sender.size) = LastSeq /\ LastSeq \in Nat /\ Count = LastSeq + 1
       /\ seq \in 0..LastSeq /\ seq \notin Got(a)
  <2>1. Final(sender.size) = LastSeq /\ LastSeq \in Nat /\ Count = LastSeq + 1
    BY LastChunk DEF Final, LastSeq, Count
  <2> QED
    BY <1>a, <1>1, <2>1 DEF Got
<1>12. b.lastSeq = LastSeq <=> LastSeq \in Got(b)
  BY <1>9, <1>10, <1>11 DEF AsmOK
<1>13. b.digest <=> b.nextSeq = LastSeq + 1
  <2>1. next = LastSeq + 1 => LastSeq \in Got(b)
    BY <1>9, <1>11 DEF Got
  <2> QED
    BY <1>9, <1>12, <2>1
<1>14. b.receivedBytes = ChunkSize * (next + Cardinality(rest))
                         - (IF LastSeq \in Got(b) THEN ChunkSize * (LastSeq + 1) - sender.size ELSE 0)
  <2> DEFINE k == a.nextSeq + Cardinality(a.pending)
  <2>1. k \in Nat /\ next + Cardinality(rest) = k + 1
    BY <1>a, <1>2, <1>3, <1>7, FS_CardinalityType
  <2>2. a.receivedBytes = ChunkSize * k
                          - (IF LastSeq \in Got(a) THEN ChunkSize * (LastSeq + 1) - sender.size ELSE 0)
    BY <1>11 DEF AsmOK
  <2>3. Length(seq) = IF seq = LastSeq THEN sender.size - ChunkSize * LastSeq ELSE ChunkSize
    BY <1>11, LengthIs
  <2> HIDE DEF k
  <2>4. ChunkSize * (k + 1) = ChunkSize * k + ChunkSize /\ ChunkSize * k \in Nat
    BY <2>1, Product, ChunkSizeIs
  <2>5. ChunkSize * (LastSeq + 1) = ChunkSize * LastSeq + ChunkSize /\ ChunkSize * LastSeq \in Nat
    BY <1>11, Product, ChunkSizeIs
  <2>6. CASE seq = LastSeq
    BY <1>9, <1>10, <1>11, <2>1, <2>2, <2>3, <2>4, <2>5, <2>6, ChunkSizeIs
  <2>7. CASE seq # LastSeq
    BY <1>9, <1>10, <1>11, <2>1, <2>2, <2>3, <2>4, <2>5, <2>7, ChunkSizeIs
  <2> QED
    BY <2>6, <2>7
<1>15. AsmOK(b, n, sender.size)
  BY <1>3, <1>5, <1>6, <1>9, <1>11, <1>12, <1>13, <1>14 DEF AsmOK
<1> QED
  BY <1>1, <1>9, <1>10, <1>15

\* A chunk of a file of the size that was offered breaks no rule.
LEMMA NotRefused ==
    ASSUME sender.size \in Nat, sender.seq \in Nat, sender.seq <= Count, sender.size = Announced,
           NEW a, AsmOK(a, sender.seq, sender.size), NEW seq \in 0..(sender.seq - 1)
    PROVE  AcceptChunk(a, seq).verdict # "abort"
<1> SUFFICES ASSUME AcceptChunk(a, seq).verdict = "abort" PROVE FALSE
  OBVIOUS
<1>1. /\ LastSeq \in Nat /\ Count = LastSeq + 1 /\ seq \in 0..LastSeq
  BY LastChunk
<1>2. AsmOK(a, Count, sender.size)
  BY <1>1, AsmLater
<1>3. ~ (seq < a.nextSeq \/ seq \in a.pending)
  BY DEF AcceptChunk
<1>4. seq \in (0..LastSeq) \ Got(a)
  BY <1>1, <1>3 DEF Got, AsmOK
<1>5. seq < ChunkCount(Announced, ChunkDataSize)
  <2>1. ChunkCount(sender.size, ChunkDataSize) \in Int
    BY LimitsAssumption DEF ChunkCount
  <2> QED
    BY <1>1, <2>1, FloorCount
<1>6. ~ (Length(seq) = 0 /\ seq # LastSeq)
  BY <1>1, LengthIs
<1>7. ~ (a.receivedBytes + Length(seq) > Announced)
  <2>1. a.receivedBytes \in Nat /\ Length(seq) \in Nat
    BY <1>1, <1>2, BytesWithin, LengthIs, ChunkSizeIs
  <2> QED
    BY <1>2, <1>4, <2>1, BytesWithin
<1>8. Before(LastSeq + 1) = Announced
  BY <1>1, BeforeCount
<1>9. ChunkCount(Announced, ChunkDataSize) \in Int
  BY LimitsAssumption DEF ChunkCount
<1> QED
  BY <1>1, <1>3, <1>5, <1>6, <1>7, <1>8, <1>9 DEF AcceptChunk

-----------------------------------------------------------------------------
(* The phases of a receive. *)

Early == {"idle", "painting", "opening"}

\* While a transfer streams no copy of its status is behind.
StatusInv ==
    /\ friend \/ sender.left
    /\ pc \in Early \cup {"receiving", "over"}
    /\ state.status = "streaming" =>
          shown.status = "streaming" /\ ref.status = "streaming" /\ pc \notin {"idle", "over"}

\* Before the peer is told to stream it has not started, and nothing is booked.
EarlyInv ==
    pc \in Early =>
        /\ ~ sender.started /\ sender.seq = 0 /\ sender.acked = 0
        /\ wire \subseteq {Offer}
        /\ toSender \in Seq({Frame("reject", 0)})
        /\ asm = NoAsm /\ book = NoBook /\ ~ armed

\* What main and worker have said to each other by then.
OpenInv ==
    /\ pc \in {"idle", "painting"} => toWorker = <<>> /\ toMain = <<>>
    /\ pc = "opening" =>
          /\ disk
          /\ \/ toWorker = <<Frame("start", 0)>> /\ toMain = <<>>
             \/ toWorker = <<>> /\ toMain = <<Frame("startFailed", 0)>>
             \/ /\ toWorker = <<>> /\ toMain = <<Frame("startReady", 0)>>
                /\ entry = [asm |-> NewAsm, lastAcked |-> 0]

PhaseInv == StatusInv /\ EarlyInv /\ OpenInv

LEMMA InitPhase == Init => PhaseInv
<1> SUFFICES ASSUME Init PROVE PhaseInv
  OBVIOUS
<1>1. StatusInv /\ OpenInv
  BY DEF Init, StatusInv, OpenInv, Entry, Early
<1>2. ~ sender.started /\ sender.seq = 0 /\ sender.acked = 0
  BY DEF Init
<1>3. <<>> \in Seq({Frame("reject", 0)})
  OBVIOUS
<1> QED
  BY <1>1, <1>2, <1>3 DEF Init, PhaseInv, EarlyInv, Offer

\* Who sends, hears or stops is the sender.
LEMMA SenderSteps == [Next]_vars => sender' = sender \/ SenderStops \/ Hear \/ SendChunk
<1>1. TransferOffer \/ TransferEnd \/ PeerLeft \/ Lost \/ UNCHANGED vars => sender' = sender
  BY DEF TransferOffer, TransferEnd, Arrive, PeerLeft, Lost, netVars, vars
<1>2. \A seq \in 0..LastSeq : ChunkToWorker(seq) \/ IncomingChunk(seq) => sender' = sender
  BY DEF ChunkToWorker, IncomingChunk, Arrive
<1>3. Accepting \/ Worker \/ OnWorker \/ ReceiveStall => sender' = sender
  BY DEF Accepting, PaintedMemory, PaintedDisk, OpenTimeout, Worker, WorkerStart,
     WorkerFrame, WorkerAbort, HandOver, OnWorker, StartReady, WorkerGaveUp, NeedAck, FromWorker,
     ReceiveStall, netVars
<1>4. AcceptIncoming \/ RejectIncoming \/ Dismiss \/ Render \/ RunEffects => sender' = sender
  BY DEF AcceptIncoming, RejectIncoming, Dismiss, Render, RunEffects, netVars
<1> QED
  BY <1>1, <1>2, <1>3, <1>4 DEF Next, OnFrame

LEMMA StatusNext == ASSUME ListInv, WholeInv, PhaseInv, [Next]_vars PROVE StatusInv'
<1> USE DEF StatusInv, PhaseInv, Early
<1>l. sender.left => sender'.left
  <2>1. CASE sender' = sender
    BY <2>1
  <2>2. CASE SenderStops \/ Hear \/ SendChunk
    BY <2>2 DEF SenderStops, Hear, SendChunk, WholeInv, SenderFields
  <2> QED
    BY <2>1, <2>2, SenderSteps
<1>e. \A s \in Statuses : Entry(s).status = s
  BY EntryFacts
<1>s. Statuses = {"none", "offered", "streaming", "done", "aborted"} /\ Settled = {"done", "aborted"}
  BY DEF Statuses, Settled
<1>m. \A from : \A s \in Statuses \ {"streaming"} :
         Moved(state, from, s).status = "streaming" => state.status = "streaming" /\ "streaming" \notin from
  BY MovedFacts DEF ListInv
<1>1. CASE TransferOffer
  BY <1>1, <1>l, <1>e, <1>s DEF TransferOffer, recvVars
<1>a. ASSUME NEW v, Finalize(v) PROVE state'.status # "streaming"
  BY <1>a, <1>e, <1>s DEF Finalize
<1>2. CASE TransferEnd
  BY <1>2, <1>l, <1>a DEF TransferEnd, Arrive
<1>3. ASSUME NEW seq \in 0..LastSeq, ChunkToWorker(seq) \/ IncomingChunk(seq) PROVE StatusInv'
  BY <1>3, <1>l, <1>a DEF ChunkToWorker, IncomingChunk, Arrive
<1>4. CASE PeerLeft
  BY <1>4, <1>l, <1>m, <1>s DEF PeerLeft, netVars
<1>b. AbortOfferLocal => state'.status # "streaming" /\ pc' = "over"
  BY <1>m, <1>s DEF AbortOfferLocal
<1>c. TellPeer /\ UNCHANGED shown /\ pc \in {"painting", "opening"} =>
         /\ pc' \in {"receiving", "over"}
         /\ state'.status = "streaming" =>
               shown'.status = "streaming" /\ ref'.status = "streaming" /\ pc' = "receiving"
  BY <1>b DEF TellPeer
<1>5. CASE PaintedMemory \/ PaintedDisk \/ OpenTimeout
  BY <1>5, <1>b, <1>c, <1>l DEF PaintedMemory, PaintedDisk, OpenTimeout, netVars
<1>6. CASE WorkerStart \/ WorkerFrame \/ WorkerAbort
  BY <1>6, <1>l DEF WorkerStart, WorkerFrame, WorkerAbort, HandOver, recvVars
<1>7. CASE StartReady \/ NeedAck
  BY <1>7, <1>c, <1>l DEF StartReady, NeedAck, FromWorker
<1>8. CASE WorkerGaveUp
  BY <1>8, <1>e, <1>s, <1>l DEF WorkerGaveUp, FromWorker
<1>9. CASE ReceiveStall
  BY <1>9, <1>m, <1>s, <1>l DEF ReceiveStall, netVars
<1>10. CASE AcceptIncoming
  BY <1>10, <1>l DEF AcceptIncoming, Click
<1>11. CASE RejectIncoming \/ Dismiss
  BY <1>11, <1>m, <1>e, <1>s, <1>l DEF RejectIncoming, Dismiss, Click, recvVars
<1>12. CASE Render \/ RunEffects
  <2>1. Linked(state).status = state.status
    BY LinkedFacts DEF ListInv
  <2> QED
    BY <1>12, <1>l, <2>1 DEF Render, RunEffects, Effects, recvVars
<1>13. CASE Hear \/ SendChunk \/ SenderStops \/ Lost \/ UNCHANGED vars
  BY <1>13, <1>l DEF Hear, SendChunk, SenderStops, Lost, vars, recvVars
<1> QED
  BY <1>1, <1>2, <1>3, <1>4, <1>5, <1>6, <1>7, <1>8, <1>9, <1>10, <1>11, <1>12, <1>13
     DEF Next, OnFrame, Accepting, Worker, OnWorker

\* acceptIncomingTransfer is run once.
LEMMA EarlyStart == ASSUME [Next]_vars, pc' \in Early PROVE pc \in Early
<1> USE DEF Early
<1>1. pc' = pc => pc \in Early
  OBVIOUS
<1>2. TransferOffer \/ TransferEnd \/ PeerLeft \/ Lost \/ UNCHANGED vars => pc' = pc
  BY DEF TransferOffer, TransferEnd, Arrive, PeerLeft, Lost, recvVars, vars
<1>3. \A seq \in 0..LastSeq : ChunkToWorker(seq) \/ IncomingChunk(seq) => pc' = pc
  BY DEF ChunkToWorker, IncomingChunk, Arrive
<1>4. Accepting => pc \in Early
  BY DEF Accepting, PaintedMemory, PaintedDisk, OpenTimeout
<1>5. Worker \/ ReceiveStall => pc' = pc
  BY DEF Worker, WorkerStart, WorkerFrame, WorkerAbort, HandOver, recvVars, ReceiveStall
<1>6. OnWorker => pc \in Early
  BY DEF OnWorker, StartReady, WorkerGaveUp, NeedAck, TellPeer, AbortOfferLocal
<1>7. AcceptIncoming \/ RejectIncoming \/ Dismiss \/ Render \/ RunEffects => pc \in Early \/ pc' = pc
  BY DEF AcceptIncoming, RejectIncoming, Dismiss, Render, RunEffects, recvVars
<1>8. Hear \/ SendChunk \/ SenderStops => pc' = pc
  BY DEF Hear, SendChunk, SenderStops, recvVars
<1> QED
  BY <1>1, <1>2, <1>3, <1>4, <1>5, <1>6, <1>7, <1>8 DEF Next, OnFrame

LEMMA EarlyNext == ASSUME ListInv, WholeInv, PhaseInv, [Next]_vars PROVE EarlyInv'
<1> SUFFICES ASSUME pc' \in Early PROVE EarlyInv'
  BY DEF EarlyInv
<1> USE DEF PhaseInv, EarlyInv
<1>f. \A k, n : Frame(k, n).kind = k
  BY DEF Frame
<1>o. \A f \in wire : f.kind = "offer"
      \/ pc \notin Early
  BY <1>f DEF Offer
<1>p. pc \in Early
  BY EarlyStart
<1>1. CASE TransferOffer
  BY <1>1, <1>p DEF TransferOffer, recvVars
<1>2. /\ ~ TransferEnd
      /\ \A seq \in 0..LastSeq : ~ (ChunkToWorker(seq) \/ IncomingChunk(seq))
  BY <1>p, <1>o, <1>f DEF TransferEnd, ChunkToWorker, IncomingChunk, Arrive
<1>3. CASE PeerLeft
  BY <1>3, <1>p DEF PeerLeft, netVars
<1>4. CASE PaintedMemory \/ OpenTimeout
  BY <1>4 DEF PaintedMemory, OpenTimeout, TellPeer, AbortOfferLocal, Early
<1>5. CASE PaintedDisk
  BY <1>5, <1>p DEF PaintedDisk, netVars
<1>6. CASE WorkerStart \/ WorkerFrame \/ WorkerAbort
  BY <1>6, <1>p DEF WorkerStart, WorkerFrame, WorkerAbort, HandOver, recvVars, netVars
<1>7. CASE StartReady
  <2>1. pc = "opening"
    BY <1>7, <1>p, <1>f DEF StartReady, FromWorker, OpenInv, Early
  <2> QED
    BY <1>7, <2>1 DEF StartReady, TellPeer, AbortOfferLocal, Early
<1>8. CASE WorkerGaveUp
  <2>1. pc = "opening"
    BY <1>8, <1>p, <1>f DEF WorkerGaveUp, FromWorker, OpenInv, Early
  <2> QED
    BY <1>8, <2>1 DEF WorkerGaveUp, Early
<1>9. CASE NeedAck
  BY <1>9, <1>p, <1>f DEF NeedAck, FromWorker, OpenInv, Early
<1>10. CASE ReceiveStall
  BY <1>10, <1>p DEF ReceiveStall
<1>11. CASE AcceptIncoming \/ Dismiss
  BY <1>11, <1>p DEF AcceptIncoming, Dismiss, netVars
<1>12. CASE RejectIncoming
  <2>1. toSender' \in Seq({Frame("reject", 0)})
    BY <1>12, <1>p, AppendProperties DEF RejectIncoming, Send
  <2> QED
    BY <1>12, <1>p, <2>1 DEF RejectIncoming, recvVars
<1>13. CASE Render \/ RunEffects \/ UNCHANGED vars
  BY <1>13, <1>p DEF Render, RunEffects, recvVars, netVars, vars
<1>14. CASE Hear
  <2>1. toSender \in Seq({Frame("reject", 0)}) /\ toSender # <<>>
    BY <1>14, <1>p DEF Hear
  <2>2. Tail(toSender) \in Seq({Frame("reject", 0)}) /\ Head(toSender) = Frame("reject", 0)
    BY <2>1, HeadTailProperties
  <2>3. /\ sender'.started = (sender.started \/ Head(toSender).kind = "accept")
        /\ sender'.seq = sender.seq
        /\ sender'.acked = IF Head(toSender).kind = "ack" THEN Head(toSender).n ELSE sender.acked
    BY <1>14 DEF Hear, WholeInv, SenderFields
  <2>4. ~ sender'.started /\ sender'.seq = 0 /\ sender'.acked = 0
    <3>1. Head(toSender).kind = "reject"
      BY <1>f, <2>2
    <3>2. ~ sender.started /\ sender.seq = 0 /\ sender.acked = 0
      BY <1>p
    <3> QED
      BY <2>3, <3>1, <3>2
  <2> QED
    BY <1>14, <1>p, <2>2, <2>4 DEF Hear, recvVars
<1>15. CASE SendChunk
  BY <1>15, <1>p DEF SendChunk, SenderWaits
<1>16. CASE SenderStops
  <2>1. sender'.started = sender.started /\ sender'.seq = sender.seq /\ sender'.acked = sender.acked
    BY <1>16 DEF SenderStops, WholeInv, SenderFields
  <2> QED
    BY <1>16, <1>p, <2>1 DEF SenderStops, recvVars
<1>17. CASE Lost
  <2>1. <<>> \in Seq({Frame("reject", 0)})
    OBVIOUS
  <2> QED
    BY <1>17, <1>p, <2>1 DEF Lost, recvVars
<1> QED
  BY <1>1, <1>2, <1>3, <1>4, <1>5, <1>6, <1>7, <1>8, <1>9, <1>10, <1>11, <1>12, <1>13,
     <1>14, <1>15, <1>16, <1>17 DEF Next, OnFrame, Accepting, Worker, OnWorker

LEMMA OpenNext == ASSUME ListInv, WholeInv, PhaseInv, [Next]_vars PROVE OpenInv'
<1> SUFFICES ASSUME pc' \in Early PROVE OpenInv'
  BY DEF OpenInv, Early
<1> USE DEF PhaseInv, Early
<1>f. \A k, n : Frame(k, n).kind = k
  BY DEF Frame
<1>d. disk' = disk
  BY ApartNext
<1>p. pc \in Early
  BY EarlyStart
<1>o. /\ \A f \in wire : f.kind = "offer"
      /\ ~ armed
  BY <1>f, <1>p DEF Offer, EarlyInv
<1>1. CASE pc' = pc /\ UNCHANGED workerVars
  BY <1>1, <1>d DEF OpenInv, workerVars
<1>2. CASE TransferOffer \/ PeerLeft \/ RejectIncoming \/ Dismiss \/ Render \/ RunEffects
           \/ Hear \/ SendChunk \/ SenderStops \/ Lost \/ UNCHANGED vars
  BY <1>1, <1>2 DEF TransferOffer, PeerLeft, RejectIncoming, Dismiss, Render, RunEffects,
     Hear, SendChunk, SenderStops, Lost, vars, recvVars
<1>3. /\ ~ TransferEnd
      /\ \A seq \in 0..LastSeq : ~ (ChunkToWorker(seq) \/ IncomingChunk(seq))
  BY <1>o, <1>f DEF TransferEnd, ChunkToWorker, IncomingChunk, Arrive
<1>4. ~ (PaintedMemory \/ OpenTimeout \/ ReceiveStall)
  BY <1>o DEF PaintedMemory, OpenTimeout, TellPeer, AbortOfferLocal, ReceiveStall
<1>5. CASE AcceptIncoming
  BY <1>5 DEF AcceptIncoming, OpenInv, workerVars
<1>6. CASE PaintedDisk
  <2>1. toWorker' = Append(<<>>, Frame("start", 0)) /\ toMain' = <<>> /\ disk /\ pc' = "opening"
    BY <1>6 DEF PaintedDisk, OpenInv
  <2>2. Append(<<>>, Frame("start", 0)) = <<Frame("start", 0)>>
    OBVIOUS
  <2> QED
    BY <1>d, <2>1, <2>2 DEF OpenInv
<1>7. CASE WorkerStart
  <2>1. /\ toWorker = <<Frame("start", 0)>> /\ toMain = <<>> /\ disk
        /\ pc = "opening" /\ pc' = "opening" /\ toWorker' = Tail(toWorker)
        /\ \/ /\ entry' = [asm |-> NewAsm, lastAcked |-> 0]
              /\ toMain' = Append(<<>>, Frame("startReady", 0))
           \/ toMain' = Append(<<>>, Frame("startFailed", 0))
    BY <1>7, <1>p DEF WorkerStart, HandOver, OpenInv, recvVars
  <2>2. \A m : Append(<<>>, m) = <<m>> /\ Tail(<<m>>) = <<>>
    OBVIOUS
  <2> QED
    BY <1>d, <2>1, <2>2 DEF OpenInv
<1>8. ~ (WorkerFrame \/ WorkerAbort)
  <2>1. toWorker # <<>> => toWorker = <<Frame("start", 0)>>
    BY <1>p DEF OpenInv
  <2>2. toWorker # <<>> => Head(toWorker).kind = "start"
    BY <2>1, <1>f
  <2> QED
    BY <2>2 DEF WorkerFrame, WorkerAbort, HandOver
<1>9. ~ (StartReady \/ WorkerGaveUp \/ NeedAck)
  <2>1. toMain # <<>> => pc = "opening" /\ toMain \in {<<Frame("startReady", 0)>>, <<Frame("startFailed", 0)>>}
    BY <1>p DEF OpenInv
  <2>2. toMain # <<>> => pc = "opening" /\ Head(toMain).kind # "needAck"
    BY <2>1, <1>f
  <2> QED
    BY <2>2 DEF StartReady, WorkerGaveUp, NeedAck, FromWorker, TellPeer, AbortOfferLocal
<1> QED
  BY <1>2, <1>3, <1>4, <1>5, <1>6, <1>7, <1>8, <1>9 DEF Next, OnFrame, Accepting, Worker, OnWorker

LEMMA NextPhase == ASSUME ListInv, WholeInv, PhaseInv, [Next]_vars PROVE PhaseInv'
  BY StatusNext, EarlyNext, OpenNext DEF PhaseInv

-----------------------------------------------------------------------------
(* Chunks and acks on their way. *)

LEMMA TailFacts ==
    ASSUME NEW S, NEW q \in Seq(S), q # <<>>
    PROVE  /\ Len(q) \in Nat \ {0} /\ Head(q) = q[1] /\ q[1] \in S
           /\ Tail(q) \in Seq(S) /\ Len(Tail(q)) = Len(q) - 1
           /\ \A i \in 1..(Len(q) - 1) : Tail(q)[i] = q[i + 1]
  OBVIOUS

LEMMA AppendFacts ==
    ASSUME NEW S, NEW q \in Seq(S), NEW e \in S
    PROVE  /\ Append(q, e) \in Seq(S) /\ Len(q) \in Nat /\ Len(Append(q, e)) = Len(q) + 1
           /\ Append(q, e)[Len(q) + 1] = e
           /\ \A i \in 1..Len(q) : Append(q, e)[i] = q[i]
  OBVIOUS

\* A receive that streams: the messages and frames it may have on their way.
Streams == state.status = "streaming" /\ pc = "receiving" /\ friend /\ online

MessagesToWorker == [kind : {"frame"}, n : Nat]

MessagesToMain == [kind : {"needAck", "aborted"}, n : Nat]

FramesToSender == [kind : {"reject", "accept", "ack"}, n : Nat]

\* The worker gave up and main has not heard of it.
Refused == \E i \in 1..Len(toMain) : toMain[i].kind = "aborted"

Assembler == IF disk THEN entry.asm ELSE asm

\* Every chunk that was sent was taken in or is on its way.
TakenInv ==
    Streams =>
        /\ toWorker \in Seq(MessagesToWorker)
        /\ \A i \in 1..Len(toWorker) : toWorker[i].n < sender.seq
        /\ toMain \in Seq(MessagesToMain)
        /\ Refused => entry.asm = NoAsm
        /\ ~ Refused =>
              /\ AsmOK(Assembler, sender.seq, sender.size)
              /\ \A s \in 0..(sender.seq - 1) :
                    \/ s \in Got(Assembler)
                    \/ Frame("chunk", s) \in wire
                    \/ \E i \in 1..Len(toWorker) : toWorker[i].n = s

\* The last ack that was booked is the last one on its way, or was heard.
AcksBooked ==
    /\ toSender = <<>> => sender.acked = book
    /\ toSender # <<>> =>
          \/ toSender[Len(toSender)] = Frame("ack", book)
          \/ /\ toSender[Len(toSender)].kind = "accept"
             /\ book = 0 /\ sender.acked = 0
             /\ \A i \in 1..Len(toSender) : toSender[i].kind # "ack"

\* Main will book every ack the worker asks for.
NeedsBooked ==
    /\ toMain = <<>> => entry.lastAcked = book
    /\ toMain # <<>> =>
          /\ entry.lastAcked = toMain[Len(toMain)].n
          /\ ShouldAck(toMain[1].n, book, Window)
          /\ \A i \in 1..(Len(toMain) - 1) : ShouldAck(toMain[i + 1].n, toMain[i].n, Window)

\* No ack is owed for what was taken in, and none is lost on its way.
AcksInv ==
    Streams =>
        /\ toSender \in Seq(FramesToSender)
        /\ ~ sender.started => \E i \in 1..Len(toSender) : toSender[i].kind = "accept"
        /\ book \in Nat
        /\ AcksBooked
        /\ ~ Refused =>
              /\ ~ ShouldAck(Assembler.receivedBytes, IF disk THEN entry.lastAcked ELSE book, Window)
              /\ disk => NeedsBooked

\* In memory the end is on its way or taken in once the last chunk is sent,
\* and a digest is compared with it at once.
EndsInv ==
    (Streams /\ ~ disk) =>
        /\ ~ (asm.digest /\ asm.ended)
        /\ sender.seq = LastSeq + 1 => asm.ended \/ Frame("end", 0) \in wire

StreamInv == TakenInv /\ AcksInv /\ EndsInv

LEMMA InitStream == Init => StreamInv
<1>1. Init => ~ Streams
  BY DEF Init, Streams
<1> QED
  BY <1>1 DEF StreamInv, TakenInv, AcksInv, EndsInv

\* The way is opened, with nothing on it yet.
Starts ==
    /\ UNCHANGED <<disk, wire, sender, toWorker>>
    /\ sender.seq = 0 /\ sender.acked = 0
    /\ wire \subseteq {Offer}
    /\ toWorker' = <<>> /\ toMain' = <<>>
    /\ book' = 0
    /\ toSender \in Seq({Frame("reject", 0)})
    /\ toSender' = Append(toSender, Frame("accept", 0))
    /\ disk => entry' = [asm |-> NewAsm, lastAcked |-> 0]
    /\ ~ disk => asm' = NewAsm

\* A step that leaves what is on its way alone.
Beside ==
    /\ UNCHANGED <<asm, entry, book, disk, toWorker, toMain, toSender>>
    /\ SameFile /\ sender'.started = sender.started /\ sender'.acked = sender.acked
    /\ \A f \in wire : f.kind # "offer" => f \in wire'

LEMMA StreamSteps ==
    ASSUME ListInv, WholeInv, PhaseInv, TakenInv, [Next]_vars, Streams'
    PROVE  \/ Starts
           \/ /\ Streams
              /\ \/ Beside \/ Hear \/ SendChunk \/ TransferEnd \/ WorkerFrame \/ NeedAck
                 \/ \E seq \in 0..LastSeq : ChunkToWorker(seq) \/ IncomingChunk(seq)
<1> USE DEF Streams, PhaseInv, StatusInv, ListInv
<1>f. \A k, n : Frame(k, n).kind = k
  BY DEF Frame
<1>e. \A s \in Statuses : Entry(s).status = s
  BY EntryFacts
<1>s. Statuses = {"none", "offered", "streaming", "done", "aborted"} /\ Settled = {"done", "aborted"}
  BY DEF Statuses, Settled
<1>m. \A from : \A s \in Statuses \ {"streaming"} :
         Moved(state, from, s).status = "streaming" => state.status = "streaming" /\ "streaming" \notin from
  BY MovedFacts
<1>d. disk' = disk
  BY ApartNext
<1>w. Streams => /\ toWorker # <<>> => Head(toWorker).kind = "frame"
                 /\ toMain # <<>> => Head(toMain).kind \in {"needAck", "aborted"}
  <2> SUFFICES ASSUME Streams PROVE /\ toWorker # <<>> => Head(toWorker).kind = "frame"
                                    /\ toMain # <<>> => Head(toMain).kind \in {"needAck", "aborted"}
    OBVIOUS
  <2>1. toWorker \in Seq(MessagesToWorker) /\ toMain \in Seq(MessagesToMain)
    BY DEF TakenInv
  <2>2. /\ toWorker # <<>> => Head(toWorker) \in MessagesToWorker
        /\ toMain # <<>> => Head(toMain) \in MessagesToMain
    BY <2>1, TailFacts
  <2> QED
    BY <2>2 DEF MessagesToWorker, MessagesToMain
<1>b. UNCHANGED <<asm, entry, book, toWorker, toMain, toSender, wire, sender>> => Beside
  BY <1>d DEF Beside, SameFile
<1>1. CASE TransferOffer
  <2>1. Beside
    BY <1>1, <1>d, <1>f DEF TransferOffer, Beside, SameFile, recvVars, workerVars
  <2>2. Streams
    BY <1>1, <1>e, <1>s DEF TransferOffer, recvVars
  <2> QED
    BY <2>1, <2>2
<1>2. CASE TransferEnd
  BY <1>2, <1>e, <1>s DEF TransferEnd, Arrive, Finalize
<1>3. ASSUME NEW seq \in 0..LastSeq, ChunkToWorker(seq) \/ IncomingChunk(seq) PROVE Streams
  BY <1>3, <1>e, <1>s DEF ChunkToWorker, IncomingChunk, Arrive, Finalize
<1>4. ~ (PeerLeft \/ PaintedDisk \/ OpenTimeout \/ AcceptIncoming \/ Lost)
  BY DEF PeerLeft, PaintedDisk, OpenTimeout, AbortOfferLocal, AcceptIncoming, Lost
<1>t. TellPeer => ref.status = "streaming" /\ friend /\ book' = 0 /\ Send(Frame("accept", 0))
  BY DEF TellPeer, AbortOfferLocal
<1>5. CASE PaintedMemory
  <2>1. pc \in Early /\ TellPeer /\ pc = "painting" /\ ~ disk
    BY <1>5 DEF PaintedMemory, Early
  <2>2. /\ asm' = NewAsm /\ online' = online /\ wire' = wire /\ sender' = sender
        /\ toWorker' = toWorker /\ toMain' = toMain
    BY <1>5 DEF PaintedMemory, workerVars
  <2> QED
    BY <1>d, <1>t, <2>1, <2>2 DEF Starts, EarlyInv, OpenInv, Send
<1>6. CASE StartReady
  <2>1. /\ Head(toMain).kind = "startReady" /\ toMain # <<>> /\ toMain' = Tail(toMain)
        /\ UNCHANGED <<friend, entry, toWorker, online, wire, sender>>
    BY <1>6 DEF StartReady, FromWorker
  <2>2. pc = "opening" /\ TellPeer
    <3> SUFFICES ASSUME pc # "opening" PROVE FALSE
      BY <1>6 DEF StartReady
    <3>1. Streams
      BY <1>6, <2>1 DEF StartReady
    <3> QED
      BY <1>w, <2>1, <3>1
  <2>3. /\ toMain = <<Frame("startReady", 0)>> /\ toWorker = <<>> /\ disk
        /\ entry = [asm |-> NewAsm, lastAcked |-> 0]
    BY <1>f, <2>1, <2>2 DEF OpenInv
  <2>4. toMain' = <<>>
    BY <2>1, <2>3
  <2> QED
    BY <1>d, <1>t, <2>1, <2>2, <2>3, <2>4 DEF Starts, EarlyInv, Early, Send
<1>7. ~ (WorkerStart \/ WorkerAbort)
  <2> SUFFICES ASSUME WorkerStart \/ WorkerAbort PROVE FALSE
    OBVIOUS
  <2>1. Streams /\ toWorker # <<>> /\ Head(toWorker).kind \in {"start", "abort"}
    BY DEF WorkerStart, WorkerAbort, HandOver, recvVars, netVars
  <2> QED
    BY <1>w, <2>1
<1>8. CASE WorkerFrame
  BY <1>8 DEF WorkerFrame, HandOver, recvVars, netVars
<1>9. ~ WorkerGaveUp
  BY <1>e, <1>s DEF WorkerGaveUp
<1>10. CASE NeedAck
  BY <1>10 DEF NeedAck, FromWorker
<1>11. ~ ReceiveStall
  BY <1>m, <1>s DEF ReceiveStall
<1>12. ~ (RejectIncoming \/ Dismiss)
  <2>1. ~ Dismiss
    BY <1>e, <1>s DEF Dismiss, Click
  <2>2. RejectIncoming => shown.status = "offered" /\ state' = Moved(state, {"offered"}, "none")
    BY DEF RejectIncoming, Click
  <2>3. RejectIncoming => state.status = "streaming"
    BY <1>m, <1>s, <2>2
  <2> QED
    BY <2>1, <2>2, <2>3
<1>13. CASE Render \/ RunEffects
  <2>1. Linked(state).status = state.status
    BY LinkedFacts
  <2>2. Streams
    BY <1>13, <2>1 DEF Render, RunEffects, Effects, recvVars, netVars
  <2>3. UNCHANGED <<asm, entry, book, toWorker, toMain, toSender, wire, sender>>
    BY <1>13 DEF Render, RunEffects, recvVars, workerVars, netVars
  <2> QED
    BY <1>b, <2>2, <2>3
<1>14. CASE Hear \/ SendChunk
  BY <1>14 DEF Hear, SendChunk, recvVars
<1>15. CASE SenderStops
  <2>1. /\ sender'.started = sender.started /\ sender'.acked = sender.acked
        /\ SameFile
    BY <1>15 DEF SenderStops, WholeInv, SenderFields, SameFile
  <2> QED
    BY <1>15, <1>d, <2>1 DEF SenderStops, Beside, recvVars, workerVars
<1>16. CASE UNCHANGED vars
  BY <1>16, <1>b DEF vars, recvVars, workerVars, netVars
<1> QED
  BY <1>1, <1>2, <1>3, <1>4, <1>5, <1>6, <1>7, <1>8, <1>9, <1>10, <1>11, <1>12, <1>13,
     <1>14, <1>15, <1>16 DEF Next, OnFrame, Accepting, Worker, OnWorker

LEMMA AsmEnded ==
    ASSUME NEW a, NEW sent, NEW size, AsmOK(a, sent, size)
    PROVE  LET b == [a EXCEPT !.ended = TRUE]
           IN  /\ AsmOK(b, sent, size) /\ Got(b) = Got(a)
               /\ b.receivedBytes = a.receivedBytes /\ b.digest = a.digest /\ b.ended
<1> DEFINE b == [a EXCEPT !.ended = TRUE]
<1>1. /\ DOMAIN b = AsmFields /\ b.nextSeq = a.nextSeq /\ b.pending = a.pending
      /\ b.receivedBytes = a.receivedBytes /\ b.lastSeq = a.lastSeq /\ b.digest = a.digest
      /\ b.ended
  BY DEF AsmOK, AsmFields
<1> HIDE DEF b
<1>2. Got(b) = Got(a)
  BY <1>1 DEF Got
<1>3. AsmOK(b, sent, size)
  BY <1>1, <1>2 DEF AsmOK
<1> QED
  BY <1>1, <1>2, <1>3 DEF b

LEMMA AsmSome ==
    ASSUME NEW a, NEW sent, NEW size, AsmOK(a, sent, size)
    PROVE  a # NoAsm
  BY DEF AsmOK, NoAsm

\* What a frame on its way is taken off of.
LEMMA ArriveKeeps ==
    ASSUME NEW f, Arrive(f)
    PROVE  /\ f \in wire /\ \A g \in wire : g # f => g \in wire'
           /\ UNCHANGED <<ref, friend, disk, entry, toMain, sender, pc, online>>
  BY DEF Arrive

LEMMA FrameIs == \A k, n, l, m : /\ Frame(k, n).kind = k /\ Frame(k, n).n = n
                                 /\ Frame(k, n) = Frame(l, m) => k = l /\ n = m
<1>1. \A k, n : Frame(k, n).kind = k /\ Frame(k, n).n = n
  BY DEF Frame
<1> QED
  BY <1>1

\* What a chunk that arrives does to a receive in memory that goes on.
LEMMA ChunkSteps ==
    ASSUME ListInv, WholeInv, PhaseInv, TakenInv, Streams, Streams',
           NEW seq \in 0..LastSeq, IncomingChunk(seq)
    PROVE  /\ ~ disk /\ ~ disk' /\ ~ Refused /\ seq < sender.seq
           /\ AsmOK(asm, sender.seq, sender.size)
           /\ UNCHANGED <<toWorker, toMain, sender>>
           /\ \A f \in wire : f # Frame("chunk", seq) => f \in wire'
           /\ \/ /\ seq \in Got(asm)
                 /\ UNCHANGED <<asm, book, toSender>>
              \/ /\ AcceptChunk(asm, seq).verdict = "accepted"
                 /\ asm' = AcceptChunk(asm, seq).a
                 /\ InboundVerdict(asm') = "pending"
                 /\ MaybeSendAck(asm'.receivedBytes)
<1> USE DEF Streams, PhaseInv, StatusInv
<1>1. /\ ref.status = "streaming" /\ ~ disk
      /\ ~ ToWorker
  BY DEF IncomingChunk, ToWorker
<1>2. /\ Frame("chunk", seq) \in wire /\ UNCHANGED <<disk, toMain, sender>>
      /\ \A f \in wire : f # Frame("chunk", seq) => f \in wire'
      /\ UNCHANGED toWorker
  BY ArriveKeeps DEF IncomingChunk
<1>3. toMain = <<>> /\ toWorker = <<>>
  BY <1>1 DEF ListInv
<1>4. ~ Refused
  BY <1>3 DEF Refused
<1>5. AsmOK(asm, sender.seq, sender.size)
  BY <1>1, <1>4 DEF TakenInv, Assembler
<1>6. Assembling
  BY <1>1, <1>5, AsmSome DEF Assembling
<1>7. seq < sender.seq
  BY <1>2, FrameIs DEF WholeInv
<1>8. \A v : ~ Finalize(v)
  <2>1. \A s \in Statuses : Entry(s).status = s
    BY EntryFacts
  <2> QED
    BY <2>1 DEF Finalize, Statuses
<1>9. \/ /\ AcceptChunk(asm, seq).verdict = "duplicate"
         /\ UNCHANGED <<asm, book, toSender>>
      \/ /\ AcceptChunk(asm, seq).verdict = "accepted"
         /\ asm' = AcceptChunk(asm, seq).a
         /\ InboundVerdict(AcceptChunk(asm, seq).a) = "pending"
         /\ MaybeSendAck(AcceptChunk(asm, seq).a.receivedBytes)
  BY <1>6, <1>8 DEF IncomingChunk
<1>10. AcceptChunk(asm, seq).verdict = "duplicate" => seq \in Got(asm)
  BY <1>5 DEF AcceptChunk, Got, AsmOK
<1>11. \A a : sender' = sender => (InboundVerdict(a) = "pending" <=> ~ (a.digest /\ a.ended))
  BY DEF InboundVerdict
<1> QED
  BY <1>1, <1>2, <1>4, <1>5, <1>7, <1>9, <1>10

\* What transfer-end does to a receive that goes on.
LEMMA EndSteps ==
    ASSUME ListInv, WholeInv, PhaseInv, TakenInv, Streams, Streams', TransferEnd
    PROVE  /\ UNCHANGED <<disk, entry, book, toWorker, toMain, toSender, sender>>
           /\ \A f \in wire : f # Frame("end", 0) => f \in wire'
           /\ disk => asm' = asm
           /\ ~ disk => /\ ~ Refused /\ AsmOK(asm, sender.seq, sender.size)
                        /\ asm' = [asm EXCEPT !.ended = TRUE]
                        /\ InboundVerdict(asm') = "pending"
<1> USE DEF Streams, PhaseInv, StatusInv
<1>1. /\ UNCHANGED <<disk, entry, toWorker, toMain, toSender, sender>>
      /\ \A f \in wire : f # Frame("end", 0) => f \in wire'
  BY ArriveKeeps DEF TransferEnd
<1>2. \A v : ~ Finalize(v)
  <2>1. \A s \in Statuses : Entry(s).status = s
    BY EntryFacts
  <2> QED
    BY <2>1 DEF Finalize, Statuses
<1>3. /\ ~ Assembling => UNCHANGED <<asm, book>>
      /\ Assembling => /\ asm' = [asm EXCEPT !.ended = TRUE] /\ book' = book
                       /\ InboundVerdict([asm EXCEPT !.ended = TRUE]) = "pending"
  BY <1>2 DEF TransferEnd
<1>4. CASE disk
  BY <1>1, <1>3, <1>4 DEF Assembling, ListInv
<1>5. CASE ~ disk
  <2>1. ~ Refused
    BY <1>5 DEF Refused, ListInv
  <2>2. AsmOK(asm, sender.seq, sender.size)
    BY <1>5, <2>1 DEF TakenInv, Assembler
  <2>3. Assembling
    BY <2>2, AsmSome DEF Assembling
  <2> QED
    BY <1>1, <1>3, <1>5, <2>1, <2>2, <2>3
<1> QED
  BY <1>4, <1>5

\* What a frame does to the worker's entry.
LEMMA FrameSteps ==
    ASSUME ListInv, WholeInv, PhaseInv, TakenInv, Streams, WorkerFrame
    PROVE  LET seq == toWorker[1].n
           IN  /\ disk /\ toWorker # <<>> /\ toWorker' = Tail(toWorker)
               /\ seq \in 0..(sender.seq - 1)
               /\ UNCHANGED <<asm, book, disk, wire, toSender, sender>>
               /\ Refused => UNCHANGED <<entry, toMain>>
               /\ ~ Refused =>
                     /\ AsmOK(entry.asm, sender.seq, sender.size)
                     /\ \/ /\ seq \in Got(entry.asm)
                           /\ UNCHANGED <<entry, toMain>>
                        \/ /\ entry'.asm = NoAsm
                           /\ toMain' = Append(toMain, Frame("aborted", 0))
                        \/ /\ AcceptChunk(entry.asm, seq).verdict = "accepted"
                           /\ entry'.asm = AcceptChunk(entry.asm, seq).a
                           /\ IF ShouldAck(entry'.asm.receivedBytes, entry.lastAcked, Window)
                              THEN /\ entry'.lastAcked = entry'.asm.receivedBytes
                                   /\ toMain' = Append(toMain, Frame("needAck", entry'.asm.receivedBytes))
                              ELSE entry'.lastAcked = entry.lastAcked /\ toMain' = toMain
<1> DEFINE seq == Head(toWorker).n
<1>1. /\ toWorker # <<>> /\ toWorker' = Tail(toWorker)
      /\ UNCHANGED <<asm, book, disk, wire, toSender, sender>>
  BY DEF WorkerFrame, HandOver, recvVars, netVars
<1>2. disk
  BY <1>1 DEF ListInv
<1>3. Head(toWorker) = toWorker[1] /\ seq \in 0..(sender.seq - 1)
  <2>1. toWorker \in Seq(MessagesToWorker)
    BY DEF TakenInv
  <2>2. Len(toWorker) \in Nat \ {0} /\ Head(toWorker) = toWorker[1] /\ toWorker[1] \in MessagesToWorker
    BY <1>1, <2>1, TailFacts
  <2>3. toWorker[1].n < sender.seq
    BY <2>2 DEF TakenInv
  <2> QED
    BY <2>2, <2>3 DEF MessagesToWorker, WholeInv
<1>4. CASE Refused
  <2>1. entry.asm = NoAsm
    BY <1>4 DEF TakenInv
  <2>2. UNCHANGED <<entry, toMain>>
    BY <2>1 DEF WorkerFrame
  <2> QED
    BY <1>1, <1>2, <1>3, <1>4, <2>2
<1>5. CASE ~ Refused
  <2>1. AsmOK(entry.asm, sender.seq, sender.size)
    BY <1>2, <1>5 DEF TakenInv, Assembler
  <2>2. entry.asm # NoAsm
    BY <2>1, AsmSome
  <2>3. AcceptChunk(entry.asm, seq).verdict = "duplicate" => seq \in Got(entry.asm)
    BY <1>3, <2>1 DEF AcceptChunk, Got, AsmOK
  <2>4. \/ /\ AcceptChunk(entry.asm, seq).verdict = "duplicate"
           /\ UNCHANGED <<entry, toMain>>
        \/ /\ entry' = [asm |-> NoAsm, lastAcked |-> 0]
           /\ toMain' = Append(toMain, Frame("aborted", 0))
        \/ /\ AcceptChunk(entry.asm, seq).verdict = "accepted"
           /\ LET b    == AcceptChunk(entry.asm, seq).a
                  acks == ShouldAck(b.receivedBytes, entry.lastAcked, Window)
              IN  /\ entry' = [asm |-> b, lastAcked |-> IF acks THEN b.receivedBytes ELSE entry.lastAcked]
                  /\ toMain' = IF acks THEN Append(toMain, Frame("needAck", b.receivedBytes)) ELSE toMain
    BY <2>2 DEF WorkerFrame
  <2> QED
    BY <1>1, <1>2, <1>3, <1>5, <2>1, <2>3, <2>4
<1> QED
  BY <1>4, <1>5

\* A chunk on its way to the assembler, which takes it in.
LEMMA NextTaken ==
    ASSUME ListInv, WholeInv, PhaseInv, StreamInv, [Next]_vars
    PROVE  TakenInv'
<1> SUFFICES ASSUME Streams' PROVE TakenInv'
  BY DEF TakenInv
<1> USE DEF StreamInv
<1>s. /\ sender.size \in Nat /\ sender.seq \in Nat /\ sender.seq <= Count
      /\ LastSeq \in Nat /\ Count = LastSeq + 1
  BY LastChunk DEF WholeInv
<1>1. CASE Starts
  <2>1. /\ ~ Refused' /\ toWorker' = <<>> /\ toMain' = <<>>
    BY <1>1 DEF Starts, Refused
  <2>2. Assembler' = NewAsm
    BY <1>1 DEF Starts, Assembler
  <2>3. /\ sender' = sender /\ 0..(sender.seq - 1) = {}
    BY <1>1 DEF Starts
  <2>4. AsmOK(NewAsm, sender.seq, sender.size)
    BY <1>s, AsmStart
  <2> QED
    BY <2>1, <2>2, <2>3, <2>4 DEF TakenInv
<1>2. CASE Streams /\ Beside
  <2>1. Assembler' = Assembler /\ Refused' = Refused /\ sender'.seq = sender.seq /\ sender'.size = sender.size
    BY <1>2 DEF Beside, SameFile, Assembler, Refused
  <2>2. \A s : Frame("chunk", s) \in wire => Frame("chunk", s) \in wire'
    BY <1>2, FrameIs DEF Beside
  <2> QED
    BY <1>2, <2>1, <2>2 DEF Beside, TakenInv
<1>3. CASE Streams /\ Hear
  <2>1. sender'.seq = sender.seq /\ sender'.size = sender.size
    BY <1>3 DEF Hear, WholeInv, SenderFields
  <2>2. Assembler' = Assembler /\ Refused' = Refused
        /\ UNCHANGED <<toWorker, toMain, wire, entry>>
    BY <1>3 DEF Hear, Assembler, Refused, recvVars, workerVars
  <2> QED
    BY <1>3, <2>1, <2>2 DEF TakenInv
<1>4. CASE Streams /\ SendChunk
  <2>1. sender'.seq = sender.seq + 1 /\ sender'.size = sender.size
    BY <1>4 DEF SendChunk, WholeInv, SenderFields
  <2>2. Assembler' = Assembler /\ Refused' = Refused
        /\ UNCHANGED <<toWorker, toMain, entry>>
    BY <1>4 DEF SendChunk, Assembler, Refused, recvVars, workerVars
  <2>3. \A f \in wire \cup {Frame("chunk", sender.seq)} : f \in wire'
    BY <1>4 DEF SendChunk
  <2>4. ~ Refused => AsmOK(Assembler, sender.seq + 1, sender.size)
    BY <1>4, <1>s, AsmLater DEF TakenInv
  <2>5. 0..(sender'.seq - 1) = 0..(sender.seq - 1) \cup {sender.seq}
    BY <1>s, <2>1
  <2>6. \A i \in 1..Len(toWorker) : toWorker[i].n < sender'.seq
    <3>1. SUFFICES ASSUME NEW i \in 1..Len(toWorker) PROVE toWorker[i].n < sender'.seq
      OBVIOUS
    <3>2. toWorker[i].n < sender.seq /\ toWorker[i].n \in Nat
      <4>1. toWorker \in Seq(MessagesToWorker) /\ toWorker[i].n < sender.seq
        BY <1>4 DEF TakenInv
      <4>2. toWorker[i] \in MessagesToWorker
        BY <4>1, ElementOfSeq
      <4> QED
        BY <4>1, <4>2 DEF MessagesToWorker
    <3> QED
      BY <1>s, <2>1, <3>2
  <2> QED
    BY <1>4, <2>1, <2>2, <2>3, <2>4, <2>5, <2>6 DEF TakenInv
<1>5. CASE Streams /\ TransferEnd
  <2>1. Refused' = Refused /\ UNCHANGED <<toWorker, toMain, entry, sender>>
    BY <1>5, EndSteps DEF Refused
  <2>2. ~ Refused => /\ AsmOK(Assembler', sender.seq, sender.size)
                     /\ Got(Assembler') = Got(Assembler)
    <3>1. CASE disk
      <4>1. Assembler' = Assembler
        BY <1>5, <3>1, EndSteps DEF Assembler
      <4> QED
        BY <1>5, <4>1 DEF TakenInv
    <3>2. CASE ~ disk
      BY <1>5, <3>2, EndSteps, AsmEnded DEF Assembler
    <3> QED
      BY <3>1, <3>2
  <2>3. \A s : Frame("chunk", s) \in wire => Frame("chunk", s) \in wire'
    BY <1>5, FrameIs, EndSteps
  <2> QED
    BY <1>5, <2>1, <2>2, <2>3 DEF TakenInv
<1>6. ASSUME Streams, NEW seq \in 0..LastSeq, ChunkToWorker(seq) PROVE TakenInv'
  <2>1. /\ Frame("chunk", seq) \in wire
        /\ \A f \in wire : f # Frame("chunk", seq) => f \in wire'
        /\ disk /\ UNCHANGED <<disk, entry, toMain, sender>>
        /\ toWorker' = Append(toWorker, Frame("frame", seq))
    BY <1>6, ArriveKeeps DEF ChunkToWorker, ToWorker
  <2>2. seq \in Nat /\ seq < sender.seq
    BY <2>1, FrameIs DEF WholeInv
  <2>3. Frame("frame", seq) \in MessagesToWorker
    BY <2>2 DEF Frame, MessagesToWorker
  <2>4. /\ toWorker' \in Seq(MessagesToWorker) /\ Len(toWorker) \in Nat
        /\ Len(toWorker') = Len(toWorker) + 1
        /\ toWorker'[Len(toWorker) + 1] = Frame("frame", seq)
        /\ \A i \in 1..Len(toWorker) : toWorker'[i] = toWorker[i]
    BY <1>6, <2>1, <2>3, AppendFacts DEF TakenInv
  <2>5. \A i \in 1..Len(toWorker') : toWorker'[i].n < sender'.seq
    <3> SUFFICES ASSUME NEW i \in 1..Len(toWorker') PROVE toWorker'[i].n < sender'.seq
      OBVIOUS
    <3>1. CASE i \in 1..Len(toWorker)
      BY <1>6, <2>1, <2>4, <3>1 DEF TakenInv
    <3>2. CASE i = Len(toWorker) + 1
      BY <2>1, <2>2, <2>4, <3>2, FrameIs
    <3> QED
      BY <2>4, <3>1, <3>2
  <2>6. Refused' = Refused /\ Assembler' = Assembler
    BY <2>1 DEF Refused, Assembler
  <2>7. ASSUME NEW s \in 0..(sender.seq - 1),
               Frame("chunk", s) \in wire \/ \E i \in 1..Len(toWorker) : toWorker[i].n = s
        PROVE  Frame("chunk", s) \in wire' \/ \E i \in 1..Len(toWorker') : toWorker'[i].n = s
    <3>1. CASE s = seq
      <4>1. Len(toWorker) + 1 \in 1..Len(toWorker') /\ toWorker'[Len(toWorker) + 1].n = seq
        BY <2>4, FrameIs
      <4> QED
        BY <3>1, <4>1
    <3>2. CASE s # seq /\ Frame("chunk", s) \in wire
      BY <2>1, <3>2, FrameIs
    <3>3. ASSUME NEW i \in 1..Len(toWorker), toWorker[i].n = s
          PROVE  \E j \in 1..Len(toWorker') : toWorker'[j].n = s
      <4>1. i \in 1..Len(toWorker') /\ toWorker'[i].n = s
        BY <2>4, <3>3
      <4> QED
        BY <4>1
    <3> QED
      BY <2>7, <3>1, <3>2, <3>3
  <2>8. sender' = sender /\ entry' = entry /\ toMain' = toMain
    BY <2>1
  <2> QED
    BY <1>6, <2>4, <2>5, <2>6, <2>7, <2>8 DEF TakenInv
<1>7. ASSUME Streams, NEW seq \in 0..LastSeq, IncomingChunk(seq) PROVE TakenInv'
  <2>1. /\ ~ disk /\ ~ disk' /\ ~ Refused /\ seq \in 0..(sender.seq - 1)
        /\ AsmOK(asm, sender.seq, sender.size)
        /\ UNCHANGED <<toWorker, toMain, sender>>
        /\ \A f \in wire : f # Frame("chunk", seq) => f \in wire'
    BY <1>7, <1>s, ChunkSteps
  <2>2. AsmOK(asm', sender.seq, sender.size) /\ Got(asm') = Got(asm) \cup {seq}
    <3>1. CASE seq \in Got(asm) /\ asm' = asm
      BY <2>1, <3>1
    <3>2. CASE AcceptChunk(asm, seq).verdict = "accepted" /\ asm' = AcceptChunk(asm, seq).a
      BY <1>s, <2>1, <3>2, TakenIn
    <3> QED
      BY <1>7, <3>1, <3>2, ChunkSteps
  <2>3. Assembler = asm /\ Assembler' = asm' /\ ~ Refused'
    BY <2>1 DEF Assembler, Refused
  <2>4. \A s : s # seq /\ Frame("chunk", s) \in wire => Frame("chunk", s) \in wire'
    BY <2>1, FrameIs
  <2> QED
    BY <1>7, <2>1, <2>2, <2>3, <2>4 DEF TakenInv
<1>8. CASE Streams /\ WorkerFrame
  <2> DEFINE seq == toWorker[1].n
  <2>1. /\ disk /\ toWorker # <<>> /\ toWorker' = Tail(toWorker) /\ seq \in 0..(sender.seq - 1)
        /\ UNCHANGED <<disk, wire, sender>>
    BY <1>8, FrameSteps
  <2>2. toWorker \in Seq(MessagesToWorker) /\ toMain \in Seq(MessagesToMain)
    BY <1>8 DEF TakenInv
  <2>3. /\ toWorker' \in Seq(MessagesToWorker) /\ Len(toWorker) \in Nat \ {0}
        /\ Len(toWorker') = Len(toWorker) - 1
        /\ \A i \in 1..(Len(toWorker) - 1) : toWorker'[i] = toWorker[i + 1]
    BY <2>1, <2>2, TailFacts
  <2>4. \A i \in 1..Len(toWorker') : toWorker'[i].n < sender'.seq
    <3> SUFFICES ASSUME NEW i \in 1..Len(toWorker') PROVE toWorker'[i].n < sender'.seq
      OBVIOUS
    <3>1. i + 1 \in 1..Len(toWorker) /\ toWorker'[i] = toWorker[i + 1]
      BY <2>3
    <3> QED
      BY <1>8, <2>1, <3>1 DEF TakenInv
  <2>5. \A s : s # seq /\ (\E i \in 1..Len(toWorker) : toWorker[i].n = s)
               => \E i \in 1..Len(toWorker') : toWorker'[i].n = s
    <3> SUFFICES ASSUME NEW s, s # seq, NEW i \in 1..Len(toWorker), toWorker[i].n = s
                 PROVE  \E j \in 1..Len(toWorker') : toWorker'[j].n = s
      OBVIOUS
    <3>1. i - 1 \in 1..Len(toWorker') /\ toWorker'[i - 1] = toWorker[i]
      BY <2>3
    <3> QED
      BY <3>1
  <2>6. CASE Refused
    <3>1. UNCHANGED <<entry, toMain>>
      BY <1>8, <2>6, FrameSteps
    <3>2. Refused' /\ entry.asm = NoAsm
      BY <1>8, <2>6, <3>1 DEF Refused, TakenInv
    <3> QED
      BY <2>2, <2>3, <2>4, <3>1, <3>2 DEF TakenInv
  <2>7. CASE ~ Refused
    <3>1. AsmOK(entry.asm, sender.seq, sender.size)
      BY <1>8, <2>7, FrameSteps
    <3>2. Assembler = entry.asm /\ Assembler' = entry'.asm
      BY <2>1 DEF Assembler
    <3>3. ASSUME AsmOK(entry'.asm, sender.seq, sender.size), Got(entry'.asm) = Got(entry.asm) \cup {seq},
                 toMain' \in Seq(MessagesToMain), ~ Refused'
          PROVE  TakenInv'
      <4>1. \A s \in 0..(sender.seq - 1) :
               \/ s \in Got(entry'.asm) \/ Frame("chunk", s) \in wire'
               \/ \E i \in 1..Len(toWorker') : toWorker'[i].n = s
        BY <1>8, <2>1, <2>5, <2>7, <3>2, <3>3 DEF TakenInv
      <4> QED
        BY <2>1, <2>3, <2>4, <3>2, <3>3, <4>1 DEF TakenInv
    <3>4. CASE seq \in Got(entry.asm) /\ UNCHANGED <<entry, toMain>>
      <4>1. ~ Refused'
        BY <2>7, <3>4 DEF Refused
      <4> QED
        BY <2>2, <3>1, <3>3, <3>4, <4>1
    <3>5. CASE entry'.asm = NoAsm /\ toMain' = Append(toMain, Frame("aborted", 0))
      <4>1. Frame("aborted", 0) \in MessagesToMain
        BY DEF Frame, MessagesToMain
      <4>2. /\ toMain' \in Seq(MessagesToMain) /\ Len(toMain') = Len(toMain) + 1 /\ Len(toMain) \in Nat
            /\ toMain'[Len(toMain) + 1] = Frame("aborted", 0)
        BY <2>2, <3>5, <4>1, AppendFacts
      <4>3. Refused'
        BY <4>2, FrameIs DEF Refused
      <4> QED
        BY <2>3, <2>4, <3>5, <4>2, <4>3 DEF TakenInv
    <3>6. CASE AcceptChunk(entry.asm, seq).verdict = "accepted" /\ entry'.asm = AcceptChunk(entry.asm, seq).a
               /\ toMain' \in {toMain, Append(toMain, Frame("needAck", entry'.asm.receivedBytes))}
      <4>1. AsmOK(entry'.asm, sender.seq, sender.size) /\ Got(entry'.asm) = Got(entry.asm) \cup {seq}
        <5>1. PICK a, m : a = entry.asm /\ m = seq
          OBVIOUS
        <5>2. AsmOK(a, sender.seq, sender.size) /\ m \in 0..(sender.seq - 1)
              /\ AcceptChunk(a, m).verdict = "accepted"
          BY <2>1, <3>1, <3>6, <5>1
        <5>3. AsmOK(AcceptChunk(a, m).a, sender.seq, sender.size)
              /\ Got(AcceptChunk(a, m).a) = Got(a) \cup {m}
          BY <1>s, <5>2, TakenIn
        <5> QED
          BY <3>6, <5>1, <5>3
      <4>2. entry'.asm.receivedBytes \in Nat
        BY <1>s, <4>1, AsmLater, BytesWithin
      <4>3. toMain' \in Seq(MessagesToMain) /\ ~ Refused'
        <5>1. CASE toMain' = toMain
          BY <2>2, <2>7, <5>1 DEF Refused
        <5>2. CASE toMain' = Append(toMain, Frame("needAck", entry'.asm.receivedBytes))
          <6>1. Frame("needAck", entry'.asm.receivedBytes) \in MessagesToMain
            BY <4>2 DEF Frame, MessagesToMain
          <6>2. /\ toMain' \in Seq(MessagesToMain) /\ Len(toMain') = Len(toMain) + 1 /\ Len(toMain) \in Nat
                /\ toMain'[Len(toMain) + 1] = Frame("needAck", entry'.asm.receivedBytes)
                /\ \A i \in 1..Len(toMain) : toMain'[i] = toMain[i]
            BY <2>2, <5>2, <6>1, AppendFacts
          <6>3. toMain'[Len(toMain) + 1].kind = "needAck"
            BY <6>2, FrameIs
          <6> QED
            BY <2>7, <6>2, <6>3 DEF Refused
        <5> QED
          BY <3>6, <5>1, <5>2
      <4> QED
        BY <3>3, <4>1, <4>3
    <3> QED
      BY <1>8, <2>7, <3>4, <3>5, <3>6, FrameSteps
  <2> QED
    BY <2>6, <2>7
<1>9. CASE Streams /\ NeedAck
  <2>1. /\ toMain # <<>> /\ toMain' = Tail(toMain) /\ Head(toMain).kind = "needAck"
        /\ UNCHANGED <<asm, disk, entry, toWorker, wire, sender>>
    BY <1>9 DEF NeedAck, FromWorker
  <2>2. /\ toMain' \in Seq(MessagesToMain) /\ Len(toMain) \in Nat \ {0}
        /\ Len(toMain') = Len(toMain) - 1 /\ toMain[1].kind = "needAck"
        /\ \A i \in 1..(Len(toMain) - 1) : toMain'[i] = toMain[i + 1]
    BY <1>9, <2>1, TailFacts DEF TakenInv
  <2>3. Refused' <=> Refused
    <3>1. ASSUME NEW i \in 1..Len(toMain), toMain[i].kind = "aborted" PROVE Refused'
      <4>1. i - 1 \in 1..Len(toMain') /\ toMain'[i - 1] = toMain[i]
        BY <2>2, <3>1
      <4> QED
        BY <3>1, <4>1 DEF Refused
    <3>2. ASSUME NEW i \in 1..Len(toMain'), toMain'[i].kind = "aborted" PROVE Refused
      <4>1. i + 1 \in 1..Len(toMain) /\ toMain'[i] = toMain[i + 1]
        BY <2>2
      <4> QED
        BY <3>2, <4>1 DEF Refused
    <3> QED
      BY <3>1, <3>2 DEF Refused
  <2>4. Assembler' = Assembler
    BY <2>1 DEF Assembler
  <2> QED
    BY <1>9, <2>1, <2>2, <2>3, <2>4 DEF TakenInv
<1> QED
  BY <1>1, <1>2, <1>3, <1>4, <1>5, <1>6, <1>7, <1>8, <1>9, StreamSteps

LEMMA NoDebt == \A n \in Nat : ~ ShouldAck(n, n, Window)
<1>1. AckThreshold(Window) \in Int
  BY PortalReceiveAssumption, ChunkSizeIs DEF AckThreshold, Window, EffectiveWindow
<1> QED
  BY <1>1 DEF ShouldAck

\* An ack that is due is booked and sent behind the others.
LEMMA AckSent ==
    ASSUME book \in Nat, friend, online, toSender \in Seq(FramesToSender), AcksBooked,
           NEW n \in Nat, MaybeSendAck(n), sender' = sender
    PROVE  /\ toSender' \in Seq(FramesToSender) /\ book' \in Nat /\ AcksBooked'
           /\ book' = IF ShouldAck(n, book, Window) THEN n ELSE book
           /\ (\E i \in 1..Len(toSender) : toSender[i].kind = "accept")
                  => \E i \in 1..Len(toSender') : toSender'[i].kind = "accept"
<1>1. book # NoBook
  BY DEF NoBook
<1>2. CASE ShouldAck(n, book, Window)
  <2>1. book' = n /\ toSender' = Append(toSender, Frame("ack", n))
    BY <1>1, <1>2 DEF MaybeSendAck, Send
  <2>2. Frame("ack", n) \in FramesToSender
    BY DEF Frame, FramesToSender
  <2>3. /\ toSender' \in Seq(FramesToSender) /\ Len(toSender) \in Nat /\ Len(toSender') = Len(toSender) + 1
        /\ toSender'[Len(toSender) + 1] = Frame("ack", n)
        /\ \A i \in 1..Len(toSender) : toSender'[i] = toSender[i]
    BY <2>1, <2>2, AppendFacts
  <2>4. toSender' # <<>>
    BY <2>3
  <2>5. AcksBooked'
    BY <2>1, <2>3, <2>4 DEF AcksBooked
  <2>6. ASSUME NEW i \in 1..Len(toSender), toSender[i].kind = "accept"
        PROVE  \E j \in 1..Len(toSender') : toSender'[j].kind = "accept"
    <3>1. i \in 1..Len(toSender') /\ toSender'[i].kind = "accept"
      BY <2>3, <2>6
    <3> QED
      BY <3>1
  <2> QED
    BY <1>2, <2>1, <2>3, <2>5, <2>6
<1>3. CASE ~ ShouldAck(n, book, Window)
  <2>1. book' = book /\ toSender' = toSender
    BY <1>3 DEF MaybeSendAck
  <2> QED
    BY <1>3, <2>1 DEF AcksBooked
<1> QED
  BY <1>2, <1>3

\* What the sender hears is the first frame on its way.
LEMMA Heard ==
    ASSUME DOMAIN sender = SenderFields, toSender \in Seq(FramesToSender), AcksBooked, Hear, book' = book,
           ~ sender.started => \E i \in 1..Len(toSender) : toSender[i].kind = "accept"
    PROVE  /\ toSender' \in Seq(FramesToSender) /\ AcksBooked'
           /\ ~ sender'.started => \E i \in 1..Len(toSender') : toSender'[i].kind = "accept"
<1> DEFINE f == toSender[1]
           n == Len(toSender)
<1>1. toSender # <<>> /\ toSender' = Tail(toSender)
  BY DEF Hear
<1>2. /\ toSender' \in Seq(FramesToSender) /\ n \in Nat \ {0} /\ Head(toSender) = f /\ f \in FramesToSender
      /\ Len(toSender') = n - 1
      /\ \A i \in 1..(n - 1) : toSender'[i] = toSender[i + 1]
  BY <1>1, TailFacts
<1>3. /\ sender'.started = (sender.started \/ Head(toSender).kind = "accept")
      /\ sender'.acked = IF Head(toSender).kind = "ack" THEN Head(toSender).n ELSE sender.acked
  BY DEF Hear, SenderFields
<1>4. ~ sender'.started => \E i \in 1..Len(toSender') : toSender'[i].kind = "accept"
  <2> SUFFICES ASSUME ~ sender'.started PROVE \E i \in 1..Len(toSender') : toSender'[i].kind = "accept"
    OBVIOUS
  <2>1. ~ sender.started /\ f.kind # "accept"
    BY <1>2, <1>3
  <2>2. PICK i \in 1..n : toSender[i].kind = "accept"
    BY <2>1
  <2>3. i - 1 \in 1..Len(toSender') /\ toSender'[i - 1] = toSender[i]
    BY <1>2, <2>1, <2>2
  <2> QED
    BY <2>2, <2>3
<1>5. AcksBooked'
  <2>1. CASE n = 1
    <3>1. toSender' = <<>>
      BY <1>2, <2>1, EmptySeq
    <3>2. sender'.acked = book
      <4>1. CASE f = Frame("ack", book)
        BY <1>2, <1>3, <4>1, FrameIs
      <4>2. CASE f.kind = "accept" /\ book = 0 /\ sender.acked = 0
        BY <1>2, <1>3, <4>2
      <4> QED
        BY <1>1, <2>1, <4>1, <4>2 DEF AcksBooked
    <3> QED
      BY <3>1, <3>2 DEF AcksBooked
  <2>2. CASE n # 1
    <3>1. toSender' # <<>> /\ toSender'[Len(toSender')] = toSender[n]
      <4>1. n - 1 \in 1..(n - 1) /\ (n - 1) + 1 = n
        BY <1>2, <2>2
      <4> QED
        BY <1>2, <4>1
    <3>2. CASE toSender[n] = Frame("ack", book)
      BY <3>1, <3>2 DEF AcksBooked
    <3>3. CASE /\ toSender[n].kind = "accept" /\ book = 0 /\ sender.acked = 0
               /\ \A i \in 1..n : toSender[i].kind # "ack"
      <4>1. \A i \in 1..Len(toSender') : toSender'[i].kind # "ack"
        <5> SUFFICES ASSUME NEW i \in 1..Len(toSender') PROVE toSender'[i].kind # "ack"
          OBVIOUS
        <5>1. i + 1 \in 1..n /\ toSender'[i] = toSender[i + 1]
          BY <1>2
        <5> QED
          BY <3>3, <5>1
      <4>2. sender'.acked = 0
        BY <1>2, <1>3, <3>3
      <4> QED
        BY <3>1, <3>3, <4>1, <4>2 DEF AcksBooked
    <3> QED
      BY <1>1, <3>2, <3>3 DEF AcksBooked
  <2> QED
    BY <2>1, <2>2
<1> QED
  BY <1>2, <1>4, <1>5

LEMMA NextAcks ==
    ASSUME ListInv, WholeInv, PhaseInv, StreamInv, TakenInv', [Next]_vars
    PROVE  AcksInv'
<1> SUFFICES ASSUME Streams' PROVE AcksInv'
  BY DEF AcksInv
<1> USE DEF StreamInv
<1>s. sender.size \in Nat /\ sender.seq \in Nat /\ sender.seq <= Count /\ Count \in Nat
  BY LastChunk DEF WholeInv
<1>1. CASE Starts
  <2>1. Frame("accept", 0) \in FramesToSender
    BY DEF Frame, FramesToSender
  <2>2. toSender \in Seq(FramesToSender) /\ \A i \in 1..Len(toSender) : toSender[i].kind = "reject"
    <3>1. toSender \in Seq({Frame("reject", 0)}) /\ Frame("reject", 0) \in FramesToSender
      BY <1>1 DEF Starts, Frame, FramesToSender
    <3>2. \A i \in 1..Len(toSender) : toSender[i] = Frame("reject", 0)
      BY <3>1, ElementOfSeq
    <3>3. toSender = [i \in 1..Len(toSender) |-> toSender[i]] /\ Len(toSender) \in Nat
      BY <3>1
    <3> QED
      BY <3>1, <3>2, <3>3, FrameIs
  <2>3. /\ toSender' \in Seq(FramesToSender) /\ Len(toSender) \in Nat /\ Len(toSender') = Len(toSender) + 1
        /\ toSender'[Len(toSender) + 1] = Frame("accept", 0)
        /\ \A i \in 1..Len(toSender) : toSender'[i] = toSender[i]
    BY <1>1, <2>1, <2>2, AppendFacts DEF Starts
  <2>4. /\ toSender' # <<>> /\ Len(toSender') \in 1..Len(toSender')
        /\ toSender'[Len(toSender')].kind = "accept"
        /\ \A i \in 1..Len(toSender') : toSender'[i].kind # "ack"
    BY <2>2, <2>3, FrameIs
  <2>5. book' = 0 /\ sender' = sender /\ sender.acked = 0 /\ toMain' = <<>> /\ disk' = disk
    BY <1>1 DEF Starts
  <2>6. AcksBooked'
    BY <2>4, <2>5 DEF AcksBooked
  <2>7. Assembler'.receivedBytes = 0 /\ (disk => entry'.lastAcked = 0)
    BY <1>1, AsmStart DEF Starts, Assembler, NewAsm, NoAsm
  <2> QED
    BY <2>3, <2>4, <2>5, <2>6, <2>7, NoDebt DEF AcksInv, NeedsBooked
<1>2. CASE Streams /\ Beside
  <2>1. Assembler' = Assembler /\ Refused' = Refused /\ AcksBooked' = AcksBooked /\ NeedsBooked' = NeedsBooked
    BY <1>2 DEF Beside, Assembler, Refused, AcksBooked, NeedsBooked
  <2> QED
    BY <1>2, <2>1 DEF Beside, AcksInv
<1>3. CASE Streams /\ Hear
  <2>1. UNCHANGED <<asm, entry, book, disk, toMain>>
    BY <1>3 DEF Hear, recvVars, workerVars
  <2>2. Assembler' = Assembler /\ Refused' = Refused /\ NeedsBooked' = NeedsBooked
    BY <2>1 DEF Assembler, Refused, NeedsBooked
  <2>3. /\ toSender' \in Seq(FramesToSender) /\ AcksBooked'
        /\ ~ sender'.started => \E i \in 1..Len(toSender') : toSender'[i].kind = "accept"
    BY <1>3, <2>1, Heard DEF AcksInv, WholeInv
  <2> QED
    BY <1>3, <2>1, <2>2, <2>3 DEF AcksInv
<1>4. CASE Streams /\ SendChunk
  <2>1. UNCHANGED <<asm, entry, book, disk, toMain, toSender>>
        /\ sender'.started = sender.started /\ sender'.acked = sender.acked
    BY <1>4 DEF SendChunk, recvVars, workerVars, WholeInv, SenderFields
  <2>2. Assembler' = Assembler /\ Refused' = Refused /\ AcksBooked' = AcksBooked /\ NeedsBooked' = NeedsBooked
    BY <2>1 DEF Assembler, Refused, AcksBooked, NeedsBooked
  <2> QED
    BY <1>4, <2>1, <2>2 DEF AcksInv
<1>5. CASE Streams /\ TransferEnd
  <2>1. UNCHANGED <<entry, book, disk, toMain, toSender, sender>>
    BY <1>5, EndSteps
  <2>2. Refused' = Refused /\ AcksBooked' = AcksBooked /\ NeedsBooked' = NeedsBooked
    BY <2>1 DEF Refused, AcksBooked, NeedsBooked
  <2>3. ~ Refused => Assembler'.receivedBytes = Assembler.receivedBytes
    <3>1. CASE disk
      BY <2>1, <3>1 DEF Assembler
    <3>2. CASE ~ disk
      BY <1>5, <2>1, <3>2, EndSteps, AsmEnded DEF Assembler
    <3> QED
      BY <3>1, <3>2
  <2> QED
    BY <1>5, <2>1, <2>2, <2>3 DEF AcksInv
<1>6. ASSUME Streams, NEW seq \in 0..LastSeq, ChunkToWorker(seq) PROVE AcksInv'
  <2>1. UNCHANGED <<asm, entry, book, disk, toMain, toSender, sender>>
    BY <1>6, ArriveKeeps DEF ChunkToWorker
  <2>2. Assembler' = Assembler /\ Refused' = Refused /\ AcksBooked' = AcksBooked /\ NeedsBooked' = NeedsBooked
    BY <2>1 DEF Assembler, Refused, AcksBooked, NeedsBooked
  <2> QED
    BY <1>6, <2>1, <2>2 DEF AcksInv
<1>7. ASSUME Streams, NEW seq \in 0..LastSeq, IncomingChunk(seq) PROVE AcksInv'
  <2>1. ~ disk /\ ~ disk' /\ ~ Refused /\ UNCHANGED <<toMain, sender>>
    BY <1>7, ChunkSteps
  <2>2. Assembler = asm /\ Assembler' = asm' /\ ~ Refused'
    BY <2>1 DEF Assembler, Refused
  <2>3. CASE UNCHANGED <<asm, book, toSender>>
    <3>1. AcksBooked' = AcksBooked
      BY <2>1, <2>3 DEF AcksBooked
    <3> QED
      BY <1>7, <2>1, <2>2, <2>3, <3>1 DEF AcksInv
  <2>4. CASE MaybeSendAck(asm'.receivedBytes)
    <3> DEFINE n == asm'.receivedBytes
    <3>1. n \in Nat
      <4>1. AsmOK(asm', sender.seq, sender.size)
        BY <2>1, <2>2 DEF TakenInv
      <4> QED
        BY <1>s, <4>1, AsmLater, BytesWithin
    <3>2. /\ book \in Nat /\ friend /\ online /\ toSender \in Seq(FramesToSender) /\ AcksBooked
          /\ ~ sender.started => \E i \in 1..Len(toSender) : toSender[i].kind = "accept"
      BY <1>7 DEF Streams, AcksInv
    <3> HIDE DEF n
    <3>3. /\ toSender' \in Seq(FramesToSender) /\ book' \in Nat /\ AcksBooked'
          /\ book' = IF ShouldAck(n, book, Window) THEN n ELSE book
          /\ (\E i \in 1..Len(toSender) : toSender[i].kind = "accept")
                  => \E i \in 1..Len(toSender') : toSender'[i].kind = "accept"
      BY <2>1, <2>4, <3>1, <3>2, AckSent DEF n
    <3>4. ~ ShouldAck(n, book', Window)
      BY <3>1, <3>3, NoDebt
    <3> QED
      BY <2>1, <2>2, <3>2, <3>3, <3>4 DEF AcksInv, n
  <2> QED
    BY <1>7, <2>3, <2>4, ChunkSteps
<1>8. CASE Streams /\ WorkerFrame
  <2>1. disk /\ UNCHANGED <<book, disk, toSender, sender>>
    BY <1>8, FrameSteps
  <2>2. AcksBooked' = AcksBooked
    BY <2>1 DEF AcksBooked
  <2>3. Assembler = entry.asm /\ Assembler' = entry'.asm
    BY <2>1 DEF Assembler
  <2>4. ASSUME ~ Refused'
        PROVE  ~ ShouldAck(entry'.asm.receivedBytes, entry'.lastAcked, Window) /\ NeedsBooked'
    <3>0. toMain \in Seq(MessagesToMain)
      BY <1>8 DEF TakenInv
    <3>1. CASE UNCHANGED <<entry, toMain>>
      <4>1. ~ Refused
        BY <2>4, <3>1 DEF Refused
      <4>2. NeedsBooked' = NeedsBooked
        BY <2>1, <3>1 DEF NeedsBooked
      <4> QED
        BY <1>8, <2>1, <2>3, <3>1, <4>1, <4>2 DEF AcksInv
    <3>2. ~ (toMain' = Append(toMain, Frame("aborted", 0)))
      <4> SUFFICES ASSUME toMain' = Append(toMain, Frame("aborted", 0)) PROVE FALSE
        OBVIOUS
      <4>1. Frame("aborted", 0) \in MessagesToMain
        BY DEF Frame, MessagesToMain
      <4>2. /\ Len(toMain) \in Nat /\ Len(toMain') = Len(toMain) + 1
            /\ toMain'[Len(toMain) + 1] = Frame("aborted", 0)
        BY <3>0, <4>1, AppendFacts
      <4> QED
        BY <2>4, <4>2, FrameIs DEF Refused
    <3>3. CASE /\ ~ Refused
               /\ ~ ShouldAck(entry'.asm.receivedBytes, entry.lastAcked, Window)
               /\ entry'.lastAcked = entry.lastAcked /\ toMain' = toMain
      <4>1. NeedsBooked' = NeedsBooked
        BY <2>1, <3>3 DEF NeedsBooked
      <4> QED
        BY <1>8, <2>1, <3>3, <4>1 DEF AcksInv
    <3>4. CASE /\ ~ Refused
               /\ ShouldAck(entry'.asm.receivedBytes, entry.lastAcked, Window)
               /\ entry'.lastAcked = entry'.asm.receivedBytes
               /\ toMain' = Append(toMain, Frame("needAck", entry'.asm.receivedBytes))
      <4>1. PICK n : n = entry'.asm.receivedBytes
        OBVIOUS
      <4>2. n \in Nat
        <5>1. AsmOK(entry'.asm, sender.seq, sender.size)
          BY <2>1, <2>3, <2>4 DEF TakenInv
        <5> QED
          BY <1>s, <4>1, <5>1, AsmLater, BytesWithin
      <4>3. Frame("needAck", n) \in MessagesToMain
        BY <4>2 DEF Frame, MessagesToMain
      <4>4. /\ Len(toMain) \in Nat /\ Len(toMain') = Len(toMain) + 1
            /\ toMain'[Len(toMain) + 1] = Frame("needAck", n)
            /\ \A i \in 1..Len(toMain) : toMain'[i] = toMain[i]
        BY <3>0, <3>4, <4>1, <4>3, AppendFacts
      <4>5. NeedsBooked
        BY <1>8, <2>1, <3>4 DEF AcksInv
      <4>6. toMain' # <<>> /\ toMain'[Len(toMain')].n = n
        BY <4>4, FrameIs
      <4>7. CASE toMain = <<>>
        <5>1. Len(toMain) = 0 /\ entry.lastAcked = book
          BY <4>5, <4>7 DEF NeedsBooked
        <5>2. toMain'[1].n = n /\ Len(toMain') = 1
          BY <4>4, <5>1, FrameIs
        <5> QED
          BY <2>1, <3>4, <4>1, <4>2, <4>6, <5>1, <5>2, NoDebt DEF NeedsBooked
      <4>8. CASE toMain # <<>>
        <5>1. Len(toMain) > 0
          BY <3>0, <4>4, <4>8, EmptySeq
        <5>2. \A i \in 1..(Len(toMain') - 1) : ShouldAck(toMain'[i + 1].n, toMain'[i].n, Window)
          <6> SUFFICES ASSUME NEW i \in 1..(Len(toMain') - 1)
                       PROVE  ShouldAck(toMain'[i + 1].n, toMain'[i].n, Window)
            OBVIOUS
          <6>1. CASE i = Len(toMain)
            <7>1. toMain'[i] = toMain[i] /\ toMain'[i + 1].n = n /\ toMain[i].n = entry.lastAcked
              BY <4>4, <4>5, <4>8, <5>1, <6>1, FrameIs DEF NeedsBooked
            <7> QED
              BY <3>4, <4>1, <7>1
          <6>2. CASE i # Len(toMain)
            <7>1. i \in 1..(Len(toMain) - 1) /\ i + 1 \in 1..Len(toMain) /\ i \in 1..Len(toMain)
              BY <4>4, <6>2
            <7> QED
              BY <4>4, <4>5, <4>8, <7>1 DEF NeedsBooked
          <6> QED
            BY <6>1, <6>2
        <5>3. toMain'[1] = toMain[1]
          BY <4>4, <5>1
        <5> QED
          BY <2>1, <3>4, <4>1, <4>2, <4>5, <4>6, <4>8, <5>2, <5>3, NoDebt DEF NeedsBooked
      <4> QED
        BY <4>7, <4>8
    <3>5. Refused => UNCHANGED <<entry, toMain>>
      BY <1>8, FrameSteps
    <3> QED
      BY <1>8, <3>1, <3>2, <3>3, <3>4, <3>5, FrameSteps
  <2> QED
    BY <1>8, <2>1, <2>2, <2>3, <2>4 DEF AcksInv
<1>9. CASE Streams /\ NeedAck
  <2> DEFINE n == toMain[1].n
  <2>1. /\ toMain # <<>> /\ toMain' = Tail(toMain)
        /\ UNCHANGED <<disk, entry, sender>> /\ disk
    BY <1>9 DEF NeedAck, FromWorker, ListInv
  <2>2. /\ Head(toMain) = toMain[1] /\ toMain[1] \in MessagesToMain /\ Len(toMain) \in Nat \ {0}
        /\ toMain' \in Seq(MessagesToMain) /\ Len(toMain') = Len(toMain) - 1
        /\ \A i \in 1..(Len(toMain) - 1) : toMain'[i] = toMain[i + 1]
    BY <1>9, <2>1, TailFacts DEF TakenInv
  <2>3. n \in Nat /\ MaybeSendAck(n)
    <3>1. ref.status = "streaming"
      BY <1>9 DEF Streams, PhaseInv, StatusInv
    <3>2. MaybeSendAck(Head(toMain).n)
      BY <1>9, <3>1 DEF NeedAck
    <3> QED
      BY <2>2, <3>2 DEF MessagesToMain
  <2>4. /\ book \in Nat /\ friend /\ online /\ toSender \in Seq(FramesToSender) /\ AcksBooked
        /\ ~ sender.started => \E i \in 1..Len(toSender) : toSender[i].kind = "accept"
    BY <1>9 DEF Streams, AcksInv
  <2>5. /\ toSender' \in Seq(FramesToSender) /\ book' \in Nat /\ AcksBooked'
        /\ book' = IF ShouldAck(n, book, Window) THEN n ELSE book
        /\ (\E i \in 1..Len(toSender) : toSender[i].kind = "accept")
                => \E i \in 1..Len(toSender') : toSender'[i].kind = "accept"
    BY <2>1, <2>3, <2>4, AckSent
  <2>6. ASSUME ~ Refused' PROVE ~ ShouldAck(Assembler'.receivedBytes, entry'.lastAcked, Window) /\ NeedsBooked'
    <3>1. ~ Refused
      <4> SUFFICES ASSUME NEW i \in 1..Len(toMain), toMain[i].kind = "aborted" PROVE FALSE
        BY DEF Refused
      <4>1. i # 1
        BY <1>9, <2>2 DEF NeedAck, FromWorker
      <4>2. i - 1 \in 1..Len(toMain') /\ toMain'[i - 1] = toMain[i]
        BY <2>2, <4>1
      <4> QED
        BY <2>6, <4>2 DEF Refused
    <3>2. /\ NeedsBooked /\ Assembler' = Assembler /\ entry' = entry
          /\ ~ ShouldAck(Assembler.receivedBytes, entry.lastAcked, Window)
      BY <1>9, <2>1, <3>1 DEF AcksInv, Assembler
    <3>3. book' = n
      BY <2>1, <2>5, <3>2 DEF NeedsBooked
    <3>4. CASE Len(toMain) = 1
      <4>1. toMain' = <<>>
        BY <2>2, <3>4, EmptySeq
      <4> QED
        BY <2>1, <3>2, <3>3, <3>4, <4>1 DEF NeedsBooked
    <3>5. CASE Len(toMain) # 1
      <4>1. /\ toMain' # <<>> /\ toMain'[1] = toMain[2]
            /\ toMain'[Len(toMain')] = toMain[Len(toMain)]
        <5>1. 1 \in 1..(Len(toMain) - 1) /\ Len(toMain) - 1 \in 1..(Len(toMain) - 1)
              /\ (Len(toMain) - 1) + 1 = Len(toMain)
          BY <2>2, <3>5
        <5> QED
          BY <2>2, <5>1
      <4>2. ShouldAck(toMain[2].n, toMain[1].n, Window)
        <5>1. 1 \in 1..(Len(toMain) - 1) /\ 1 + 1 = 2
          BY <2>2, <3>5
        <5> QED
          BY <2>1, <3>2, <5>1 DEF NeedsBooked
      <4>3. \A i \in 1..(Len(toMain') - 1) : ShouldAck(toMain'[i + 1].n, toMain'[i].n, Window)
        <5> SUFFICES ASSUME NEW i \in 1..(Len(toMain') - 1)
                     PROVE  ShouldAck(toMain'[i + 1].n, toMain'[i].n, Window)
          OBVIOUS
        <5>1. /\ i \in 1..(Len(toMain) - 1) /\ i + 1 \in 1..(Len(toMain) - 1)
          BY <2>2
        <5>2. toMain'[i] = toMain[i + 1] /\ toMain'[i + 1] = toMain[(i + 1) + 1]
          BY <2>2, <5>1
        <5> QED
          BY <2>1, <3>2, <5>1, <5>2 DEF NeedsBooked
      <4> QED
        BY <2>1, <3>2, <3>3, <4>1, <4>2, <4>3 DEF NeedsBooked
    <3> QED
      BY <3>2, <3>4, <3>5
  <2> QED
    BY <2>1, <2>4, <2>5, <2>6 DEF AcksInv
<1> QED
  BY <1>1, <1>2, <1>3, <1>4, <1>5, <1>6, <1>7, <1>8, <1>9, StreamSteps

LEMMA NextEnds ==
    ASSUME ListInv, WholeInv, PhaseInv, StreamInv, [Next]_vars
    PROVE  EndsInv'
<1> SUFFICES ASSUME Streams', ~ disk' PROVE EndsInv'
  BY DEF EndsInv
<1> USE DEF StreamInv
<1>s. /\ sender.size \in Nat /\ sender.seq \in Nat /\ sender.seq <= Count
      /\ LastSeq \in Nat /\ Count = LastSeq + 1
  BY LastChunk DEF WholeInv
<1>d. ~ disk
  BY ApartNext
<1>e. \A size : sender'.size = size /\ sender.size = size => LastSeq' = LastSeq
  BY DEF LastSeq, Count
<1>1. CASE Starts
  BY <1>1, <1>d, <1>s, <1>e, AsmStart DEF Starts, EndsInv, NewAsm, NoAsm
<1>2. CASE Streams /\ Beside
  <2>1. Frame("end", 0) \in wire => Frame("end", 0) \in wire'
    BY <1>2, FrameIs DEF Beside
  <2> QED
    BY <1>2, <1>d, <1>e, <2>1 DEF Beside, SameFile, EndsInv
<1>3. CASE Streams /\ Hear
  <2>1. sender'.seq = sender.seq /\ sender'.size = sender.size /\ asm' = asm /\ wire' = wire
    BY <1>3 DEF Hear, WholeInv, SenderFields, recvVars
  <2> QED
    BY <1>3, <1>d, <1>e, <2>1 DEF EndsInv
<1>4. CASE Streams /\ SendChunk
  <2>1. sender'.seq = sender.seq + 1 /\ sender'.size = sender.size /\ asm' = asm
    BY <1>4 DEF SendChunk, WholeInv, SenderFields, recvVars
  <2>2. sender.seq = LastSeq => Frame("end", 0) \in wire'
    BY <1>4 DEF SendChunk
  <2> QED
    BY <1>4, <1>d, <1>e, <1>s, <2>1, <2>2 DEF EndsInv
<1>5. CASE Streams /\ TransferEnd
  <2>1. /\ AsmOK(asm, sender.seq, sender.size) /\ asm' = [asm EXCEPT !.ended = TRUE]
        /\ sender' = sender /\ InboundVerdict(asm') = "pending"
    BY <1>5, <1>d, EndSteps
  <2>2. asm'.ended
    BY <2>1, AsmEnded
  <2>3. ~ (asm'.digest /\ asm'.ended)
    BY <2>1 DEF InboundVerdict
  <2> QED
    BY <2>2, <2>3 DEF EndsInv
<1>6. ASSUME Streams, NEW seq \in 0..LastSeq, ChunkToWorker(seq) PROVE FALSE
  BY <1>6, <1>d DEF ChunkToWorker, ToWorker
<1>7. ASSUME Streams, NEW seq \in 0..LastSeq, IncomingChunk(seq) PROVE EndsInv'
  <2>1. /\ ~ disk /\ seq \in 0..(sender.seq - 1) /\ AsmOK(asm, sender.seq, sender.size) /\ sender' = sender
        /\ \A f \in wire : f # Frame("chunk", seq) => f \in wire'
    BY <1>7, <1>s, ChunkSteps
  <2>2. Frame("end", 0) \in wire => Frame("end", 0) \in wire'
    BY <2>1, FrameIs
  <2>3. LastSeq' = LastSeq
    BY <1>e, <2>1
  <2>4. CASE asm' = asm
    BY <1>7, <2>1, <2>2, <2>3, <2>4 DEF EndsInv
  <2>5. CASE /\ AcceptChunk(asm, seq).verdict = "accepted" /\ asm' = AcceptChunk(asm, seq).a
             /\ InboundVerdict(asm') = "pending"
    <3>1. asm'.ended = asm.ended
      BY <1>s, <2>1, <2>5, TakenIn
    <3>2. ~ (asm'.digest /\ asm'.ended)
      BY <2>5 DEF InboundVerdict
    <3> QED
      BY <1>7, <2>1, <2>2, <2>3, <3>1, <3>2 DEF EndsInv
  <2> QED
    BY <1>7, <2>4, <2>5, ChunkSteps
<1>8. ~ (Streams /\ (WorkerFrame \/ NeedAck))
  BY <1>d DEF WorkerFrame, HandOver, NeedAck, FromWorker, ListInv
<1> QED
  BY <1>1, <1>2, <1>3, <1>4, <1>5, <1>6, <1>7, <1>8, StreamSteps

LEMMA NextStream ==
    ASSUME ListInv, WholeInv, PhaseInv, StreamInv, [Next]_vars
    PROVE  StreamInv'
  BY NextTaken, NextAcks, NextEnds DEF StreamInv

-----------------------------------------------------------------------------
(* Nobody is kept waiting. *)

\* What a receiver has not acknowledged leaves room for a chunk: less than a
\* quarter of a window that holds two.
LEMMA Room ==
    ASSUME NEW received \in Nat, NEW acked \in Nat, NEW n \in 0..ChunkSize,
           ~ ShouldAck(received, acked, Window)
    PROVE  ~ WindowFull(received + n, acked, Window)
<1>1. CASE WindowBytes <= 0
  BY <1>1 DEF WindowFull, Window, EffectiveWindow
<1>2. CASE WindowBytes > 0
  <2>w. \A w, c \in Nat : w > 0 => /\ EffectiveWindow(w, c) \in Nat
                                   /\ EffectiveWindow(w, c) >= 2 * c
    BY DEF EffectiveWindow
  <2>1. Window \in Nat /\ Window >= 2 * ChunkSize
    <3>1. WindowBytes \in Nat /\ ChunkSize \in Nat
      BY PortalReceiveAssumption, ChunkSizeIs
    <3> QED
      BY <1>2, <2>w, <3>1 DEF Window
  <2>2. AckThreshold(Window) \in Nat \ {0} /\ 4 * AckThreshold(Window) <= Window
    BY <2>1, ChunkSizeIs DEF AckThreshold
  <2>3. received - acked < AckThreshold(Window)
    BY <2>2 DEF ShouldAck
  <2>4. received + n - acked < Window
    BY <2>1, <2>2, <2>3, ChunkSizeIs
  <2> QED
    BY <2>1, <2>4, ChunkSizeIs DEF WindowFull, InFlight
<1> QED
  BY <1>1, <1>2, PortalReceiveAssumption

\* With nothing under way everything that was sent is in the assembler, and
\* that is the whole file.
LEMMA AllArrived ==
    ASSUME ListInv, WholeInv, PhaseInv, StreamInv, Streams, Quiet, ~ sender.silent, ~ sender.left
    PROVE  /\ sender.started /\ sender.seq = Count
           /\ AsmOK(Assembler, sender.seq, sender.size) /\ Assembler.nextSeq = sender.seq
<1>s. /\ sender.size \in Nat /\ sender.seq \in Nat /\ sender.seq <= Count
      /\ LastSeq \in Nat /\ Count = LastSeq + 1
  BY LastChunk DEF WholeInv
<1>1. toWorker = <<>> /\ toMain = <<>> /\ toSender = <<>> /\ \A s : Frame("chunk", s) \notin wire
  BY FrameIs DEF Quiet
<1>2. ~ Refused
  BY <1>1 DEF Refused
<1>3. AsmOK(Assembler, sender.seq, sender.size)
      /\ \A s \in 0..(sender.seq - 1) : s \in Got(Assembler)
  BY <1>1, <1>2 DEF StreamInv, TakenInv
<1>4. PICK a : a = Assembler
  OBVIOUS
<1>5. AsmOK(a, sender.seq, sender.size) /\ 0..(sender.seq - 1) \subseteq Got(a)
  BY <1>3, <1>4
<1>6. a.nextSeq = sender.seq /\ a.receivedBytes = Before(sender.seq)
  BY <1>s, <1>5, AllIn
<1>7. sender.started
  BY <1>1 DEF StreamInv, AcksInv
<1>8. sender.acked = book /\ book \in Nat /\ ~ ShouldAck(a.receivedBytes, book, Window)
  BY <1>1, <1>2, <1>4 DEF StreamInv, AcksInv, AcksBooked, NeedsBooked
<1>9. sender.seq = Count
  <2> SUFFICES ASSUME sender.seq # Count PROVE FALSE
    OBVIOUS
  <2>1. sender.seq \in 0..LastSeq
    BY <1>s
  <2>2. WindowFull(Before(sender.seq + 1), sender.acked, Window)
    <3>1. ~ (sender.seq > LastSeq)
      BY <1>s, <2>1
    <3>2. SenderWaits /\ online
      BY DEF Quiet, Streams
    <3> QED
      BY <1>7, <3>1, <3>2 DEF SenderWaits
  <2>3. Length(sender.seq) \in 0..ChunkSize /\ Before(sender.seq) \in Nat
    BY <1>s, <2>1, LengthIs, Product, ChunkSizeIs
  <2>4. Before(sender.seq + 1) = Before(sender.seq) + Length(sender.seq)
    <3>1. Before(sender.seq + 1) \in Int
      BY <1>s, <2>1, ChunkSizeIs DEF Before, Least
    <3> QED
      BY <2>3, <3>1 DEF Length
  <2> QED
    BY <1>6, <1>8, <2>2, <2>3, <2>4, Room
<1> QED
  BY <1>3, <1>4, <1>6, <1>7, <1>9

LEMMA StarvedFacts ==
    ASSUME ListInv, WholeInv, PhaseInv, StreamInv
    PROVE  SenderNeverStarved
<1> SUFFICES ASSUME sender.started, sender.seq <= LastSeq, Quiet, state.status = "streaming",
                    ~ sender.silent, ~ sender.left, online
             PROVE  FALSE
  BY DEF SenderNeverStarved
<1>1. Streams
  BY DEF Streams, PhaseInv, StatusInv, EarlyInv
<1>2. LastSeq \in Nat /\ Count = LastSeq + 1
  BY LastChunk DEF WholeInv
<1> QED
  BY <1>1, <1>2, AllArrived

\* A cause does not go away.
LEMMA StaysExcused == ASSUME WholeInv, [Next]_vars, Excused PROVE Excused'
<1>1. /\ sender.silent => sender'.silent
      /\ sender.left => sender'.left
      /\ sender'.size = sender.size /\ sender'.honest = sender.honest
  <2>1. CASE sender' = sender
    BY <2>1
  <2>2. CASE SenderStops \/ Hear \/ SendChunk
    BY <2>2 DEF SenderStops, Hear, SendChunk, WholeInv, SenderFields
  <2> QED
    BY <2>1, <2>2, SenderSteps
<1>2. ~ online => ~ online'
  <2>1. TransferOffer \/ PeerLeft \/ Accepting \/ Worker \/ OnWorker \/ ReceiveStall => online' = online
    BY DEF TransferOffer, PeerLeft, Accepting, PaintedMemory, PaintedDisk, OpenTimeout, Worker,
       WorkerStart, WorkerFrame, WorkerAbort, HandOver, OnWorker, StartReady, WorkerGaveUp, NeedAck,
       FromWorker, ReceiveStall, netVars
  <2>2. TransferEnd => online' = online
    BY ArriveKeeps DEF TransferEnd
  <2>3. \A seq \in 0..LastSeq : ChunkToWorker(seq) \/ IncomingChunk(seq) => online' = online
    BY ArriveKeeps DEF ChunkToWorker, IncomingChunk
  <2>4. AcceptIncoming \/ RejectIncoming \/ Dismiss \/ Render \/ RunEffects => online' = online
    BY DEF AcceptIncoming, RejectIncoming, Dismiss, Render, RunEffects, netVars
  <2>5. Hear \/ SendChunk \/ SenderStops \/ UNCHANGED vars => online' = online
    BY DEF Hear, SendChunk, SenderStops, vars, netVars
  <2>6. Lost => ~ online'
    BY DEF Lost
  <2> QED
    BY <2>1, <2>2, <2>3, <2>4, <2>5, <2>6 DEF Next, OnFrame
<1> QED
  BY <1>1, <1>2 DEF Excused

\* Whoever aborts a receive in memory has a cause.
LEMMA NextAbort ==
    ASSUME ListInv, WholeInv, PhaseInv, StreamInv, MemoryAbortHasCause, [Next]_vars
    PROVE  MemoryAbortHasCause'
<1> SUFFICES ASSUME ~ disk', state'.status = "aborted", ~ Excused' PROVE FALSE
  BY DEF MemoryAbortHasCause
<1>x. /\ ~ Excused /\ ~ disk /\ state.status # "aborted"
      /\ toMain = <<>>
  BY StaysExcused, ApartNext DEF MemoryAbortHasCause, ListInv
<1>y. /\ ~ sender.silent /\ ~ sender.left /\ online /\ sender.size = Announced /\ sender.honest
      /\ friend
  BY <1>x DEF Excused, PhaseInv, StatusInv
<1>e. \A s \in Statuses : Entry(s).status = s
  BY EntryFacts
<1>s. Statuses = {"none", "offered", "streaming", "done", "aborted"} /\ Settled = {"done", "aborted"}
  BY DEF Statuses, Settled
<1>m. \A from : \A s \in Statuses \ {"aborted"} : Moved(state, from, s).status # "aborted"
  BY <1>x, MovedFacts DEF ListInv
<1>n. /\ sender.size \in Nat /\ sender.seq \in Nat /\ sender.seq <= Count
      /\ LastSeq \in Nat /\ Count = LastSeq + 1
  BY LastChunk DEF WholeInv
<1>v. /\ ~ Finalize("verified")
      /\ \A a : InboundVerdict(a) \in {"pending", "verified"}
  BY <1>e, <1>s, <1>x, <1>y DEF Finalize, InboundVerdict
<1>1. ~ TransferOffer
  BY <1>e, <1>s, <1>x DEF TransferOffer
<1>2. ~ TransferEnd
  BY <1>v, <1>x DEF TransferEnd
<1>3. ASSUME NEW seq \in 0..LastSeq, ChunkToWorker(seq) \/ IncomingChunk(seq) PROVE FALSE
  <2>1. IncomingChunk(seq) /\ Assembling /\ AcceptChunk(asm, seq).verdict = "abort"
    BY <1>3, <1>v, <1>x DEF ChunkToWorker, IncomingChunk
  <2>2. state.status = "streaming"
    BY <1>x, <2>1, <1>v DEF IncomingChunk, Finalize
  <2>3. Frame("chunk", seq) \in wire
    BY <2>1, ArriveKeeps DEF IncomingChunk
  <2>4. seq \in 0..(sender.seq - 1)
    BY <1>n, <2>3, FrameIs DEF WholeInv
  <2>5. Streams
    BY <1>n, <1>y, <2>2, <2>4 DEF Streams, PhaseInv, StatusInv, EarlyInv
  <2>6. ~ Refused
    BY <1>x DEF Refused
  <2>7. AsmOK(asm, sender.seq, sender.size)
    BY <1>x, <2>5, <2>6 DEF StreamInv, TakenInv, Assembler
  <2> QED
    BY <1>n, <1>y, <2>1, <2>4, <2>7, NotRefused
<1>4. ~ PeerLeft
  BY <1>y DEF PeerLeft
<1>5. ~ (PaintedMemory \/ PaintedDisk \/ OpenTimeout)
  BY <1>x, <1>y DEF PaintedMemory, PaintedDisk, OpenTimeout, TellPeer, PhaseInv, OpenInv
<1>6. ~ (WorkerStart \/ WorkerFrame \/ WorkerAbort)
  BY <1>x DEF WorkerStart, WorkerFrame, WorkerAbort, HandOver
<1>7. ~ (StartReady \/ WorkerGaveUp \/ NeedAck)
  BY <1>x DEF StartReady, WorkerGaveUp, NeedAck, FromWorker
<1>8. ~ ReceiveStall
  <2> SUFFICES ASSUME ReceiveStall PROVE FALSE
    OBVIOUS
  <2>1. armed /\ Quiet /\ state.status = "streaming"
    BY <1>x, MovedFacts DEF ReceiveStall, ListInv, Statuses
  <2>2. Streams
    BY <1>y, <2>1 DEF Streams, PhaseInv, StatusInv, EarlyInv
  <2>3. sender.seq = Count /\ AsmOK(asm, sender.seq, sender.size) /\ asm.nextSeq = sender.seq
    BY <1>x, <1>y, <2>1, <2>2, AllArrived DEF Assembler
  <2>4. asm.digest
    BY <2>3 DEF AsmOK, Final, Count
  <2>5. Frame("end", 0) \notin wire
    BY <2>1, FrameIs DEF Quiet
  <2> QED
    BY <1>n, <1>x, <2>2, <2>3, <2>4, <2>5 DEF StreamInv, EndsInv
<1>9. ~ (AcceptIncoming \/ RejectIncoming \/ Dismiss)
  BY <1>e, <1>m, <1>s DEF AcceptIncoming, RejectIncoming, Dismiss, Click
<1>10. ~ (Render \/ RunEffects)
  BY <1>x, LinkedFacts DEF Render, RunEffects, Effects, ListInv
<1>11. ~ (Hear \/ SendChunk \/ SenderStops \/ Lost \/ UNCHANGED vars)
  BY <1>x DEF Hear, SendChunk, SenderStops, Lost, vars
<1> QED
  BY <1>1, <1>2, <1>3, <1>4, <1>5, <1>6, <1>7, <1>8, <1>9, <1>10, <1>11
     DEF Next, OnFrame, Accepting, Worker, OnWorker

LEMMA Streaming == Spec => [](ListInv /\ WholeInv /\ PhaseInv /\ StreamInv)
<1>1. Init => ListInv /\ WholeInv /\ PhaseInv /\ StreamInv
  BY InitList, InitWhole, InitPhase, InitStream
<1>2. ListInv /\ WholeInv /\ PhaseInv /\ StreamInv /\ [Next]_vars
         => (ListInv /\ WholeInv /\ PhaseInv /\ StreamInv)'
  BY NextList, NextWhole, NextPhase, NextStream
<1> QED
  BY <1>1, <1>2, PTL DEF Spec

\* A sender with room for no further chunk has an ack coming as long as the
\* receive streams (maybeSendAck and the worker's needAck, against
\* waitForWindow), through the worker or on the main thread, in whatever order
\* chunks arrive, however late the page renders, and for files, windows and
\* chunks of any size.
THEOREM NeverStarved == Spec => []SenderNeverStarved
  BY Streaming, StarvedFacts, PTL

\* A receive in memory is aborted only if the sender or the connection gave
\* up or the file is not the one that was offered: the assembler refuses no
\* chunk of it, whatever order they and transfer-end arrive in, however often,
\* and the stall timer finds no transfer that only has to be finalized.
THEOREM AbortsHaveCause == Spec => []MemoryAbortHasCause
<1>1. Init => MemoryAbortHasCause
  BY DEF Init, MemoryAbortHasCause, Entry
<1> QED
  BY <1>1, NextAbort, Streaming, PTL DEF Spec
=============================================================================
