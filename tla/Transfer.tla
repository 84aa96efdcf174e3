------------------------------ MODULE Transfer ------------------------------
(***************************************************************************)
(* One file transfer between two Go clients (internal/client/transfer.go), *)
(* from the accepted or refused offer to the verdicts on both sides.       *)
(*                                                                         *)
(* The sender has a read loop (accepts, rejects, acks, peer-left) and a    *)
(* goroutine, streamFile, that reads and sends the chunks; they meet in    *)
(* outboundTransfer under ot.mu.  The receiver has a read loop (chunks,    *)
(* transfer-end, peer-left), a user and a timer, which meet in             *)
(* inboundTransfer under it.mu.  Each hold of a mutex is a step.           *)
(*                                                                         *)
(* Envelopes of one direction arrive in order: one channel, one socket and *)
(* one forwarding loop carry them.  The relay drops any of them silently   *)
(* when the friendship or the peer is gone, or the write fails.  The       *)
(* content of a chunk is its place in the file; encryption and hashing are *)
(* left out, and with them the digest mismatch they detect.                *)
(***************************************************************************)
EXTENDS Limits, Sequences, FiniteSets

CONSTANTS
    MaxChunkBytes,  \* the largest chunk a receiver advertises
    Sizes,          \* what os.Stat may return when SendFile is called
    FileSizes,      \* what the file's size may be by the time it is read
    RelayMaxes,     \* what welcome.limits may say, 0 if nothing
    WindowAds,      \* DefaultWindowBytes; 0 for a receiver without windows
    Patient         \* a stall timer only fires when nothing is on its way

ASSUME TransferAssumption ==
    /\ MaxChunkBytes \in Nat
    /\ Sizes \subseteq Nat /\ FileSizes \subseteq Nat
    /\ RelayMaxes \subseteq Nat /\ WindowAds \subseteq Nat
    /\ Patient \in BOOLEAN

VARIABLES
    terms,      \* sizes of the offer, the file, a chunk and the window
    sStatus,    \* outboundTransfer.status
    sPc,        \* where streamFile is
    sent,       \* bytes streamed
    sSeq,       \* the next chunk to stream
    lastAck,    \* highest acknowledgement
    aborted,    \* outboundTransfer.aborted
    sPeer,      \* how far the sender's handlePeerLeft has come
    sTold,      \* terminal events the sender's client emitted
    rStatus,    \* inboundTransfer.status
    received,   \* bytes of the chunks taken
    nextSeq,    \* the next chunk to write
    pending,    \* chunks taken and not written yet
    lastSeq,    \* the chunk flagged last, if it was taken
    endSeen,    \* transfer-end was taken
    lastAcked,  \* what the receiver acknowledged
    rListed,    \* the transfer is in the receiver's c.inbound
    rAsked,     \* the user is asked to accept or reject it
    rPeer,      \* how far the receiver's handlePeerLeft has come
    rTold,      \* terminal events the receiver's client emitted
    toR, toS,   \* envelopes on their way
    faulty      \* something failed: the relay, a disk, or a peer left

sender   == <<sStatus, sPc, sent, sSeq, terms, lastAck, aborted, sPeer, sTold>>
assembly == <<received, nextSeq, pending, lastSeq, endSeen, lastAcked>>
receiver == <<rStatus, assembly, rListed, rAsked, rPeer, rTold>>
vars     == <<sender, receiver, toR, toS, faulty>>

-----------------------------------------------------------------------------
(* Data. *)

\* What AcceptTransfer advertises and handleTransferAccept makes of it; both
\* clients have the relay's limit from its welcome.
Terms(size, found, relayMax, windowAd) ==
    LET maxChunk  == IF relayMax > 0 THEN Least(relayMax, MaxChunkBytes) ELSE MaxChunkBytes
        acceptMax == IF windowAd = 0 THEN 0 ELSE maxChunk
        chunk     == NegotiateChunkSize(PreferredChunkSize, relayMax, acceptMax)
    IN  [size |-> size, file |-> found, chunk |-> chunk, window |-> EffectiveWindow(windowAd, chunk)]

Size      == terms.size
fileSize  == terms.file
chunkSize == terms.chunk
window    == terms.window

None == -1      \* no chunk was flagged last

\* Faulty variant of LengthOf: the chunk itself is taken for read already.
LengthAfter(k) == Least(chunkSize, fileSize - (k + 1) * chunkSize)

\* The bytes that ReadFull finds for chunk k of the file, which may be none.
LengthOf(k) ==
    IF fileSize < k * chunkSize THEN 0 ELSE Least(chunkSize, fileSize - k * chunkSize)

\* The end of the file, or the size that was offered, is reached.
IsLast(k) == LengthOf(k) < chunkSize \/ sent + LengthOf(k) >= Size

Msg(k) == [kind |-> k, seq |-> 0, n |-> 0, last |-> FALSE]

Chunk(k) == [kind |-> "chunk", seq |-> k, n |-> LengthOf(k), last |-> IsLast(k)]

\* Faulty variant of Ack: whole chunks are acknowledged.
AckChunks(n) == [Msg("ack") EXCEPT !.n = ChunkCount(n, chunkSize) * chunkSize]

Ack(n) == [Msg("ack") EXCEPT !.n = n]

Verdicts == {"complete", "failed"}

-----------------------------------------------------------------------------
\* SendFile has registered the transfer and sent the offer, and handleOffer
\* has taken it: the receiver's user decides.
Init ==
    /\ terms \in {Terms(s, f, r, w) :
                    s \in Sizes, f \in FileSizes, r \in RelayMaxes, w \in WindowAds}
    /\ sStatus = "awaiting" /\ sPc = "idle" /\ sent = 0 /\ sSeq = 0
    /\ lastAck = 0 /\ aborted = FALSE /\ sPeer = "friend" /\ sTold = <<>>
    /\ rStatus = "offered" /\ received = 0 /\ nextSeq = 0 /\ pending = {}
    /\ lastSeq = None /\ endSeen = FALSE /\ lastAcked = 0
    /\ rListed = TRUE /\ rAsked = TRUE /\ rPeer = "friend" /\ rTold = <<>>
    /\ toR = <<>> /\ toS = <<>> /\ faulty = FALSE

-----------------------------------------------------------------------------
(* The receiver's user. *)

\* sealAndSend fails when the friendship is gone.
SendToS(m) == toS' = IF rPeer = "friend" THEN Append(toS, m) ELSE toS

\* If the accept cannot be sent, the call fails and the user is still asked.
AcceptTransfer ==
    /\ rListed
    /\ rStatus = "offered"
    /\ rStatus' = "streaming"
    /\ SendToS(Msg("accept"))
    /\ rAsked' = (rPeer # "friend")
    /\ UNCHANGED <<sender, assembly, rListed, rPeer, rTold, toR, faulty>>

\* The entry is deleted before the reject is sent; if it cannot be, the call
\* fails and nothing is told.
RejectTransfer ==
    /\ rListed
    /\ rAsked
    /\ rListed' = FALSE
    /\ SendToS(Msg("reject"))
    /\ rAsked' = (rPeer # "friend")
    /\ rTold' = IF rPeer = "friend" THEN Append(rTold, "failed") ELSE rTold
    /\ UNCHANGED <<sender, rStatus, assembly, rPeer, toR, faulty>>

-----------------------------------------------------------------------------
(* streamFile and waitForWindow. *)

\* streamFile's fail: silent if somebody else already failed the transfer.
Fail ==
    /\ sPc' = "stopped"
    /\ IF aborted \/ sStatus = "failed"
       THEN UNCHANGED <<sStatus, aborted, sTold>>
       ELSE /\ sStatus' = "failed"
            /\ aborted' = TRUE
            /\ sTold' = Append(sTold, "failed")

\* The next chunk does not fit under the window.
Blocked ==
    /\ sPc = "window"
    /\ WindowFull(sent + LengthOf(sSeq), lastAck, window)

\* Nothing is on its way and the sender cannot add to it.
Quiet == toR = <<>> /\ toS = <<>> /\ (Blocked \/ sPc \in {"idle", "stopped"})

WaitForWindow ==
    /\ sPc = "window"
    /\ IF window > 0 /\ (aborted \/ sStatus = "failed")
       THEN sPc' = "stopped"
       ELSE ~ Blocked /\ sPc' = "check"
    /\ UNCHANGED <<sStatus, sent, sSeq, terms, lastAck, aborted, sPeer, sTold,
                   receiver, toR, toS, faulty>>

\* No ack moved the window for StallTimeoutSec.
FlowControlStall ==
    /\ Blocked
    /\ ~ aborted /\ sStatus # "failed"
    /\ Patient => Quiet
    /\ Fail
    /\ UNCHANGED <<sent, sSeq, terms, lastAck, sPeer, receiver, toR, toS, faulty>>

\* The file cannot be opened or read.
ReadFails ==
    /\ sPc = "window"
    /\ Fail
    /\ faulty' = TRUE
    /\ UNCHANGED <<sent, sSeq, terms, lastAck, sPeer, receiver, toR, toS>>

CheckAborted ==
    /\ sPc = "check"
    /\ sPc' = IF aborted THEN "stopped" ELSE "seal"
    /\ UNCHANGED <<sStatus, sent, sSeq, terms, lastAck, aborted, sPeer, sTold,
                   receiver, toR, toS, faulty>>

\* sealAndSend of a chunk, and the bookkeeping that follows it.
SendChunk ==
    /\ sPc = "seal"
    /\ IF sPeer = "friend"
       THEN /\ toR' = Append(toR, Chunk(sSeq))
            /\ sent' = sent + LengthOf(sSeq)
            /\ sSeq' = sSeq + 1
            /\ sPc' = IF IsLast(sSeq) THEN "end" ELSE "window"
            /\ UNCHANGED <<sStatus, aborted, sTold>>
       ELSE Fail /\ UNCHANGED <<sent, sSeq, toR>>
    /\ UNCHANGED <<terms, lastAck, sPeer, receiver, toS, faulty>>

SendEnd ==
    /\ sPc = "end"
    /\ IF sPeer = "friend"
       THEN /\ toR' = Append(toR, Msg("end"))
            /\ sPc' = "finish"
            /\ UNCHANGED <<sStatus, aborted, sTold>>
       ELSE Fail /\ UNCHANGED toR
    /\ UNCHANGED <<sent, sSeq, terms, lastAck, sPeer, receiver, toS, faulty>>

\* The status is set to done whatever it has become meanwhile.
Finish ==
    /\ sPc = "finish"
    /\ sPc' = "stopped"
    /\ sStatus' = "done"
    /\ sTold' = Append(sTold, "complete")
    /\ UNCHANGED <<sent, sSeq, terms, lastAck, aborted, sPeer, receiver, toR, toS, faulty>>

-----------------------------------------------------------------------------
(* The sender's read loop. *)

\* The status check of handleTransferAccept, the cumulative ack and the
\* reject.  What arrives after the friendship was dropped is ignored.
SenderReads ==
    LET m == Head(toS)
    IN  /\ toS # <<>>
        /\ toS' = Tail(toS)
        /\ \/ /\ m.kind = "accept" /\ sPeer = "friend" /\ sStatus = "awaiting"
              /\ sStatus' = "streaming"
              /\ sPc' = "window"
              /\ UNCHANGED <<lastAck, sTold>>
           \/ /\ m.kind = "ack" /\ sPeer = "friend" /\ window > 0 /\ m.n >= lastAck
              /\ lastAck' = m.n
              /\ UNCHANGED <<sStatus, sPc, sTold>>
           \/ /\ m.kind = "reject" /\ sPeer = "friend"
              /\ sStatus' = "failed"
              /\ sTold' = Append(sTold, "failed")
              /\ UNCHANGED <<sPc, lastAck>>
           \/ /\ \/ sPeer # "friend"
                 \/ m.kind = "accept" /\ sStatus # "awaiting"
                 \/ m.kind = "ack" /\ (window <= 0 \/ m.n < lastAck)
              /\ UNCHANGED <<sStatus, sPc, lastAck, sTold>>
        /\ UNCHANGED <<sent, sSeq, terms, aborted, sPeer, receiver, toR, faulty>>

\* handlePeerLeft drops the friendship first ...
SenderUnfriends ==
    /\ sPeer = "friend"
    /\ sPeer' = "leaving"
    /\ faulty' = TRUE
    /\ UNCHANGED <<sStatus, sPc, sent, sSeq, terms, lastAck, aborted, sTold,
                   receiver, toR, toS>>

\* ... and then fails the transfer, if it is still active.
SenderFailsTransfer ==
    /\ sPeer = "leaving"
    /\ sPeer' = "gone"
    /\ aborted' = TRUE
    /\ IF sStatus \in {"awaiting", "streaming"}
       THEN sStatus' = "failed" /\ sTold' = Append(sTold, "failed")
       ELSE UNCHANGED <<sStatus, sTold>>
    /\ UNCHANGED <<sPc, sent, sSeq, terms, lastAck, receiver, toR, toS, faulty>>

-----------------------------------------------------------------------------
(* The receiver's read loop. *)

\* abortInbound, under it.mu.
AbortInbound ==
    /\ rStatus' = "failed"
    /\ rListed' = FALSE
    /\ rTold' = Append(rTold, "failed")

\* tryFinalize: both the last byte and the transfer-end are there.
Finalize(complete, end) ==
    IF complete /\ end
    THEN /\ rStatus' = "done"
         /\ rListed' = FALSE
         /\ rTold' = Append(rTold, "complete")
    ELSE UNCHANGED <<rStatus, rListed, rTold>>

\* Faulty variant of Written: a chunk is written when it arrives.
WrittenNow(k, held) == k + 1

\* How far the file is written once chunk k joined those held: writeInOrder
\* of k if it is the next one, and of the buffered successors.
Written(k, held) ==
    IF k # nextSeq THEN nextSeq
    ELSE CHOOSE e \in (k + 1)..(k + 1 + Cardinality(held)) :
            (k + 1)..(e - 1) \subseteq held /\ e \notin held

\* The checks of handleChunk: the sequence bound, which assumes the floor for
\* the chunk size, then whether the chunk is new, then what is in it.
OutOfRange(m) == m.seq >= ChunkCount(Size, ChunkDataSize)
Duplicate(m) == m.seq < nextSeq \/ m.seq \in pending
Bad(m) ==
    \/ OutOfRange(m)
    \/ ~ Duplicate(m) /\ m.n = 0 /\ ~ m.last
    \/ ~ Duplicate(m) /\ received + m.n > Size

\* The bytes of the chunks below e are in the file.
Offset(e) == Least(e * chunkSize, fileSize)

\* A chunk that is new is taken: buffered, or written with its successors.
TakeChunk(m) ==
    LET e        == Written(m.seq, pending)
        end      == IF m.last THEN m.seq ELSE lastSeq
        complete == end # None /\ e = end + 1
        got      == received + m.n
        ack      == ShouldAck(got, lastAcked, window)
    IN  /\ received' = got
        /\ nextSeq' = e
        /\ pending' = {k \in pending \cup {m.seq} : k >= e}
        /\ lastSeq' = end
        /\ IF complete /\ Offset(e) # Size
           THEN AbortInbound /\ UNCHANGED <<lastAcked, toS>>
           ELSE /\ lastAcked' = IF ack THEN got ELSE lastAcked
                /\ Finalize(complete, endSeen)
                /\ IF ack THEN SendToS(Ack(got)) ELSE UNCHANGED toS
        /\ UNCHANGED endSeen

HandleChunk(m) ==
    /\ m.kind = "chunk"
    /\ \/ Bad(m) /\ AbortInbound /\ UNCHANGED <<assembly, toS>>
       \/ ~ Bad(m) /\ ~ Duplicate(m) /\ TakeChunk(m)
       \/ ~ Bad(m) /\ Duplicate(m) /\ UNCHANGED <<rStatus, rListed, rTold, assembly, toS>>

HandleTransferEnd(m) ==
    /\ m.kind = "end"
    /\ endSeen' = TRUE
    /\ Finalize(lastSeq # None /\ nextSeq = lastSeq + 1, TRUE)
    /\ UNCHANGED <<received, nextSeq, pending, lastSeq, lastAcked, toS>>

\* handleEnvelope looks the friendship up, the handlers the transfer and its
\* status; without them the envelope is ignored.
Taking == rPeer = "friend" /\ rListed /\ rStatus = "streaming"

ReceiverReads ==
    LET m == Head(toR)
    IN  /\ toR # <<>>
        /\ toR' = Tail(toR)
        /\ \/ Taking /\ (HandleChunk(m) \/ HandleTransferEnd(m))
           \/ ~ Taking /\ UNCHANGED <<rStatus, rListed, rTold, assembly, toS>>
        /\ UNCHANGED <<sender, rAsked, rPeer, faulty>>

\* The next chunk cannot be written, or the finished file not be closed and
\* given its name.  What was taken before no longer matters.
DiskFails ==
    /\ toR # <<>>
    /\ Taking
    /\ LET m == Head(toR)
       IN  \/ m.kind = "chunk" /\ m.seq = nextSeq /\ ~ Bad(m)
           \/ m.kind = "end" /\ lastSeq # None /\ nextSeq = lastSeq + 1
    /\ toR' = Tail(toR)
    /\ AbortInbound
    /\ faulty' = TRUE
    /\ UNCHANGED <<sender, assembly, rAsked, rPeer, toS>>

\* Faulty variant of ReceiveStall: the first chunk arms the timer, not the accept.
ReceiveStallLate ==
    /\ rListed
    /\ rStatus = "streaming" /\ received > 0
    /\ Patient => Quiet
    /\ AbortInbound
    /\ UNCHANGED <<sender, assembly, rAsked, rPeer, toR, toS, faulty>>

\* armInboundIdle: no chunk and no transfer-end for StallTimeoutSec.
ReceiveStall ==
    /\ rListed
    /\ rStatus = "streaming"
    /\ Patient => Quiet
    /\ AbortInbound
    /\ UNCHANGED <<sender, assembly, rAsked, rPeer, toR, toS, faulty>>

ReceiverUnfriends ==
    /\ rPeer = "friend"
    /\ rPeer' = "leaving"
    /\ faulty' = TRUE
    /\ UNCHANGED <<sender, rStatus, assembly, rListed, rAsked, rTold, toR, toS>>

\* failTransfersForPeer lists the peer's transfers under c.mu ...
ReceiverLists ==
    /\ rPeer = "leaving"
    /\ rPeer' = IF rListed THEN "listed" ELSE "gone"
    /\ UNCHANGED <<sender, rStatus, assembly, rListed, rAsked, rTold, toR, toS, faulty>>

\* Faulty variant of ReceiverAborts: the status is not looked at again.
ReceiverAbortsAgain ==
    /\ rPeer = "listed"
    /\ rPeer' = "gone"
    /\ AbortInbound
    /\ UNCHANGED <<sender, assembly, rAsked, toR, toS, faulty>>

\* ... and aborts each of them that has no verdict yet.
ReceiverAborts ==
    /\ rPeer = "listed"
    /\ rPeer' = "gone"
    /\ IF rStatus \in {"failed", "done"}
       THEN UNCHANGED <<rStatus, rListed, rTold>>
       ELSE AbortInbound
    /\ UNCHANGED <<sender, assembly, rAsked, toR, toS, faulty>>

-----------------------------------------------------------------------------
(* The relay drops an envelope. *)

LoseToReceiver ==
    /\ toR # <<>>
    /\ toR' = Tail(toR)
    /\ faulty' = TRUE
    /\ UNCHANGED <<sender, receiver, toS>>

LoseToSender ==
    /\ toS # <<>>
    /\ toS' = Tail(toS)
    /\ faulty' = TRUE
    /\ UNCHANGED <<sender, receiver, toR>>

-----------------------------------------------------------------------------
StreamFile == WaitForWindow \/ CheckAborted \/ SendChunk \/ SendEnd \/ Finish

PeerLeft == SenderFailsTransfer \/ ReceiverLists \/ ReceiverAborts

Faults ==
    \/ ReadFails \/ DiskFails \/ LoseToReceiver \/ LoseToSender
    \/ SenderUnfriends \/ ReceiverUnfriends

Next ==
    \/ AcceptTransfer \/ RejectTransfer
    \/ StreamFile \/ FlowControlStall \/ SenderReads
    \/ ReceiverReads \/ ReceiveStall
    \/ PeerLeft
    \/ Faults

\* Goroutines that can run do, frames are read, and timers fire.  The user
\* need not decide and nothing has to fail.
Fairness ==
    /\ WF_vars(StreamFile) /\ WF_vars(FlowControlStall) /\ WF_vars(SenderReads)
    /\ WF_vars(ReceiverReads) /\ WF_vars(ReceiveStall) /\ WF_vars(PeerLeft)

Spec == Init /\ [][Next]_vars /\ Fairness

-----------------------------------------------------------------------------
(* Properties. *)

\* Every variable keeps its shape; the counters of both sides, the window
\* among them, are never negative.
TypeOK ==
    /\ terms \in [size : Nat, file : Nat, chunk : Nat, window : Nat]
    /\ sStatus \in {"awaiting", "streaming", "done", "failed"}
    /\ sPc \in {"idle", "window", "check", "seal", "end", "finish", "stopped"}
    /\ sent \in Nat /\ sSeq \in Nat
    /\ lastAck \in Nat /\ aborted \in BOOLEAN
    /\ sPeer \in {"friend", "leaving", "gone"}
    /\ sTold \in Seq(Verdicts)
    /\ rStatus \in {"offered", "streaming", "done", "failed"}
    /\ received \in Nat /\ nextSeq \in Nat /\ pending \subseteq Nat
    /\ lastSeq \in Nat \cup {None} /\ endSeen \in BOOLEAN /\ lastAcked \in Nat
    /\ rListed \in BOOLEAN /\ rAsked \in BOOLEAN
    /\ rPeer \in {"friend", "leaving", "listed", "gone"}
    /\ rTold \in Seq(Verdicts)
    /\ faulty \in BOOLEAN

\* The two counters of the flow control never cross: the sender believes no
\* byte to have arrived that the receiver has not taken.
AcksAreHonest == lastAck <= lastAcked /\ lastAcked <= received /\ received <= sent

\* So what the receiver has not taken yet never reaches the window: the relay
\* and the channels hold less than that for this transfer.
WindowRespected ==
    /\ AcksAreHonest
    /\ window > 0 => sent - received < window

\* As long as nothing failed and the receiver takes chunks, a sender that
\* waits for the window has something on its way that will move it: the
\* receiver's quarter-window acks never leave it waiting for nothing.
NeverStuck ==
    (Blocked /\ ~ faulty /\ Taking) => (toR # <<>> \/ toS # <<>>)

\* A receiver reports success for the whole file only: every chunk up to the
\* one flagged last, in order, of the size that was offered, whatever chunks
\* were lost and however the file changed since it was offered.
WholeFile ==
    rStatus = "done" =>
        /\ received = Size
        /\ pending = {}
        /\ nextSeq = sSeq
        /\ sPc \in {"finish", "stopped"}

\* A receiver never takes a chunk of an honest sender for one out of range.
NeverOutOfRange ==
    \A i \in DOMAIN toR : toR[i].kind = "chunk" => ~ OutOfRange(toR[i])

\* The receiver's client tells one verdict of a transfer, whoever of the
\* user, the timer and the two handlers of the read loop comes first.
InboundOneVerdict == Len(rTold) <= 1

\* A transfer that started reaches a verdict on both sides, whatever fails,
\* unless the receiver's user, whose accept could not be sent, rejected it.
Settles ==
    /\ sStatus = "streaming" ~> sStatus \in {"done", "failed"}
    /\ rStatus = "streaming" ~> (rStatus \in {"done", "failed"} \/ ~ rListed)

\* An accepted transfer of a file that is still what was offered completes on
\* both sides, unless something failed: no stall timer cuts it short.
Completes ==
    rStatus = "streaming" ~>
        \/ faulty \/ fileSize # Size
        \/ rTold = <<"complete">> /\ sTold = <<"complete">>
=============================================================================
