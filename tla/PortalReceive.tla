---------------------------- MODULE PortalReceive ----------------------------
(***************************************************************************)
(* Receiving a file in the portal (App.tsx, receiveWorker.ts, state.ts):   *)
(* one transfer, from the offer to the link the user downloads it by.      *)
(*                                                                         *)
(* A receive is held in memory and assembled on the main thread, or goes   *)
(* to disk through the receive worker, which main and worker do by         *)
(* messages.  As in PortalSend the transfer is kept in React state, as     *)
(* rendered, and in a ref an effect replaces.                              *)
(*                                                                         *)
(* The sender keeps to its window.  It may fall silent or leave, and the   *)
(* file it sends may differ from the one it offered.  Chunks may arrive in *)
(* any order and twice, which the assembler is written for.                *)
(***************************************************************************)
EXTENDS Limits, FiniteSets, Sequences

CONSTANTS
    Announced,          \* the size in the offer
    Actual,             \* sizes the file may have when it is sent
    WindowBytes,        \* DEFAULT_WINDOW_BYTES
    Disks,              \* whether receives go to disk: the modes to try
    OtherTransfers,     \* whether other transfers make the page render
    MaxDups             \* bound: chunks delivered twice

ASSUME PortalReceiveAssumption ==
    /\ {Announced, WindowBytes, MaxDups} \subseteq Nat /\ Actual \subseteq Nat
    /\ Disks \subseteq BOOLEAN /\ OtherTransfers \in BOOLEAN

VARIABLES
    state, shown, ref,  \* the transfer: inbound, as rendered, and in inboundRef
    effectDue,          \* the effects of the last render have not run
    friend,             \* the peer is in friendsRef, with session keys
    disk,               \* OPFS_OK, and the receive worker exists
    pc,                 \* where acceptIncomingTransfer is
    asm,                \* inboundDataRef: the assembler on the main thread
    book,               \* inboundAckRef: lastAcked, or NoBook
    armed,              \* the receive-stall timer runs
    entry,              \* the worker's entry in assembles: assembler, lastAcked
    toWorker, toMain,   \* messages between main and worker, in order
    online,             \* the connection to the relay is open
    wire,               \* frames from the sender on their way
    dups,               \* chunks delivered and still on their way
    toSender,           \* frames to the sender, in order
    sender              \* the sender

recvVars   == <<pc, asm, book, armed>>
workerVars == <<entry, toWorker, toMain>>
netVars    == <<online, wire, dups, toSender, sender>>
vars       == <<state, shown, ref, effectDue, friend, disk, recvVars, workerVars, netVars>>

-----------------------------------------------------------------------------
(* Data. *)

Statuses == {"none", "offered", "streaming", "done", "aborted"}

Settled == {"done", "aborted"}

\* An entry of inbound; status "none" stands for no entry.  What a done
\* transfer has to show for: an assembled blob, then the link to it.
Transfers == [status : Statuses, file : {"none", "assembled", "link"}]

Entry(s) == [status |-> s, file |-> "none"]

Frame(kind, n) == [kind |-> kind, n |-> n]

NoBook == -1

ChunkSize == NegotiateChunkSize(PreferredChunkSize, PreferredChunkSize, PreferredChunkSize)

Window == EffectiveWindow(WindowBytes, ChunkSize)

\* The sender cuts its file into chunks; seq counts from 0.
Count == ChunkCount(sender.size, ChunkSize)

LastSeq == Count - 1

\* The bytes of the file before chunk seq, and in it.
Before(seq) == Least(seq * ChunkSize, sender.size)

Length(seq) == Before(seq + 1) - Before(seq)

-----------------------------------------------------------------------------
(* The assembler. *)

NoAsm == [nextSeq |-> -1, pending |-> {}, receivedBytes |-> 0, lastSeq |-> -1,
          digest |-> FALSE, ended |-> FALSE]

NewAsm == [NoAsm EXCEPT !.nextSeq = 0]

\* The first chunk from next on that has not arrived.
Frontier(next, got) ==
    CHOOSE s \in next..(next + Cardinality(got)) :
        s \notin got /\ next..(s - 1) \subseteq got

\* acceptChunk: its verdict, and the assembler afterwards.
AcceptChunk(a, seq) ==
    LET n        == Length(seq)
        last     == seq = LastSeq
        next     == Frontier(a.nextSeq, a.pending \cup {seq})
        complete == next = LastSeq + 1 /\ (last \/ a.lastSeq = LastSeq)
        accepted == [a EXCEPT !.nextSeq = next,
                              !.pending = (@ \cup {seq}) \ 0..(next - 1),
                              !.receivedBytes = @ + n,
                              !.lastSeq = IF last THEN seq ELSE @,
                              !.digest = complete]
    IN  IF seq < a.nextSeq \/ seq \in a.pending THEN [verdict |-> "duplicate", a |-> a]
        ELSE IF \/ seq >= ChunkCount(Announced, ChunkDataSize)
                \/ n = 0 /\ ~ last
                \/ a.receivedBytes + n > Announced
                \/ complete /\ Before(next) # Announced
             THEN [verdict |-> "abort", a |-> a]
             ELSE [verdict |-> "accepted", a |-> accepted]

\* Faulty variant of InboundVerdict: the digests are not compared.
AnyDigest(a) == IF a.digest /\ a.ended THEN "verified" ELSE "pending"

\* The digest of what was sent and the one in transfer-end are compared once
\* both are there.
InboundVerdict(a) ==
    IF ~ (a.digest /\ a.ended) THEN "pending"
    ELSE IF sender.honest THEN "verified" ELSE "corrupt"

-----------------------------------------------------------------------------
Init ==
    /\ state = Entry("none") /\ shown = state /\ ref = state /\ effectDue = FALSE
    /\ friend = TRUE /\ disk \in Disks
    /\ pc = "idle" /\ asm = NoAsm /\ book = NoBook /\ armed = FALSE
    /\ entry = [asm |-> NoAsm, lastAcked |-> 0] /\ toWorker = <<>> /\ toMain = <<>>
    /\ online = TRUE /\ wire = {Frame("offer", 0)} /\ dups = 0 /\ toSender = <<>>
    /\ \E size \in Actual, honest \in BOOLEAN :
          /\ honest \/ size = Announced
          /\ sender = [size |-> size, honest |-> honest, started |-> FALSE, seq |-> 0,
                       acked |-> 0, silent |-> FALSE, left |-> FALSE]

-----------------------------------------------------------------------------
(* React. *)

\* A blob that was rendered gets its link, if it is still there.
Linked(t) == IF /\ shown.status = "done" /\ shown.file = "assembled"
                /\ t.status = "done" /\ t.file = "assembled"
             THEN [t EXCEPT !.file = "link"] ELSE t

\* Faulty variant of Effects: the assembled blob is left as it is.
SyncOnly == ref' = shown /\ UNCHANGED state

\* The two effects on inbound.
Effects == ref' = shown /\ state' = Linked(state)

\* The effects of a render run before the next one.
Render ==
    /\ shown # state \/ OtherTransfers
    /\ IF effectDue THEN Effects ELSE UNCHANGED <<ref, state>>
    /\ shown' = state'
    /\ effectDue' = TRUE
    /\ UNCHANGED <<friend, disk, recvVars, workerVars, netVars>>

RunEffects ==
    /\ effectDue
    /\ effectDue' = FALSE
    /\ Effects
    /\ UNCHANGED <<shown, friend, disk, recvVars, workerVars, netVars>>

\* A click is rendered at once, with its effects.
Click(t) ==
    /\ state' = t /\ shown' = t /\ ref' = t
    /\ effectDue' = FALSE

-----------------------------------------------------------------------------
(* The offer and the user. *)

\* A functional update to status s that wants the entry in one of from.
Moved(t, from, s) == IF t.status \in from THEN Entry(s) ELSE t

TransferOffer ==
    /\ Frame("offer", 0) \in wire
    /\ wire' = wire \ {Frame("offer", 0)}
    /\ state' = IF friend /\ ref.status = "none" THEN Entry("offered") ELSE state
    /\ UNCHANGED <<shown, ref, effectDue, friend, disk, recvVars, workerVars,
                   online, dups, toSender, sender>>

Send(f) == toSender' = IF online THEN Append(toSender, f) ELSE toSender

\* acceptIncomingTransfer claims the offer, paints, and awaits two frames.
AcceptIncoming ==
    /\ shown.status = "offered" /\ ref.status = "offered" /\ pc = "idle"
    /\ Click(Moved(state, {"offered"}, "streaming"))
    /\ pc' = "painting"
    /\ UNCHANGED <<friend, disk, asm, book, armed, workerVars, netVars>>

\* Without keys the reject cannot be sent and the click is undone.
RejectIncoming ==
    /\ shown.status = "offered" /\ ref.status = "offered" /\ friend
    /\ Click(Moved(state, {"offered"}, "none"))
    /\ Send(Frame("reject", 0))
    /\ UNCHANGED <<friend, disk, recvVars, workerVars, online, wire, dups, sender>>

\* abortOfferLocal.
AbortOfferLocal ==
    /\ ref' = Entry("aborted")
    /\ state' = Moved(state, {"offered", "streaming"}, "aborted")
    /\ asm' = NoAsm /\ book' = NoBook /\ armed' = FALSE
    /\ pc' = "over"

\* The way is open: if the claim stands, acks are booked, the stall clock
\* starts and the peer is told to stream.
TellPeer ==
    IF ref.status # "streaming"
    THEN /\ pc' = "over"
         /\ UNCHANGED <<state, ref, book, armed, toSender>>
    ELSE IF friend
    THEN /\ book' = 0 /\ armed' = TRUE
         /\ Send(Frame("accept", 0))
         /\ pc' = "receiving"
         /\ UNCHANGED <<state, ref>>
    ELSE AbortOfferLocal /\ UNCHANGED toSender

PaintedMemory ==
    /\ pc = "painting" /\ ~ disk
    /\ TellPeer
    /\ asm' = IF pc' = "over" /\ ref.status = "streaming" THEN NoAsm ELSE NewAsm
    /\ UNCHANGED <<shown, effectDue, friend, disk, workerVars, online, wire, dups, sender>>

PaintedDisk ==
    /\ pc = "painting" /\ disk
    /\ pc' = "opening"
    /\ toWorker' = Append(toWorker, Frame("start", 0))
    /\ UNCHANGED <<state, shown, ref, effectDue, friend, disk, asm, book, armed, entry, toMain, netVars>>

\* 15 s without an answer of the worker.
OpenTimeout ==
    /\ pc = "opening"
    /\ AbortOfferLocal
    /\ UNCHANGED <<shown, effectDue, friend, disk, workerVars, netVars>>

Dismiss ==
    /\ shown.status \in Settled
    /\ Click(Entry("none"))
    /\ asm' = NoAsm /\ book' = NoBook /\ armed' = FALSE
    /\ UNCHANGED <<friend, disk, pc, workerVars, netVars>>

-----------------------------------------------------------------------------
(* What arrives from the sender. *)

\* maybeSendAck: what it does to the bookkeeping and the wire.
MaybeSendAck(n) ==
    IF book # NoBook /\ ShouldAck(n, book, Window)
    THEN /\ book' = n
         /\ IF friend THEN Send(Frame("ack", n)) ELSE UNCHANGED toSender
    ELSE UNCHANGED <<book, toSender>>

\* finalizeInbound, and what a chunk that breaks the rules does.
Finalize(verdict) ==
    /\ asm' = NoAsm /\ book' = NoBook /\ armed' = FALSE
    /\ state' = IF state.status # "streaming" THEN state
                ELSE IF verdict = "verified" THEN [status |-> "done", file |-> "assembled"]
                ELSE Entry("aborted")

\* The raw-frame handler takes every chunk while a receive to disk streams.
ToWorker == disk /\ ref.status = "streaming"

Arrive(f) ==
    /\ f \in wire
    /\ \/ wire' = wire \ {f} /\ UNCHANGED dups
       \/ f.kind = "chunk" /\ dups < MaxDups /\ dups' = dups + 1 /\ UNCHANGED wire
    /\ UNCHANGED <<shown, ref, effectDue, friend, disk, pc, entry, toMain, online, sender>>

\* Main holds an assembler for a transfer that streams, as far as it knows.
Assembling == friend /\ ref.status = "streaming" /\ asm # NoAsm

ChunkToWorker(seq) ==
    /\ Arrive(Frame("chunk", seq))
    /\ ToWorker
    /\ toWorker' = Append(toWorker, Frame("frame", seq))
    /\ UNCHANGED <<state, asm, book, armed, toSender>>

\* handleIncomingChunk.
IncomingChunk(seq) ==
    /\ Arrive(Frame("chunk", seq))
    /\ ~ ToWorker
    /\ LET got == AcceptChunk(asm, seq)
       IN  \/ /\ ~ Assembling \/ got.verdict = "duplicate"
              /\ UNCHANGED <<state, asm, book, armed, toSender>>
           \/ /\ Assembling /\ got.verdict = "abort"
              /\ Finalize("corrupt")
              /\ UNCHANGED toSender
           \/ /\ Assembling /\ got.verdict = "accepted"
              /\ InboundVerdict(got.a) = "pending"
              /\ asm' = got.a
              /\ armed' = TRUE
              /\ MaybeSendAck(got.a.receivedBytes)
              /\ UNCHANGED state
           \/ /\ Assembling /\ got.verdict = "accepted"
              /\ InboundVerdict(got.a) # "pending"
              /\ Finalize(InboundVerdict(got.a))
              /\ IF ShouldAck(got.a.receivedBytes, book, Window)
                 THEN Send(Frame("ack", got.a.receivedBytes)) ELSE UNCHANGED toSender
    /\ UNCHANGED toWorker

\* Faulty variant of TransferEnd: a gap is not waited for.
TransferEndStrict ==
    /\ Arrive(Frame("end", 0))
    /\ LET ended == [asm EXCEPT !.ended = TRUE]
       IN  \/ ~ Assembling /\ UNCHANGED <<state, asm, book, armed>>
           \/ Assembling /\ Finalize(InboundVerdict(ended))
    /\ UNCHANGED <<toWorker, toSender>>

\* transfer-end.  A receive to disk has no assembler here: the frame goes
\* nowhere, and the branch that hands it to the worker is never reached.
TransferEnd ==
    /\ Arrive(Frame("end", 0))
    /\ LET ended == [asm EXCEPT !.ended = TRUE]
       IN  \/ ~ Assembling /\ UNCHANGED <<state, asm, book, armed>>
           \/ /\ Assembling /\ InboundVerdict(ended) = "pending"
              /\ asm' = ended
              /\ armed' = TRUE
              /\ UNCHANGED <<state, book>>
           \/ /\ Assembling /\ InboundVerdict(ended) # "pending"
              /\ Finalize(InboundVerdict(ended))
    /\ UNCHANGED <<toWorker, toSender>>

\* Faulty variant of PeerLeft: a transfer that is done is aborted too.
PeerLeftAll ==
    /\ sender.left /\ friend /\ online
    /\ friend' = FALSE
    /\ state' = Moved(state, {"offered", "streaming", "done"}, "aborted")
    /\ asm' = NoAsm /\ book' = NoBook /\ armed' = FALSE
    /\ UNCHANGED <<shown, ref, effectDue, disk, pc, workerVars, netVars>>

\* peer-left.  The worker is not told.
PeerLeft ==
    /\ sender.left /\ friend /\ online
    /\ friend' = FALSE
    /\ state' = Moved(state, {"offered", "streaming"}, "aborted")
    /\ IF ref.status = "none" THEN UNCHANGED <<asm, book, armed>>
       ELSE asm' = NoAsm /\ book' = NoBook /\ armed' = FALSE
    /\ UNCHANGED <<shown, ref, effectDue, disk, pc, workerVars, netVars>>

-----------------------------------------------------------------------------
(* The worker.  Its messages are handled one after the other. *)

HandOver(kind) ==
    /\ toWorker # <<>> /\ Head(toWorker).kind = kind
    /\ toWorker' = Tail(toWorker)
    /\ UNCHANGED <<state, shown, ref, effectDue, friend, disk, recvVars, netVars>>

\* The file is opened, or cannot be.
WorkerStart ==
    /\ HandOver("start")
    /\ \/ /\ entry' = [asm |-> NewAsm, lastAcked |-> 0]
          /\ toMain' = Append(toMain, Frame("startReady", 0))
       \/ /\ toMain' = Append(toMain, Frame("startFailed", 0))
          /\ UNCHANGED entry

\* A frame of a transfer that is not open is kept for later, or for ever.
\* Progress for the list is reported too, now and then.
WorkerFrame ==
    /\ HandOver("frame")
    /\ LET got   == AcceptChunk(entry.asm, Head(toWorker).n)
           n     == got.a.receivedBytes
           acks  == ShouldAck(n, entry.lastAcked, Window)
       IN  \/ /\ entry.asm = NoAsm \/ got.verdict = "duplicate"
              /\ UNCHANGED <<entry, toMain>>
           \/ /\ entry.asm # NoAsm /\ got.verdict = "abort"
              /\ entry' = [asm |-> NoAsm, lastAcked |-> 0]
              /\ toMain' = Append(toMain, Frame("aborted", 0))
           \/ /\ entry.asm # NoAsm /\ got.verdict = "accepted"
              /\ entry' = [asm |-> got.a, lastAcked |-> IF acks THEN n ELSE entry.lastAcked]
              /\ toMain' = IF acks THEN Append(toMain, Frame("needAck", n)) ELSE toMain

WorkerAbort ==
    /\ HandOver("abort")
    /\ entry' = [asm |-> NoAsm, lastAcked |-> 0]
    /\ UNCHANGED toMain

FromWorker(kinds) ==
    /\ toMain # <<>> /\ Head(toMain).kind \in kinds
    /\ toMain' = Tail(toMain)
    /\ UNCHANGED <<shown, effectDue, friend, disk, entry, toWorker, online, wire, dups, sender>>

\* The promise of acceptIncomingTransfer listens only while it waits.
StartReady ==
    /\ FromWorker({"startReady"})
    /\ UNCHANGED asm
    /\ IF pc = "opening" THEN TellPeer
       ELSE UNCHANGED <<state, ref, pc, book, armed, toSender>>

\* Both listeners hear that the worker gave up.
WorkerGaveUp ==
    /\ FromWorker({"startFailed", "aborted"})
    /\ asm' = NoAsm /\ book' = NoBook /\ armed' = FALSE
    /\ state' = IF state.status = "none" THEN state ELSE Entry("aborted")
    /\ IF pc = "opening" THEN ref' = Entry("aborted") /\ pc' = "over"
                         ELSE UNCHANGED <<ref, pc>>
    /\ UNCHANGED toSender

NeedAck ==
    /\ FromWorker({"needAck"})
    /\ armed' = TRUE
    /\ IF ref.status = "none" THEN UNCHANGED <<book, toSender>>
                              ELSE MaybeSendAck(Head(toMain).n)
    /\ UNCHANGED <<state, ref, pc, asm>>

-----------------------------------------------------------------------------
(* The stall timer, the sender and the network. *)

\* The sender has nothing to send, for good or until it hears an ack.
SenderWaits ==
    \/ sender.silent \/ sender.left \/ ~ online
    \/ ~ sender.started \/ sender.seq > LastSeq
    \/ WindowFull(Before(sender.seq + 1), sender.acked, Window)

\* Nothing that would count as progress is under way.
Quiet ==
    /\ SenderWaits
    /\ \A f \in wire : f.kind = "offer"
    /\ toWorker = <<>> /\ toMain = <<>>
    /\ toSender = <<>> \/ sender.silent \/ sender.left

\* 30 s without progress: abortInboundStreaming.
ReceiveStall ==
    /\ armed /\ Quiet
    /\ armed' = FALSE
    /\ IF ref.status = "streaming"
       THEN /\ asm' = NoAsm /\ book' = NoBook
            /\ state' = Moved(state, {"streaming"}, "aborted")
            /\ ref' = Entry("aborted")
            /\ toWorker' = IF disk THEN Append(toWorker, Frame("abort", 0)) ELSE toWorker
       ELSE UNCHANGED <<asm, book, state, ref, toWorker>>
    /\ UNCHANGED <<shown, effectDue, friend, disk, pc, entry, toMain, netVars>>

Hear ==
    /\ toSender # <<>> /\ ~ sender.silent /\ ~ sender.left
    /\ toSender' = Tail(toSender)
    /\ LET f == Head(toSender)
       IN  sender' = [sender EXCEPT !.started = @ \/ f.kind = "accept",
                                    !.acked = IF f.kind = "ack" THEN f.n ELSE @]
    /\ UNCHANGED <<state, shown, ref, effectDue, friend, disk, recvVars, workerVars, online, wire, dups>>

\* The next chunk, and transfer-end right after the last.
SendChunk ==
    /\ ~ SenderWaits
    /\ sender' = [sender EXCEPT !.seq = @ + 1]
    /\ wire' = wire \cup {Frame("chunk", sender.seq)} \cup
               (IF sender.seq = LastSeq THEN {Frame("end", 0)} ELSE {})
    /\ UNCHANGED <<state, shown, ref, effectDue, friend, disk, recvVars, workerVars,
                   online, dups, toSender>>

SenderStops ==
    /\ ~ sender.silent /\ ~ sender.left
    /\ \/ sender' = [sender EXCEPT !.silent = TRUE]
       \/ sender' = [sender EXCEPT !.left = TRUE]
    /\ UNCHANGED <<state, shown, ref, effectDue, friend, disk, recvVars, workerVars,
                   online, wire, dups, toSender>>

\* The page's own connection is lost; what is on its way is too.
Lost ==
    /\ online
    /\ online' = FALSE
    /\ wire' = {} /\ toSender' = <<>>
    /\ UNCHANGED <<state, shown, ref, effectDue, friend, disk, recvVars, workerVars, dups, sender>>

-----------------------------------------------------------------------------
OnFrame ==
    \/ TransferOffer \/ TransferEnd
    \/ \E seq \in 0..LastSeq : ChunkToWorker(seq) \/ IncomingChunk(seq)

Accepting == PaintedMemory \/ PaintedDisk \/ OpenTimeout

Worker == WorkerStart \/ WorkerFrame \/ WorkerAbort

OnWorker == StartReady \/ WorkerGaveUp \/ NeedAck

Next ==
    \/ OnFrame \/ PeerLeft \/ Accepting \/ Worker \/ OnWorker \/ ReceiveStall
    \/ AcceptIncoming \/ RejectIncoming \/ Dismiss \/ Render \/ RunEffects
    \/ Hear \/ SendChunk \/ SenderStops \/ Lost

\* What goes on by itself: frames and messages are delivered, timers fire and
\* a sender that did not stop goes on.
Progress ==
    \/ OnFrame \/ PeerLeft \/ Accepting \/ Worker \/ OnWorker \/ ReceiveStall
    \/ Hear \/ SendChunk

\* As long as something can go on by itself, something does; what changed is
\* rendered, and effects are run.  Nothing is asked of the user.
Fairness ==
    /\ WF_vars(Progress)
    /\ WF_vars(shown # state /\ Render) /\ WF_vars(RunEffects)

Spec == Init /\ [][Next]_vars /\ Fairness

-----------------------------------------------------------------------------
(* Properties. *)

\* As long as a receive streams, a sender that waits for room has an ack
\* coming: none is swallowed between the worker's bookkeeping and that of the
\* main thread, and the window holds enough for the next one.
SenderNeverStarved ==
    (sender.started /\ sender.seq <= LastSeq /\ Quiet /\ state.status = "streaming") =>
        sender.silent \/ sender.left \/ ~ online

\* A transfer is done only if the file that was sent is the one that was
\* offered, to the last byte, and is the one the sender vouched for.
DoneIsWhole ==
    state.status = "done" =>
        sender.honest /\ sender.size = Announced /\ sender.seq = LastSeq + 1

\* A sender, a file or a connection that gave up: what may abort a transfer.
Excused ==
    \/ sender.silent \/ sender.left \/ ~ online
    \/ sender.size # Announced \/ ~ sender.honest

\* A receive in memory is aborted only for a cause outside the page, however
\* chunks and transfer-end are ordered.
MemoryAbortHasCause == (~ disk /\ state.status = "aborted") => Excused

\* A file that was assembled gets its link, unless the user dismissed it.
DoneGetsLink == state.status = "done" ~> (state.file = "link" \/ state.status = "none")

\* What the user sees of a transfer; a rejected offer is not kept.
Phase ==
    CASE state.status = "none" -> IF Frame("offer", 0) \in wire THEN "new" ELSE "gone"
      [] state.status = "offered" -> "asked"
      [] OTHER -> state.status

\* A receive is a TransferLifecycle, whoever ends it and however late the
\* page renders it.
Lifecycle == INSTANCE TransferLifecycle WITH phase <- Phase

LifecycleSpec == Lifecycle!Spec

-----------------------------------------------------------------------------
(* What a comment of the code says, and the code does not do. *)

\* "Sender signaled end-of-stream and handed us its finalized SHA-256 [...]
\* record the expected digest and try to finalize": the main thread and the
\* worker agree on the end of a stream, so that a receive to disk that got
\* every byte is not aborted by its stall timer.
CompleteIsNotAborted ==
    [][(entry.asm.digest /\ ~ Excused /\ pc = "receiving") =>
          ~ (state.status = "streaming" /\ state'.status = "aborted")]_vars
=============================================================================
