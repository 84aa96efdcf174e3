----------------------------- MODULE PortalSend -----------------------------
(***************************************************************************)
(* Sending a file from the portal (App.tsx, sendWorker.ts): one transfer,  *)
(* from the offer to its last chunk and transfer-end.                      *)
(*                                                                         *)
(* The transfer is kept three times: in React state, in what was rendered  *)
(* last, and in a ref that the handlers and the sending loop read and      *)
(* write.  An effect copies the rendered transfers into the ref, some time *)
(* after the render; other transfers cause renders too.  The loop awaits   *)
(* between its steps, and anything may happen meanwhile.                   *)
(*                                                                         *)
(* The peer is the receiver the protocol asks for, which may fall silent   *)
(* or leave.  Sizes are in bytes, of a small file.                         *)
(***************************************************************************)
EXTENDS Limits, Sequences

CONSTANTS
    Sizes,              \* file sizes to try
    WindowBytes,        \* windows a peer may advertise; 0 from an old client
    OtherTransfers      \* whether other transfers make the page render

ASSUME PortalSendAssumption ==
    /\ Sizes \subseteq Nat /\ WindowBytes \subseteq Nat
    /\ OtherTransfers \in BOOLEAN

VARIABLES
    state, shown, ref,  \* the transfer: outbound, as rendered, and in outboundRef
    effectDue,          \* the effect of the last render has not run
    total,              \* the file's size
    friend,             \* the messenger has keys for the peer
    online,             \* the connection to the relay is open
    pc,                 \* where the sending loop is
    worker,             \* it runs streamChunksViaWorker, not streamChunksMain
    window,             \* windowBytes of this transfer
    sealed, need,       \* bytes of the file sealed; of the frame not sent yet
    toPeer, toPage,     \* frames on their way, in order
    peer                \* the receiver

sendVars == <<pc, worker, window, sealed, need>>
netVars  == <<online, toPeer, toPage, peer>>
vars     == <<state, shown, ref, effectDue, total, friend, sendVars, netVars>>

-----------------------------------------------------------------------------
(* Data. *)

Statuses == {"none", "awaiting-decision", "streaming", "done", "rejected", "aborted"}

Settled == {"done", "rejected", "aborted"}

\* An entry of outbound; status "none" stands for no entry.
Transfers == [status : Statuses, sentBytes : Nat, lastAck : Nat]

None == [status |-> "none", sentBytes |-> 0, lastAck |-> 0]

Larger(a, b) == IF a < b THEN b ELSE a

ChunkSize == NegotiateChunkSize(PreferredChunkSize, PreferredChunkSize, PreferredChunkSize)

Frame(kind, n) == [kind |-> kind, n |-> n]

Status(t, s) == [t EXCEPT !.status = s]

\* A functional update of an entry: it has no effect if there is none.
Updated(t, u) == IF t.status = "none" THEN t ELSE u

Init ==
    /\ state = None /\ shown = None /\ ref = None /\ effectDue = FALSE
    /\ total \in Sizes
    /\ \E w \in WindowBytes : window = EffectiveWindow(w, ChunkSize)
    /\ friend = TRUE /\ online = TRUE
    /\ pc = "idle" /\ worker \in BOOLEAN
    /\ sealed = 0 /\ need = 0
    /\ toPeer = <<>> /\ toPage = <<>>
    /\ peer = [received |-> 0, lastAcked |-> 0, ended |-> FALSE, silent |-> FALSE,
               left |-> FALSE]

-----------------------------------------------------------------------------
(* React. *)

\* Faulty variant of Merged: the rendered transfer replaces the one in the ref.
Replaced(rendered, live) == rendered

\* The effect's copy: of a transfer that streams in both, the cursors stay
\* ahead.
Merged(rendered, live) ==
    IF live.status = "streaming" /\ rendered.status = "streaming"
    THEN [rendered EXCEPT !.lastAck   = Larger(@, live.lastAck),
                          !.sentBytes = Larger(@, live.sentBytes)]
    ELSE rendered

\* The effect of a render runs before the next one.
Render ==
    /\ shown # state \/ OtherTransfers
    /\ shown' = state
    /\ effectDue' = TRUE
    /\ ref' = IF effectDue THEN Merged(shown, ref) ELSE ref
    /\ UNCHANGED <<state, total, friend, sendVars, netVars>>

Effect ==
    /\ effectDue
    /\ effectDue' = FALSE
    /\ ref' = Merged(shown, ref)
    /\ UNCHANGED <<state, shown, total, friend, sendVars, netVars>>

\* A click is rendered at once, with its effects.
Click(t) ==
    /\ state' = t /\ shown' = t /\ ref' = t
    /\ effectDue' = FALSE

-----------------------------------------------------------------------------
(* Offering, and what comes back. *)

\* The id of an offer is fresh: it is made once.
SendFile ==
    /\ state = None /\ pc = "idle" /\ friend
    /\ Click(Status(None, "awaiting-decision"))
    /\ pc' = "offered"
    /\ toPeer' = IF online THEN Append(toPeer, Frame("offer", 0)) ELSE toPeer
    /\ UNCHANGED <<total, friend, worker, window, sealed, need, online, toPage, peer>>

\* The messenger drops what it has no keys for.
FromPeer(kind) ==
    /\ toPage # <<>> /\ Head(toPage).kind = kind
    /\ toPage' = Tail(toPage)
    /\ UNCHANGED <<shown, effectDue, total, friend, online, toPeer, peer>>

\* Faulty variant of TransferAccept: the ref is left to the effect.
AcceptByState ==
    /\ FromPeer("accept")
    /\ friend /\ ref.status = "awaiting-decision"
    /\ state' = IF state.status = "awaiting-decision" THEN Status(state, "streaming") ELSE state
    /\ pc' = "seal"
    /\ UNCHANGED <<ref, worker, window, sealed, need>>

\* startStreaming: the ref first, then the state; the loop starts.
TransferAccept ==
    /\ FromPeer("accept")
    /\ IF friend /\ ref.status = "awaiting-decision"
       THEN /\ ref' = [ref EXCEPT !.status = "streaming", !.lastAck = 0]
            /\ state' = Updated(state, [state EXCEPT
                            !.status = IF @ = "awaiting-decision" THEN "streaming" ELSE @,
                            !.lastAck = 0])
            /\ pc' = "seal"
       ELSE UNCHANGED <<ref, state, pc>>
    /\ UNCHANGED <<worker, window, sealed, need>>

TransferReject ==
    /\ FromPeer("reject")
    /\ state' = IF friend /\ state.status = "awaiting-decision"
                THEN Status(state, "rejected") ELSE state
    /\ UNCHANGED <<ref, sendVars>>

\* An ack moves the cursor of a streaming transfer, forward only.
Acked(t, n) == IF t.status = "streaming" /\ n >= t.lastAck
               THEN [t EXCEPT !.lastAck = n] ELSE t

TransferAck ==
    /\ FromPeer("ack")
    /\ LET n == Head(toPage).n
       IN  IF friend /\ ref.status = "streaming" /\ n >= ref.lastAck
           THEN ref' = Acked(ref, n) /\ state' = Acked(state, n)
           ELSE UNCHANGED <<ref, state>>
    /\ UNCHANGED sendVars

\* Faulty variant of PeerLeft: every transfer of the peer is aborted.
PeerLeftAll ==
    /\ peer.left /\ friend /\ online
    /\ friend' = FALSE
    /\ state' = Updated(state, Status(state, "aborted"))
    /\ UNCHANGED <<shown, ref, effectDue, total, sendVars, netVars>>

\* peer-left drops the keys and aborts what is not settled, in the state.
PeerLeft ==
    /\ peer.left /\ friend /\ online
    /\ friend' = FALSE
    /\ state' = IF state.status \in {"awaiting-decision", "streaming"}
                THEN Status(state, "aborted") ELSE state
    /\ UNCHANGED <<shown, ref, effectDue, total, sendVars, netVars>>

Dismiss ==
    /\ shown.status \in Settled
    /\ Click(None)
    /\ UNCHANGED <<total, friend, sendVars, netVars>>

-----------------------------------------------------------------------------
(* The sending loop. *)

\* abort(), and what streamChunksMain does in its place.
Fail ==
    /\ state' = Updated(state, Status(state, "aborted"))
    /\ pc' = "over"

\* The worker, or streamChunksMain, reads and seals the next chunk.
Seal ==
    /\ pc = "seal"
    /\ sealed' = sealed + Least(ChunkSize, total - sealed)
    /\ need' = IF worker THEN need ELSE sealed' - sealed
    /\ pc' = IF worker THEN "frame" ELSE "window"
    /\ UNCHANGED <<state, shown, ref, effectDue, total, friend, worker, window, netVars>>

\* handleFrame looks at the ref when the worker's frame arrives.
HandleFrame ==
    /\ pc = "frame"
    /\ IF ref.status = "streaming"
       THEN /\ need' = sealed - ref.sentBytes
            /\ pc' = "window"
            /\ UNCHANGED state
       ELSE Fail /\ UNCHANGED need
    /\ UNCHANGED <<shown, ref, effectDue, total, friend, worker, window, sealed, netVars>>

\* There is no room for the frame.
NoRoom == WindowFull(ref.sentBytes + need, ref.lastAck, window)

\* waitForWindow looks again whenever an ack arrives, and every 100 ms; with
\* no window it looks at nothing, but the worker's loop does afterwards.
WaitForWindow ==
    /\ pc = "window"
    /\ \/ /\ window > 0 /\ ref.status # "streaming"
          /\ pc' = "over"
          /\ UNCHANGED state
       \/ /\ ~ NoRoom
          /\ ref.status = "streaming" \/ (window = 0 /\ ~ worker)
          /\ pc' = "buffer"
          /\ UNCHANGED state
       \/ /\ window = 0 /\ worker /\ ref.status # "streaming"
          /\ Fail
    /\ UNCHANGED <<shown, ref, effectDue, total, friend, worker, window, sealed, need, netVars>>

\* No ack is on its way, nor a frame the peer would acknowledge.
Quiet ==
    /\ \A i \in DOMAIN toPage : toPage[i].kind # "ack"
    /\ toPeer = <<>> \/ peer.silent \/ peer.left


\* 30 s without an ack.
Stall ==
    /\ pc = "window" /\ window > 0
    /\ ref.status = "streaming" /\ NoRoom /\ Quiet
    /\ Fail
    /\ UNCHANGED <<shown, ref, effectDue, total, friend, worker, window, sealed, need, netVars>>

\* waitBufferedAmount waits as long as the buffer of the socket is high.
\* That of an open socket drains, whoever filled it.  A closed socket keeps
\* what it has and counts what it discards, so that its buffer may be high
\* at any look, and then stays so: the loop waits for ever.
BufferStuck ==
    /\ pc = "buffer" /\ ~ online
    /\ pc' = "stuck"
    /\ UNCHANGED <<state, shown, ref, effectDue, total, friend, worker, window, sealed, need, netVars>>

\* What the socket takes; a closed one discards it without a word.
Put(frames) == toPeer' = IF online THEN toPeer \o frames ELSE toPeer

IsLast == sealed = total

\* publishOutboundProgress, throttled.
Progress(t, n, ack) ==
    {t, Updated(t, [t EXCEPT !.sentBytes = n, !.lastAck = Larger(@, ack)])}

\* The buffer of the socket is low and the frame goes out; nothing is looked
\* at again.  The messenger has no keys once the peer has left, which
\* the worker's frames do not need.
SendChunk ==
    /\ pc = "buffer" /\ ~ IsLast
    /\ IF worker \/ friend
       THEN /\ Put(<<Frame("chunk", sealed)>>)
            /\ ref' = [ref EXCEPT !.sentBytes = sealed]
            /\ state' \in Progress(state, sealed, ref.lastAck)
            /\ pc' = IF worker \/ ref.status = "streaming" THEN "seal" ELSE "over"
       ELSE Fail /\ UNCHANGED <<ref, toPeer>>
    /\ UNCHANGED <<shown, effectDue, total, friend, worker, window, sealed, need,
                   online, toPage, peer>>

\* Faulty variant of SendLast: transfer-end overtakes the last chunk.
SendLastSwapped ==
    /\ pc = "buffer" /\ IsLast
    /\ Put(<<Frame("end", 0), Frame("chunk", sealed)>>)
    /\ ref' = [ref EXCEPT !.sentBytes = sealed, !.status = "done"]
    /\ state' = IF state.status = "streaming" THEN ref' ELSE state
    /\ pc' = "over"
    /\ UNCHANGED <<shown, effectDue, total, friend, worker, window, sealed, need,
                   online, toPage, peer>>

\* The last chunk, and transfer-end right after it.  Only the worker's loop
\* marks the ref itself.
SendLast ==
    /\ pc = "buffer" /\ IsLast
    /\ \E published \in Progress(state, sealed, ref.lastAck) :
          IF friend
          THEN /\ Put(<<Frame("chunk", sealed), Frame("end", 0)>>)
               /\ ref' = [ref EXCEPT !.sentBytes = sealed,
                                     !.status = IF worker THEN "done" ELSE @]
               /\ state' = IF published.status # "streaming" THEN published
                           ELSE IF worker THEN ref' ELSE Status(published, "done")
               /\ pc' = "over"
          ELSE /\ Put(IF worker THEN <<Frame("chunk", sealed)>> ELSE <<>>)
               /\ ref' = IF worker THEN [ref EXCEPT !.sentBytes = sealed] ELSE ref
               /\ Fail
    /\ UNCHANGED <<shown, effectDue, total, friend, worker, window, sealed, need,
                   online, toPage, peer>>

-----------------------------------------------------------------------------
(* The peer and the network. *)

Decide ==
    /\ toPeer # <<>> /\ Head(toPeer).kind = "offer" /\ ~ peer.left
    /\ toPeer' = Tail(toPeer)
    /\ \E verdict \in {"accept", "reject"} : toPage' = Append(toPage, Frame(verdict, 0))
    /\ UNCHANGED <<state, shown, ref, effectDue, total, friend, sendVars, online, peer>>

Receive ==
    /\ toPeer # <<>> /\ Head(toPeer).kind # "offer" /\ ~ peer.left /\ ~ peer.silent
    /\ toPeer' = Tail(toPeer)
    /\ LET f     == Head(toPeer)
           n     == IF f.kind = "chunk" THEN f.n ELSE peer.received
           acks  == ShouldAck(n, peer.lastAcked, window)
       IN  /\ peer' = [peer EXCEPT !.received = n,
                                   !.ended = @ \/ f.kind = "end",
                                   !.lastAcked = IF acks THEN n ELSE @]
           /\ toPage' = IF acks THEN Append(toPage, Frame("ack", n)) ELSE toPage
    /\ UNCHANGED <<state, shown, ref, effectDue, total, friend, sendVars, online>>

\* The peer stops reading, or is cut off; the relay tells of the latter.
PeerStops ==
    /\ ~ peer.silent /\ ~ peer.left
    /\ \/ peer' = [peer EXCEPT !.silent = TRUE]
       \/ peer' = [peer EXCEPT !.left = TRUE]
    /\ UNCHANGED <<state, shown, ref, effectDue, total, friend, sendVars, online, toPeer, toPage>>

\* The page's own connection is lost; what is on its way is too.
Lost ==
    /\ online
    /\ online' = FALSE
    /\ toPeer' = <<>> /\ toPage' = <<>>
    /\ UNCHANGED <<state, shown, ref, effectDue, total, friend, sendVars, peer>>

-----------------------------------------------------------------------------
Loop == Seal \/ HandleFrame \/ WaitForWindow \/ SendChunk \/ SendLast

OnEnvelope == TransferAccept \/ TransferReject \/ TransferAck

Next ==
    \/ Loop \/ BufferStuck \/ Stall \/ OnEnvelope \/ PeerLeft
    \/ SendFile \/ Dismiss \/ Render \/ Effect
    \/ Decide \/ Receive \/ PeerStops \/ Lost

\* Reads of the file, the worker, timers and, where BufferStuck does not end
\* it, the wait for the buffer come through, frames are delivered and the
\* page renders what changed.  Nothing is asked of the user.
Fairness ==
    /\ WF_vars(Loop) /\ WF_vars(Stall)
    /\ WF_vars(OnEnvelope) /\ WF_vars(PeerLeft) /\ WF_vars(Receive)
    /\ WF_vars(shown # state /\ Render) /\ WF_vars(Effect)

Spec == Init /\ [][Next]_vars /\ Fairness

-----------------------------------------------------------------------------
(* Properties. *)

\* The furthest byte that was put on the wire.
Wired == IF \E i \in DOMAIN toPeer : toPeer[i].kind = "chunk"
         THEN toPeer[CHOOSE i \in DOMAIN toPeer :
                        /\ toPeer[i].kind = "chunk"
                        /\ \A j \in DOMAIN toPeer : toPeer[j].kind = "chunk" => j <= i].n
         ELSE peer.received

\* No more than the window is ever between what was sent and what the peer
\* has acknowledged, whatever renders and effects do to the ref.
WindowRespected == (window > 0 /\ online) => Wired - peer.lastAcked < window

\* A sender with no room has an ack to wait for, as long as its peer reads:
\* no ack that was handled is forgotten by an effect that copies an older
\* transfer into the ref, and what the window holds is enough for the next
\* ack.
NeverStarved ==
    (pc = "window" /\ ref.status = "streaming" /\ window > 0 /\ NoRoom /\ Quiet) =>
        peer.silent \/ peer.left \/ ~ online

\* A transfer is done only when its peer has or will get every byte of it
\* and transfer-end after the last, unless a connection was lost.
DoneIsComplete ==
    /\ (state.status = "done" /\ online) =>
          /\ Wired = total
          /\ peer.ended \/ \E i \in DOMAIN toPeer : toPeer[i].kind = "end"
    /\ peer.ended => peer.received = total

\* A transfer is aborted only when the peer or the connection gave up: the
\* sending loop never takes a status it reads in the ref for an abort that
\* did not happen.
AbortHasCause ==
    state.status = "aborted" => peer.silent \/ peer.left \/ ~ online

Phase ==
    CASE state.status = "none" -> IF pc = "idle" THEN "new" ELSE "gone"
      [] state.status = "awaiting-decision" -> "asked"
      [] OTHER -> state.status

Lifecycle == INSTANCE TransferLifecycle WITH phase <- Phase

\* What the user sees goes through the documented transitions only, and no
\* verdict is ever overwritten.  A stream ends, unless its loop is stuck at
\* the buffer of a closed socket, which nothing drains and no timer watches.
LifecycleSpec ==
    /\ Lifecycle!Safe
    /\ state.status = "streaming" ~> state.status # "streaming" \/ pc = "stuck"
=============================================================================
