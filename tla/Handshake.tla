------------------------------ MODULE Handshake ------------------------------
(***************************************************************************)
(* One connection between the portal and the relay: handshake() of         *)
(* internal/relay/relay.go at one end, connectToRelay of relay/client.ts   *)
(* and the mount effect of App.tsx that calls it at the other.             *)
(*                                                                         *)
(* The browser runs one event to completion before the next, so an event   *)
(* listener and what its promise wakes inside the client are one step.     *)
(* The effect's own continuation is a step of its own: the contract of     *)
(* onMessage does not depend on how soon the caller gets to it.  On the    *)
(* relay the read and the handshake timer are two goroutines.              *)
(***************************************************************************)
EXTENDS Naturals, Sequences

CONSTANT MaxFrames      \* bound: text frames the relay sends after the welcome

ASSUME MaxFramesAssumption == MaxFrames \in Nat

VARIABLES
    hs,         \* where the relay's handler is
    claim,      \* the atomic 'closed': who decides the fate of the handshake
    timer,      \* the AfterFunc of the handshake timeout
    verifies,   \* the identify message passes the relay's checks
    toPage,     \* what the socket still has to hand to the page
    toRelay,    \* what the relay still has to read
    posted,     \* text frames the relay has sent after the welcome
    socket,     \* readyState
    pc,         \* where connectToRelay is
    cancelled,  \* the effect was cleaned up and its signal aborted
    buffer,     \* frames that arrived before the first subscriber
    heard,      \* frames onMessage was called with
    connRef,    \* the app uses the connection
    ui          \* State.kind

relayVars == <<hs, claim, timer, verifies, posted>>
pageVars  == <<socket, pc, cancelled, buffer, heard, connRef, ui>>
vars      == <<relayVars, pageVars, toPage, toRelay>>

Init ==
    /\ hs = "accepting" /\ claim = "nobody" /\ timer = "off"
    /\ verifies \in BOOLEAN
    /\ toPage = <<>> /\ toRelay = <<>> /\ posted = <<>>
    /\ socket = "connecting" /\ pc = "opening" /\ cancelled = FALSE
    /\ buffer = <<>> /\ heard = <<>> /\ connRef = FALSE /\ ui = "connecting"

-----------------------------------------------------------------------------
\* What the socket hands to the page: a frame of the handshake or the close
\* frame, and the text frames after the welcome, numbered.
Msg(k) == [kind |-> k, n |-> 0]
Text(i) == [kind |-> "text", n |-> i]

-----------------------------------------------------------------------------
(* The relay. *)

SendChallenge ==
    /\ hs = "challenge"
    /\ hs' = "reading"
    /\ timer' = "armed"
    /\ toPage' = Append(toPage, Msg("challenge"))
    /\ UNCHANGED <<claim, verifies, posted, pageVars, toRelay>>

\* The timeout elapsed and the AfterFunc got a goroutine.
TimerFires ==
    /\ timer = "armed"
    /\ timer' = "running"
    /\ UNCHANGED <<hs, claim, verifies, posted, pageVars, toPage, toRelay>>

\* Faulty variant of TimerClaims: the goroutine closes whatever was claimed.
TimerCloses ==
    /\ timer = "running"
    /\ timer' = "closed"
    /\ toPage' = Append(toPage, Msg("close"))
    /\ UNCHANGED <<hs, claim, verifies, posted, pageVars, toRelay>>

\* Its CompareAndSwap, and the Close it earns.
TimerClaims ==
    /\ timer = "running"
    /\ IF claim = "nobody"
       THEN /\ claim' = "timer"
            /\ timer' = "closed"
            /\ toPage' = Append(toPage, Msg("close"))
       ELSE timer' = "off" /\ UNCHANGED <<claim, toPage>>
    /\ UNCHANGED <<hs, verifies, posted, pageVars, toRelay>>

\* conn.Read returns the identify message.
ReadIdentify ==
    /\ hs = "reading"
    /\ toRelay # <<>>
    /\ toRelay' = Tail(toRelay)
    /\ hs' = "read"
    /\ UNCHANGED <<claim, timer, verifies, posted, pageVars, toPage>>

\* The reader's CompareAndSwap and timer.Stop.
Claim ==
    /\ hs = "read"
    /\ IF claim = "nobody" THEN claim' = "reader" /\ hs' = "verify"
                           ELSE hs' = "failed" /\ UNCHANGED claim
    /\ timer' = IF timer = "armed" THEN "off" ELSE timer
    /\ UNCHANGED <<verifies, posted, pageVars, toPage, toRelay>>

Welcome ==
    /\ hs = "verify"
    /\ verifies
    /\ hs' = "served"
    /\ toPage' = Append(toPage, Msg("welcome"))
    /\ UNCHANGED <<claim, timer, verifies, posted, pageVars, toRelay>>

\* sendError, and the close of a failed handshake.
Refuse ==
    /\ hs = "verify"
    /\ ~ verifies
    /\ hs' = "failed"
    /\ toPage' = toPage \o <<Msg("error"), Msg("close")>>
    /\ UNCHANGED <<claim, timer, verifies, posted, pageVars, toRelay>>

\* peer-list and whatever else the relay has to say.
Post ==
    /\ hs = "served"
    /\ Len(posted) < MaxFrames
    /\ posted' = Append(posted, Len(posted) + 1)
    /\ toPage' = Append(toPage, Text(Len(posted) + 1))
    /\ UNCHANGED <<hs, claim, timer, verifies, pageVars, toRelay>>

\* The connection is displaced, or the relay shuts down.
RelayCloses ==
    /\ hs = "served"
    /\ hs' = "failed"
    /\ toPage' = Append(toPage, Msg("close"))
    /\ UNCHANGED <<claim, timer, verifies, posted, pageVars, toRelay>>

-----------------------------------------------------------------------------
(* The page. *)

\* readyState after close().
Closing == IF socket = "closed" THEN "closed" ELSE "closing"

\* connectToRelay throws: the socket is closed, the effect shows the error.
Reject ==
    /\ pc' = "rejected"
    /\ socket' = Closing
    /\ ui' = "error"

Pending == pc \in {"opening", "challenge", "welcome"}

OpenEvent ==
    /\ socket = "connecting"
    /\ socket' = "open"
    /\ pc' = "challenge"
    /\ hs' = "challenge"
    /\ UNCHANGED <<claim, timer, verifies, posted, cancelled, buffer, heard, connRef, ui,
                   toPage, toRelay>>

OpenFails ==
    /\ socket = "connecting"
    /\ socket' = "closed"
    /\ pc' = "rejected"
    /\ ui' = "error"
    /\ UNCHANGED <<relayVars, cancelled, buffer, heard, connRef, toPage, toRelay>>

\* What the handshake waits for; peekChallenge and peekWelcomeOrError throw
\* on anything else.
Awaited == IF pc = "challenge" THEN "challenge" ELSE "welcome"

\* Faulty variant of HeardFrame: frames before the first subscriber are lost.
HeardFrameOnly(n) ==
    IF pc = "resolved" THEN UNCHANGED <<buffer, heard>>
    ELSE heard' = Append(heard, n) /\ UNCHANGED buffer

\* A text frame after the welcome: buffered, or handed to the subscriber.
HeardFrame(n) ==
    IF pc = "resolved" THEN buffer' = Append(buffer, n) /\ UNCHANGED heard
    ELSE heard' = Append(heard, n) /\ UNCHANGED buffer

MessageEvent ==
    LET f == Head(toPage)
    IN  /\ socket = "open"
        /\ toPage # <<>> /\ f.kind # "close"
        /\ toPage' = Tail(toPage)
        /\ \/ /\ Pending /\ f.kind = Awaited
              /\ pc' = IF pc = "challenge" THEN "welcome" ELSE "resolved"
              /\ toRelay' = IF pc = "challenge" THEN Append(toRelay, "identify") ELSE toRelay
              /\ UNCHANGED <<socket, buffer, heard, ui>>
           \/ /\ Pending /\ f.kind # Awaited
              /\ Reject
              /\ UNCHANGED <<toRelay, buffer, heard>>
           \/ /\ ~ Pending
              /\ HeardFrame(f.n)
              /\ UNCHANGED <<pc, toRelay, socket, ui>>
        /\ UNCHANGED <<relayVars, cancelled, connRef>>

\* The close event of a socket the relay closed, or that broke.
CloseEvent ==
    /\ socket = "open"
    /\ toPage # <<>> /\ Head(toPage).kind = "close"
    /\ toPage' = <<>>
    /\ IF Pending
       THEN /\ pc' = "rejected" /\ socket' = "closed" /\ ui' = "error"
       ELSE /\ socket' = "closed"
            /\ ui' = IF pc = "returned" THEN "closed" ELSE ui
            /\ UNCHANGED pc
    /\ UNCHANGED <<relayVars, cancelled, buffer, heard, connRef, toRelay>>

\* A close() of the page comes through; nothing is handed over meanwhile.
CloseCompletes ==
    /\ socket = "closing"
    /\ socket' = "closed"
    /\ toPage' = <<>>
    /\ UNCHANGED <<relayVars, pc, cancelled, buffer, heard, connRef, ui, toRelay>>

\* Faulty variant of HandshakeTimeout: nothing times the welcome.
ChallengeTimeout ==
    /\ pc = "challenge"
    /\ Reject
    /\ UNCHANGED <<relayVars, cancelled, buffer, heard, connRef, toPage, toRelay>>

\* readNextFrame and readWelcomeWithBuffer arm a timer each.
HandshakeTimeout ==
    /\ pc \in {"challenge", "welcome"}
    /\ Reject
    /\ UNCHANGED <<relayVars, cancelled, buffer, heard, connRef, toPage, toRelay>>

\* The effect's cleanup.  Its variable conn is set by the continuation.
Cancel ==
    /\ ~ cancelled
    /\ cancelled' = TRUE
    /\ connRef' = FALSE
    /\ pc' = IF Pending THEN "rejected" ELSE pc
    /\ socket' = IF pc = "resolved" THEN socket ELSE Closing
    /\ UNCHANGED <<relayVars, ui, buffer, heard, toPage, toRelay>>

\* Faulty variants of Continue: the effect goes on after its cleanup; the
\* state of the socket is not looked at again.
ContinueAnyway ==
    /\ pc = "resolved"
    /\ pc' = "returned"
    /\ connRef' = TRUE
    /\ heard' = buffer /\ buffer' = <<>>
    /\ ui' = IF socket = "open" THEN "connected" ELSE "closed"
    /\ UNCHANGED <<relayVars, socket, cancelled, toPage, toRelay>>

ContinueBlind ==
    /\ pc = "resolved"
    /\ pc' = "returned"
    /\ IF cancelled
       THEN socket' = Closing /\ UNCHANGED <<connRef, heard, buffer, ui>>
       ELSE /\ connRef' = TRUE
            /\ heard' = buffer /\ buffer' = <<>>
            /\ ui' = "connected"
            /\ UNCHANGED socket
    /\ UNCHANGED <<relayVars, cancelled, toPage, toRelay>>

\* The effect goes on: it drops the connection if it was cleaned up, and
\* else subscribes, which flushes the buffer, and looks at readyState.
Continue ==
    /\ pc = "resolved"
    /\ pc' = "returned"
    /\ IF cancelled
       THEN socket' = Closing /\ UNCHANGED <<connRef, heard, buffer, ui>>
       ELSE /\ connRef' = TRUE
            /\ heard' = buffer /\ buffer' = <<>>
            /\ ui' = IF socket = "open" THEN "connected" ELSE "closed"
            /\ UNCHANGED socket
    /\ UNCHANGED <<relayVars, cancelled, toPage, toRelay>>

\* The TCP connection breaks.
Lost ==
    /\ socket = "open"
    /\ toPage' = <<Msg("close")>>
    /\ toRelay' = <<>>
    /\ hs' = "failed"
    /\ timer' = "off"
    /\ UNCHANGED <<claim, verifies, posted, pageVars>>

-----------------------------------------------------------------------------
Relay == SendChallenge \/ ReadIdentify \/ Claim \/ Welcome \/ Refuse

PageEvents == MessageEvent \/ CloseEvent \/ CloseCompletes

Next ==
    \/ Relay \/ TimerFires \/ TimerClaims \/ Post \/ RelayCloses \/ Lost
    \/ OpenEvent \/ OpenFails \/ PageEvents \/ HandshakeTimeout
    \/ Cancel \/ Continue

\* The browser settles an opening socket and dispatches what arrived, an
\* awaiting function is resumed, and the handshake's timer fires.  The relay
\* may be as slow as it likes.
Fairness ==
    /\ WF_vars(OpenEvent \/ OpenFails) /\ WF_vars(PageEvents)
    /\ WF_vars(HandshakeTimeout) /\ WF_vars(Continue)

Spec == Init /\ [][Next]_vars /\ Fairness

-----------------------------------------------------------------------------
(* Properties. *)

\* Every variable keeps its shape; frames are kept back only between the
\* welcome and the subscription, unless the effect was cleaned up.
TypeOK ==
    /\ hs \in {"accepting", "challenge", "reading", "read", "verify", "served", "failed"}
    /\ claim \in {"nobody", "timer", "reader"}
    /\ timer \in {"off", "armed", "running", "closed"}
    /\ verifies \in BOOLEAN /\ cancelled \in BOOLEAN /\ connRef \in BOOLEAN
    /\ posted \in Seq(Nat) /\ buffer \in Seq(Nat) /\ heard \in Seq(Nat)
    /\ socket \in {"connecting", "open", "closing", "closed"}
    /\ pc \in {"opening", "challenge", "welcome", "resolved", "rejected", "returned"}
    /\ ui \in {"connecting", "connected", "closed", "error"}
    /\ toRelay \in Seq({"identify"}) /\ Len(toRelay) <= 1
    /\ buffer # <<>> => pc = "resolved" \/ cancelled

\* The timer of the handshake never closes a connection whose identify
\* message was taken, however late its goroutine gets to run: the relay
\* does not register a peer whose socket it is about to cut.
TimerSparesTheServed == timer = "closed" => hs \notin {"verify", "served"}

\* A handshake that failed, and one whose effect was cleaned up, leave no
\* socket open behind, or the relay would list a peer nobody is behind; and
\* the app is left with no connection whenever the handshake of such an
\* effect comes back (React mounts effects twice in development).
NoOrphanSocket ==
    /\ pc = "rejected" \/ (cancelled /\ pc = "returned") => socket \in {"closing", "closed"}
    /\ cancelled => ~ connRef

\* The page never goes on showing a connection that is gone, also when the
\* socket closed before the close listener was attached.
ClosedIsShown == (pc = "returned" /\ ~ cancelled /\ socket = "closed") => ui = "closed"

\* connectToRelay settles, whatever relay and network do, and the socket of
\* an effect that was cleaned up is closed in the end.
Settles ==
    /\ <>(pc \in {"returned", "rejected"})
    /\ cancelled ~> socket = "closed"

\* The connection is a FrameStream: no frame between the welcome and the
\* subscription is lost, doubled or overtaken.
Stream == INSTANCE FrameStream WITH
    Frames <- 1..MaxFrames,
    over   <- cancelled \/ pc = "rejected" \/
              (pc = "returned" /\ socket \in {"closing", "closed"})

StreamSpec == Stream!Spec
=============================================================================
