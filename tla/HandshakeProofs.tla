--------------------------- MODULE HandshakeProofs ---------------------------
(***************************************************************************)
(* What holds of Handshake for every number of frames: type correctness,   *)
(* the relay's timer against its reader, the sockets that are left behind, *)
(* and that nothing is lost between the welcome and the subscription.      *)
(***************************************************************************)
EXTENDS Handshake, SequenceTheorems, TLAPS

Kinds == {"challenge", "welcome", "error", "close", "text"}

Messages == [kind : Kinds, n : Nat]

\* The three variables that are true or false.
Booleans ==
    verifies \in BOOLEAN /\ cancelled \in BOOLEAN /\ connRef \in BOOLEAN

LEMMA InitBooleans == Init => Booleans
  BY DEF Init, Booleans

LEMMA NextBooleans == ASSUME Booleans, [Next]_vars PROVE Booleans'
<1> USE DEF Booleans
<1>1. CASE Relay
  BY <1>1 DEF Relay, SendChallenge, ReadIdentify, Claim, Welcome, Refuse, pageVars
<1>2. CASE TimerFires \/ TimerClaims \/ Post \/ RelayCloses \/ Lost
  BY <1>2 DEF TimerFires, TimerClaims, Post, RelayCloses, Lost, pageVars
<1>3. CASE OpenEvent \/ OpenFails
  BY <1>3 DEF OpenEvent, OpenFails, relayVars
<1>4. CASE PageEvents
  BY <1>4 DEF PageEvents, MessageEvent, CloseEvent, CloseCompletes, relayVars
<1>5. CASE HandshakeTimeout \/ Cancel \/ Continue
  BY <1>5 DEF HandshakeTimeout, Cancel, Continue, relayVars
<1>6. CASE UNCHANGED vars
  BY <1>6 DEF vars, relayVars, pageVars
<1> QED
  BY <1>1, <1>2, <1>3, <1>4, <1>5, <1>6 DEF Next

\* The rest of TypeOK, and what its bound on toRelay rests on: the identify
\* message answers the one challenge that is awaited.
Shape ==
    /\ hs \in {"accepting", "challenge", "reading", "read", "verify", "served", "failed"}
    /\ claim \in {"nobody", "timer", "reader"}
    /\ timer \in {"off", "armed", "running", "closed"}
    /\ posted \in Seq(Nat) /\ buffer \in Seq(Nat) /\ heard \in Seq(Nat)
    /\ toPage \in Seq(Messages)
    /\ socket \in {"connecting", "open", "closing", "closed"}
    /\ pc \in {"opening", "challenge", "welcome", "resolved", "rejected", "returned"}
    /\ ui \in {"connecting", "connected", "closed", "error"}
    /\ toRelay \in Seq({"identify"}) /\ Len(toRelay) <= 1
    /\ buffer # <<>> => pc = "resolved" \/ cancelled
    /\ socket = "connecting" => pc = "opening"
    /\ pc \in {"opening", "challenge"} => toRelay = <<>>

LEMMA InitShape == Init => Shape
  BY DEF Init, Shape

LEMMA NextShape == ASSUME Shape, [Next]_vars PROVE Shape'
<1> USE DEF Shape, relayVars, pageVars
<1>m. /\ \A k \in Kinds : Msg(k) \in Messages
      /\ \A i \in Nat : Text(i) \in Messages
  BY DEF Msg, Text, Kinds, Messages
<1>k. \A k \in {"challenge", "welcome", "error", "close"} : Msg(k) \in Messages
  BY <1>m DEF Kinds
<1>a. \A m \in Messages : Append(toPage, m) \in Seq(Messages)
  BY DEF Shape
<1>b. \A m1, m2 \in Messages : <<m1, m2>> \in Seq(Messages) /\ toPage \o <<m1, m2>> \in Seq(Messages)
  BY DEF Shape
<1>c. \A m \in Messages : <<m>> \in Seq(Messages)
  OBVIOUS
<1>t. toPage # <<>> => Tail(toPage) \in Seq(Messages) /\ Head(toPage) \in Messages
  BY HeadTailProperties DEF Shape
<1>e. <<>> \in Seq(Messages) /\ <<>> \in Seq(Nat) /\ <<>> \in Seq({"identify"}) /\ Len(<<>>) = 0
  OBVIOUS
<1>1. CASE SendChallenge
  BY <1>1, <1>k, <1>a DEF SendChallenge
<1>2. CASE ReadIdentify
  BY <1>2 DEF ReadIdentify
<1>3. CASE Claim
  BY <1>3 DEF Claim
<1>4. CASE Welcome
  BY <1>4, <1>k, <1>a DEF Welcome
<1>5. CASE Refuse
  BY <1>5, <1>k, <1>b DEF Refuse
<1>6. CASE TimerFires \/ TimerClaims \/ RelayCloses
  <2>1. CASE TimerFires
    BY <2>1 DEF TimerFires
  <2>2. CASE TimerClaims
    BY <2>2, <1>k, <1>a, ZenonT(30) DEF TimerClaims
  <2>3. CASE RelayCloses
    BY <2>3, <1>k, <1>a DEF RelayCloses
  <2> QED
    BY <1>6, <2>1, <2>2, <2>3
<1>7. CASE Lost
  BY <1>7, <1>k, <1>c, <1>e DEF Lost
<1>8. CASE Post
  BY <1>8, <1>m, <1>a DEF Post
<1>9. CASE OpenEvent \/ OpenFails
  BY <1>9 DEF OpenEvent, OpenFails
<1>10. CASE MessageEvent
  <2>1. Tail(toPage) \in Seq(Messages) /\ Head(toPage).n \in Nat
    BY <1>10, <1>t DEF MessageEvent, Messages
  <2>2. Append(buffer, Head(toPage).n) \in Seq(Nat) /\ Append(heard, Head(toPage).n) \in Seq(Nat)
    BY <2>1
  <2>3. Append(<<>>, "identify") \in Seq({"identify"}) /\ Len(Append(<<>>, "identify")) = 1
    OBVIOUS
  <2>4. CASE Pending /\ Head(toPage).kind = Awaited
    <3>1. /\ pc' = IF pc = "challenge" THEN "welcome" ELSE "resolved"
          /\ toRelay' = IF pc = "challenge" THEN Append(toRelay, "identify") ELSE toRelay
          /\ UNCHANGED <<hs, claim, timer, posted, socket, buffer, heard, ui, cancelled>>
          /\ toPage' = Tail(toPage)
          /\ socket = "open"
      BY <1>10, <2>4 DEF MessageEvent, Pending
    <3> QED
      BY <3>1, <2>1, <2>3, <2>4 DEF Pending
  <2>5. CASE Pending /\ Head(toPage).kind # Awaited
    <3>1. /\ pc' = "rejected" /\ socket' \in {"closing", "closed"} /\ ui' = "error"
          /\ UNCHANGED <<hs, claim, timer, posted, buffer, heard, toRelay, cancelled>>
          /\ toPage' = Tail(toPage)
      BY <1>10, <2>5 DEF MessageEvent, Reject, Closing, Pending
    <3> QED
      BY <3>1, <2>1, <2>5 DEF Pending
  <2>6. CASE ~ Pending
    BY <1>10, <2>6, <2>1, <2>2, ZenonT(30) DEF MessageEvent, HeardFrame, Pending
  <2> QED
    BY <2>4, <2>5, <2>6
<1>11. CASE CloseEvent \/ CloseCompletes
  BY <1>11, <1>e DEF CloseEvent, CloseCompletes, Pending
<1>12. CASE HandshakeTimeout \/ Cancel
  <2>1. CASE HandshakeTimeout
    BY <2>1 DEF HandshakeTimeout, Reject, Closing, Pending
  <2>2. CASE Cancel
    BY <2>2 DEF Cancel, Closing, Pending
  <2> QED
    BY <1>12, <2>1, <2>2
<1>13. CASE Continue
  BY <1>13, <1>e, ZenonT(30) DEF Continue, Closing
<1>14. CASE UNCHANGED vars
  BY <1>14 DEF vars
<1> QED
  BY <1>1, <1>2, <1>3, <1>4, <1>5, <1>6, <1>7, <1>8, <1>9, <1>10, <1>11, <1>12, <1>13,
     <1>14 DEF Next, Relay, PageEvents

LEMMA Shaped == Spec => []Shape
  BY InitShape, NextShape, PTL DEF Spec

LEMMA TrueOrFalse == Spec => []Booleans
  BY InitBooleans, NextBooleans, PTL DEF Spec

\* Every variable of the handshake keeps its shape, and the page keeps
\* frames back only while it waits for its subscriber.
THEOREM TypeCorrect == Spec => []TypeOK
<1>1. Shape /\ Booleans => TypeOK
  BY DEF Shape, Booleans, TypeOK
<1> QED
  BY <1>1, Shaped, TrueOrFalse, PTL
-----------------------------------------------------------------------------
(* The relay's timer. *)

\* Whoever decides the fate of the handshake has claimed it first.
ClaimDecides ==
    /\ timer = "closed" => claim = "timer"
    /\ hs \in {"verify", "served"} => claim = "reader"

LEMMA InitClaim == Init => ClaimDecides
  BY DEF Init, ClaimDecides

LEMMA NextClaim == ASSUME ClaimDecides, [Next]_vars PROVE ClaimDecides'
<1> USE DEF ClaimDecides, relayVars
<1>1. CASE Relay
  BY <1>1 DEF Relay, SendChallenge, ReadIdentify, Claim, Welcome, Refuse
<1>2. CASE TimerFires \/ TimerClaims \/ RelayCloses \/ Lost \/ Post
  BY <1>2 DEF TimerFires, TimerClaims, RelayCloses, Lost, Post
<1>3. CASE OpenEvent \/ OpenFails \/ PageEvents \/ HandshakeTimeout \/ Cancel \/ Continue
  BY <1>3 DEF OpenEvent, OpenFails, PageEvents, MessageEvent, CloseEvent, CloseCompletes,
              HandshakeTimeout, Cancel, Continue
<1>4. CASE UNCHANGED vars
  BY <1>4 DEF vars
<1> QED
  BY <1>1, <1>2, <1>3, <1>4 DEF Next

\* The timer never cuts a connection whose identify message was taken: the
\* CompareAndSwap of the relay's handshake, against its AfterFunc.
THEOREM TimerSpares == Spec => []TimerSparesTheServed
<1>1. ClaimDecides => TimerSparesTheServed
  BY DEF ClaimDecides, TimerSparesTheServed
<1> QED
  BY <1>1, InitClaim, NextClaim, PTL DEF Spec
-----------------------------------------------------------------------------
(* The socket and the page. *)

\* A socket is closing because the handshake failed or its effect is over.
SocketInv ==
    /\ NoOrphanSocket
    /\ ClosedIsShown
    /\ socket = "closing" => pc = "rejected" \/ cancelled

LEMMA InitSocket == Init => SocketInv
  BY DEF Init, SocketInv, NoOrphanSocket, ClosedIsShown

LEMMA NextSocket == ASSUME Shape, SocketInv, [Next]_vars PROVE SocketInv'
<1> USE DEF SocketInv, NoOrphanSocket, ClosedIsShown
<1>1. CASE Relay \/ TimerFires \/ TimerClaims \/ RelayCloses \/ Lost \/ Post
  BY <1>1 DEF Relay, SendChallenge, ReadIdentify, Claim, Welcome, Refuse, TimerFires,
              TimerClaims, RelayCloses, Lost, Post, pageVars
<1>2. CASE OpenEvent \/ OpenFails
  BY <1>2 DEF OpenEvent, OpenFails
<1>3. CASE MessageEvent
  BY <1>3 DEF MessageEvent, Reject, Closing, Pending
<1>4. CASE CloseEvent \/ CloseCompletes
  BY <1>4 DEF CloseEvent, CloseCompletes, Pending
<1>5. CASE HandshakeTimeout \/ Cancel
  BY <1>5 DEF HandshakeTimeout, Cancel, Reject, Closing, Pending
<1>6. CASE Continue
  BY <1>6 DEF Continue, Closing, Shape
<1>7. CASE UNCHANGED vars
  BY <1>7 DEF vars, pageVars
<1> QED
  BY <1>1, <1>2, <1>3, <1>4, <1>5, <1>6, <1>7 DEF Next, PageEvents

LEMMA Sockets == Spec => []SocketInv
  BY InitSocket, NextSocket, Shaped, PTL DEF Spec

\* A handshake that failed or came back too late closes its socket and
\* gives the app no connection: connectToRelay and the effect of App.tsx.
THEOREM NoSocketLeft == Spec => []NoOrphanSocket
  BY Sockets, PTL DEF SocketInv

\* The page shows that its connection is gone, also when it went before the
\* close listener was attached: the check of readyState in App.tsx.
THEOREM LossIsShown == Spec => []ClosedIsShown
  BY Sockets, PTL DEF SocketInv
-----------------------------------------------------------------------------
(* The frames between the welcome and the subscription. *)

\* How many frames the page has taken: those it holds back, or handed on.
Taken == IF pc = "resolved" THEN Len(buffer) ELSE Len(heard)

\* Frames are taken from the first one on, and none that was not sent.
Numbered ==
    /\ \A i \in 1..Len(posted) : posted[i] = i
    /\ \A i \in 1..Len(buffer) : buffer[i] = i
    /\ \A i \in 1..Len(heard) : heard[i] = i
    /\ Len(posted) <= MaxFrames
    /\ Len(buffer) <= Len(posted) /\ Len(heard) <= Len(posted)
    /\ Pending => buffer = <<>>
    /\ Pending \/ pc = "resolved" => heard = <<>>
    /\ \A i \in 1..Len(toPage) : toPage[i].n <= Len(posted)

\* Nothing is sent, and nobody subscribes, before the welcome; and nothing
\* is sent after the close.
Begun ==
    /\ socket = "connecting" => hs = "accepting"
    /\ hs \in {"accepting", "challenge", "reading", "read", "verify"} =>
          /\ posted = <<>>
          /\ pc \notin {"resolved", "returned"}
          /\ \A i \in 1..Len(toPage) : toPage[i].kind # "welcome"
    /\ hs \in {"accepting", "challenge"} => timer = "off"
    /\ hs # "failed" /\ timer # "closed" =>
          \A i \in 1..Len(toPage) : toPage[i].kind # "close"

\* While the welcome is on its way, the frames follow it in order.
InOrder ==
    /\ \A i, j \in 1..Len(toPage) :
          toPage[i].kind = "welcome" /\ i < j =>
              toPage[j].kind = "close" \/ toPage[j] = Text(j - i)
    /\ \A i \in 1..Len(toPage) :
          hs = "served" /\ toPage[i].kind = "welcome" => Len(posted) = Len(toPage) - i

\* Once it was taken, the frames on their way are the next ones.
Ahead ==
    pc \in {"resolved", "returned"} /\ socket = "open" =>
        /\ \A i \in 1..Len(toPage) : toPage[i].kind = "close" \/ toPage[i] = Text(Taken + i)
        /\ hs = "served" => Len(posted) = Taken + Len(toPage)

StreamInv == Numbered /\ Begun /\ InOrder /\ Ahead

LEMMA AppendFacts ==
    ASSUME NEW q \in Seq(Messages), NEW m \in Messages
    PROVE  /\ Len(Append(q, m)) = Len(q) + 1
           /\ Append(q, m)[Len(q) + 1] = m
           /\ \A i \in 1..Len(q) : Append(q, m)[i] = q[i]
           /\ Len(q) \in Nat
           /\ Append(q, m) \in Seq(Messages)
  BY AppendProperties

LEMMA TailFacts ==
    ASSUME NEW q \in Seq(Messages), q # <<>>
    PROVE  /\ Len(Tail(q)) = Len(q) - 1
           /\ \A i \in 1..(Len(q) - 1) : Tail(q)[i] = q[i + 1]
           /\ Head(q) = q[1]
           /\ Len(q) \in Nat \ {0}
           /\ Head(q) \in Messages
  BY HeadTailProperties, EmptySeq

LEMMA InitStream == Init => StreamInv
  BY MaxFramesAssumption DEF Init, StreamInv, Numbered, Begun, InOrder, Ahead, Pending

\* A close at the end of the queue spoils no order.
LEMMA CloseAppended ==
    ASSUME StreamInv, Len(toPage) \in Nat, hs' # "served",
           Len(toPage') = Len(toPage) + 1,
           toPage'[Len(toPage) + 1].kind = "close",
           \A i \in 1..Len(toPage) : toPage'[i] = toPage[i],
           UNCHANGED <<socket, pc, buffer, heard>>
    PROVE  InOrder' /\ Ahead'
<1>1. ASSUME NEW i \in 1..Len(toPage)', NEW j \in 1..Len(toPage)',
             toPage'[i].kind = "welcome", i < j
      PROVE  toPage'[j].kind = "close" \/ toPage'[j] = Text(j - i)
  <2>1. CASE j = Len(toPage) + 1
    BY <2>1
  <2>2. CASE j # Len(toPage) + 1
    <3>1. i \in 1..Len(toPage) /\ j \in 1..Len(toPage)
      BY <2>2, <1>1
    <3>2. toPage'[i] = toPage[i] /\ toPage'[j] = toPage[j]
      BY <3>1
    <3> QED
      BY <1>1, <3>1, <3>2 DEF StreamInv, InOrder
  <2> QED
    BY <2>1, <2>2
<1>2. ASSUME pc \in {"resolved", "returned"}, socket = "open", NEW i \in 1..Len(toPage)'
      PROVE  toPage'[i].kind = "close" \/ toPage'[i] = Text(Taken + i)
  <2>1. CASE i = Len(toPage) + 1
    BY <2>1
  <2>2. CASE i # Len(toPage) + 1
    <3>1. i \in 1..Len(toPage)
      BY <2>2
    <3>2. toPage'[i] = toPage[i]
      BY <3>1
    <3> QED
      BY <1>2, <3>1, <3>2 DEF StreamInv, Ahead
  <2> QED
    BY <2>1, <2>2
<1>3. Taken' = Taken
  BY DEF Taken
<1> QED
  BY <1>1, <1>2, <1>3 DEF InOrder, Ahead

\* A frame the relay sends after the welcome is the next one.
LEMMA TextAppended ==
    ASSUME StreamInv, hs = "served", hs' = "served",
           {Len(toPage), Len(posted), Len(buffer), Len(heard)} \subseteq Nat,
           Len(posted') = Len(posted) + 1,
           Len(toPage') = Len(toPage) + 1,
           toPage'[Len(toPage) + 1] = Text(Len(posted) + 1),
           toPage'[Len(toPage) + 1].kind = "text",
           \A i \in 1..Len(toPage) : toPage'[i] = toPage[i],
           UNCHANGED <<socket, pc, buffer, heard>>
    PROVE  InOrder' /\ Ahead'
<1>1. ASSUME NEW i \in 1..Len(toPage)', toPage'[i].kind = "welcome"
      PROVE  /\ i \in 1..Len(toPage)
             /\ toPage[i].kind = "welcome"
             /\ Len(posted) = Len(toPage) - i
  <2>1. i \in 1..Len(toPage) /\ toPage[i].kind = "welcome"
    BY <1>1
  <2> QED
    BY <2>1 DEF StreamInv, InOrder
<1>2. ASSUME NEW i \in 1..Len(toPage)', NEW j \in 1..Len(toPage)',
             toPage'[i].kind = "welcome", i < j
      PROVE  toPage'[j].kind = "close" \/ toPage'[j] = Text(j - i)
  <2>1. CASE j = Len(toPage) + 1
    <3>1. i \in 1..Len(toPage) /\ Len(posted) = Len(toPage) - i
      BY <1>1, <1>2
    <3>2. j - i = Len(posted) + 1
      BY <3>1, <2>1
    <3> QED
      BY <2>1, <3>2
  <2>2. CASE j # Len(toPage) + 1
    <3>1. j \in 1..Len(toPage) /\ toPage'[j] = toPage[j]
      BY <2>2, <1>2
    <3> QED
      BY <1>1, <1>2, <3>1 DEF StreamInv, InOrder
  <2> QED
    BY <2>1, <2>2
<1>3. Taken' = Taken
  BY DEF Taken
<1>4. ASSUME pc \in {"resolved", "returned"}, socket = "open"
      PROVE  Len(posted) = Taken + Len(toPage) /\ Taken \in Int
  BY <1>4 DEF StreamInv, Ahead, Taken
<1>5. ASSUME pc \in {"resolved", "returned"}, socket = "open", NEW i \in 1..Len(toPage)'
      PROVE  toPage'[i].kind = "close" \/ toPage'[i] = Text(Taken + i)
  <2>1. CASE i = Len(toPage) + 1
    <3>1. Len(posted) = Taken + Len(toPage) /\ Taken \in Int
      BY <1>4, <1>5
    <3>2. Taken + i = Len(posted) + 1
      BY <2>1, <3>1
    <3> QED
      BY <2>1, <3>2
  <2>2. CASE i # Len(toPage) + 1
    <3>1. i \in 1..Len(toPage) /\ toPage'[i] = toPage[i]
      BY <2>2, <1>5
    <3> QED
      BY <1>5, <3>1 DEF StreamInv, Ahead
  <2> QED
    BY <2>1, <2>2
<1>6. InOrder'
  <2>1. ASSUME NEW i \in 1..Len(toPage)', toPage'[i].kind = "welcome"
        PROVE  Len(posted)' = Len(toPage)' - i
    <3>1. i \in 1..Len(toPage) /\ Len(posted) = Len(toPage) - i
      BY <1>1, <2>1
    <3> QED
      BY <3>1
  <2> QED
    BY <1>2, <2>1 DEF InOrder
<1>7. Ahead'
  <2>1. ASSUME pc \in {"resolved", "returned"}, socket = "open"
        PROVE  Len(posted)' = Taken + Len(toPage)'
    <3>1. Len(posted) = Taken + Len(toPage) /\ Taken \in Int
      BY <1>4, <2>1
    <3> QED
      BY <3>1
  <2> QED
    BY <1>3, <1>5, <2>1 DEF Ahead
<1> QED
  BY <1>6, <1>7

\* Nor does reading the head of the queue.
LEMMA HeadGone ==
    ASSUME StreamInv, Len(toPage) \in Nat, Len(toPage') = Len(toPage) - 1,
           \A i \in 1..(Len(toPage) - 1) : toPage'[i] = toPage[i + 1],
           UNCHANGED <<hs, posted>>
    PROVE  InOrder'
<1>1. ASSUME NEW i \in 1..Len(toPage)', toPage'[i].kind = "welcome"
      PROVE  /\ i + 1 \in 1..Len(toPage) /\ toPage[i + 1].kind = "welcome"
             /\ hs = "served" => Len(posted) = Len(toPage) - (i + 1)
  <2>1. i + 1 \in 1..Len(toPage) /\ toPage[i + 1].kind = "welcome"
    BY <1>1
  <2> QED
    BY <2>1 DEF StreamInv, InOrder
<1>2. ASSUME NEW i \in 1..Len(toPage)', NEW j \in 1..Len(toPage)',
             toPage'[i].kind = "welcome", i < j
      PROVE  toPage'[j].kind = "close" \/ toPage'[j] = Text(j - i)
  <2>1. i + 1 \in 1..Len(toPage) /\ toPage[i + 1].kind = "welcome"
    BY <1>1, <1>2
  <2>2. j + 1 \in 1..Len(toPage) /\ i + 1 < j + 1 /\ (j + 1) - (i + 1) = j - i
    BY <1>2
  <2>3. toPage[j + 1].kind = "close" \/ toPage[j + 1] = Text((j + 1) - (i + 1))
    BY <2>1, <2>2 DEF StreamInv, InOrder
  <2> QED
    BY <2>2, <2>3
<1>3. ASSUME NEW i \in 1..Len(toPage)', toPage'[i].kind = "welcome", hs' = "served"
      PROVE  Len(posted)' = Len(toPage)' - i
  <2>1. Len(posted) = Len(toPage) - (i + 1)
    BY <1>1, <1>3
  <2> QED
    BY <2>1
<1> QED
  BY <1>2, <1>3 DEF InOrder

LEMMA NextStream ==
    ASSUME Shape, ClaimDecides, SocketInv, StreamInv, [Next]_vars
    PROVE  StreamInv'
<1> USE DEF StreamInv, relayVars, pageVars
<1>m. /\ \A k \in Kinds : Msg(k) \in Messages /\ Msg(k).kind = k /\ Msg(k).n = 0
      /\ \A i \in Nat : Text(i) \in Messages /\ Text(i).kind = "text" /\ Text(i).n = i
  BY DEF Msg, Text, Kinds, Messages
<1>k. {"challenge", "welcome", "error", "close"} \subseteq Kinds
  BY DEF Kinds
<1>a. \A m \in Messages : /\ Len(Append(toPage, m)) = Len(toPage) + 1
                          /\ Append(toPage, m)[Len(toPage) + 1] = m
                          /\ \A i \in 1..Len(toPage) : Append(toPage, m)[i] = toPage[i]
  BY AppendFacts DEF Shape
<1>l. Len(toPage) \in Nat /\ Len(posted) \in Nat /\ Len(buffer) \in Nat /\ Len(heard) \in Nat
  BY LenProperties DEF Shape
<1>1. CASE SendChallenge
  <2>1. Len(toPage') = Len(toPage) + 1
        /\ toPage'[Len(toPage) + 1].kind = "challenge" /\ toPage'[Len(toPage) + 1].n = 0
        /\ \A i \in 1..Len(toPage) : toPage'[i] = toPage[i]
    BY <1>1, <1>m, <1>k, <1>a DEF SendChallenge
  <2>2. hs = "challenge" /\ hs' = "reading" /\ timer' = "armed"
        /\ UNCHANGED <<posted, socket, pc, buffer, heard>>
    BY <1>1 DEF SendChallenge
  <2>3. Numbered'
    BY <2>1, <2>2, <1>l, SMTT(30) DEF Numbered, Pending
  <2>4. Begun'
    BY <2>1, <2>2, <1>l DEF Begun
  <2>5. InOrder' /\ Ahead'
    BY <2>1, <2>2, <1>l DEF Begun, InOrder, Ahead
  <2> QED
    BY <2>3, <2>4, <2>5
<1>2. CASE ReadIdentify \/ Claim \/ TimerFires
  BY <1>2 DEF ReadIdentify, Claim, TimerFires, Numbered, Pending, Begun, InOrder, Ahead, Taken
<1>3. CASE TimerClaims
  <2>1. CASE claim = "nobody"
    <3>1. Len(toPage') = Len(toPage) + 1
        /\ toPage'[Len(toPage) + 1].kind = "close" /\ toPage'[Len(toPage) + 1].n = 0
        /\ \A i \in 1..Len(toPage) : toPage'[i] = toPage[i]
      BY <1>3, <2>1, <1>m, <1>k, <1>a DEF TimerClaims
    <3>2. timer' = "closed" /\ hs \notin {"verify", "served"} /\ hs \notin {"accepting", "challenge"}
          /\ UNCHANGED <<hs, posted, socket, pc, buffer, heard>>
      BY <1>3, <2>1 DEF TimerClaims, ClaimDecides, Begun
    <3>3. Numbered'
      BY <3>1, <3>2, <1>l DEF Numbered, Pending
    <3>4. Begun'
      BY <3>1, <3>2, <1>l DEF Begun
    <3>5. InOrder' /\ Ahead'
      BY <3>1, <3>2, <1>l, CloseAppended
    <3> QED
      BY <3>3, <3>4, <3>5
  <2>2. CASE claim # "nobody"
    BY <1>3, <2>2 DEF TimerClaims, Numbered, Pending, Begun, InOrder, Ahead, Taken
  <2> QED
    BY <2>1, <2>2
<1>4. CASE Welcome
  <2>1. Len(toPage') = Len(toPage) + 1
        /\ toPage'[Len(toPage) + 1].kind = "welcome" /\ toPage'[Len(toPage) + 1].n = 0
        /\ \A i \in 1..Len(toPage) : toPage'[i] = toPage[i]
    BY <1>4, <1>m, <1>k, <1>a DEF Welcome
  <2>2. hs = "verify" /\ hs' = "served" /\ timer # "closed" /\ Len(posted) = 0
        /\ UNCHANGED <<timer, posted, socket, pc, buffer, heard>>
    BY <1>4 DEF Welcome, ClaimDecides, Begun
  <2>3. Numbered'
    BY <2>1, <2>2, <1>l DEF Numbered, Pending
  <2>4. Begun'
    BY <2>1, <2>2, <1>l DEF Begun
  <2>5. InOrder'
    BY <2>1, <2>2, <1>l DEF Begun, InOrder
  <2>6. Ahead'
    BY <2>1, <2>2 DEF Begun, Ahead
  <2> QED
    BY <2>3, <2>4, <2>5, <2>6
<1>5. CASE Refuse
  <2>0. toPage' = toPage \o <<Msg("error"), Msg("close")>>
    BY <1>5 DEF Refuse
  <2>1. /\ Len(toPage') = Len(toPage) + 2
        /\ \A i \in 1..Len(toPage) : toPage'[i] = toPage[i]
        /\ toPage'[Len(toPage) + 1] = Msg("error") /\ toPage'[Len(toPage) + 2] = Msg("close")
    BY <2>0, <1>m, <1>k, <1>l, ConcatProperties DEF Shape
  <2>2. /\ toPage'[Len(toPage) + 1].kind = "error" /\ toPage'[Len(toPage) + 1].n = 0
        /\ toPage'[Len(toPage) + 2].kind = "close" /\ toPage'[Len(toPage) + 2].n = 0
    BY <2>1 DEF Msg
  <2>3. hs = "verify" /\ hs' = "failed"
        /\ UNCHANGED <<timer, posted, socket, pc, buffer, heard>>
    BY <1>5 DEF Refuse
  <2>4. Numbered'
    <3>1. ASSUME NEW i \in 1..Len(toPage)' PROVE toPage'[i].n <= Len(posted)
      <4>1. CASE i \in 1..Len(toPage)
        <5>1. toPage'[i] = toPage[i]
          BY <4>1, <2>1
        <5>2. toPage[i].n <= Len(posted)
          BY <4>1 DEF Numbered
        <5> QED
          BY <5>1, <5>2
      <4>2. CASE i = Len(toPage) + 1 \/ i = Len(toPage) + 2
        BY <4>2, <2>2, <1>l
      <4> QED
        BY <4>1, <4>2, <2>1, <1>l
    <3> QED
      BY <3>1, <2>3 DEF Numbered, Pending
  <2>5. Begun' /\ InOrder' /\ Ahead'
    BY <2>1, <2>2, <2>3, <1>l DEF Begun, InOrder, Ahead
  <2> QED
    BY <2>4, <2>5
<1>6. CASE Post
  <2>1. /\ Len(toPage') = Len(toPage) + 1
        /\ toPage'[Len(toPage) + 1] = Text(Len(posted) + 1)
        /\ \A i \in 1..Len(toPage) : toPage'[i] = toPage[i]
    BY <1>6, <1>m, <1>l, <1>a DEF Post
  <2>2. /\ toPage'[Len(toPage) + 1].kind = "text"
        /\ toPage'[Len(toPage) + 1].n = Len(posted) + 1
    BY <2>1, <1>m, <1>l
  <2>3. /\ Len(posted') = Len(posted) + 1 /\ posted'[Len(posted) + 1] = Len(posted) + 1
        /\ \A i \in 1..Len(posted) : posted'[i] = posted[i]
    BY <1>6, <1>l, AppendProperties DEF Shape, Post
  <2>4. /\ hs = "served" /\ Len(posted) < MaxFrames
        /\ UNCHANGED <<hs, timer, socket, pc, buffer, heard>> /\ timer # "closed"
    BY <1>6 DEF Post, ClaimDecides
  <2>5. Numbered'
    <3>1. \A i \in 1..Len(toPage)' : toPage'[i].n <= Len(posted)'
      <4>1. ASSUME NEW i \in 1..Len(toPage)' PROVE toPage'[i].n <= Len(posted) + 1
        <5>1. CASE i = Len(toPage) + 1
          BY <5>1, <2>2, <1>l
        <5>2. CASE i # Len(toPage) + 1
          <6>1. i \in 1..Len(toPage) /\ toPage'[i] = toPage[i]
            BY <5>2, <2>1, <1>l
          <6>2. toPage[i].n <= Len(posted)
            BY <6>1 DEF Numbered
          <6>3. toPage[i] \in Messages
            BY <6>1, ElementOfSeq DEF Shape
          <6> QED
            BY <6>1, <6>2, <6>3, <1>l DEF Messages
        <5> QED
          BY <5>1, <5>2
      <4> QED
        BY <4>1, <2>3
    <3>2. \A i \in 1..Len(posted)' : posted'[i] = i
      BY <2>3, <1>l DEF Numbered
    <3> QED
      BY <3>1, <3>2, <2>3, <2>4, <1>l, MaxFramesAssumption DEF Numbered, Pending
  <2>6. Begun'
    BY <2>1, <2>2, <2>4, <1>l DEF Begun
  <2>7. InOrder' /\ Ahead'
    BY <2>1, <2>2, <2>3, <2>4, <1>l, TextAppended
  <2> QED
    BY <2>5, <2>6, <2>7
<1>7. CASE RelayCloses
  <2>1. Len(toPage') = Len(toPage) + 1
        /\ toPage'[Len(toPage) + 1].kind = "close" /\ toPage'[Len(toPage) + 1].n = 0
        /\ \A i \in 1..Len(toPage) : toPage'[i] = toPage[i]
    BY <1>7, <1>m, <1>k, <1>a DEF RelayCloses
  <2>2. hs = "served" /\ hs' = "failed"
        /\ UNCHANGED <<timer, posted, socket, pc, buffer, heard>>
    BY <1>7 DEF RelayCloses
  <2>3. Numbered'
    BY <2>1, <2>2, <1>l, SMTT(30) DEF Numbered, Pending
  <2>4. Begun'
    BY <2>1, <2>2, <1>l DEF Begun
  <2>5. InOrder' /\ Ahead'
    BY <2>1, <2>2, <1>l, CloseAppended
  <2> QED
    BY <2>3, <2>4, <2>5
<1>8. CASE Lost
  <2>1. toPage' = <<Msg("close")>> /\ Len(toPage') = 1 /\ toPage'[1] = Msg("close")
        /\ hs' = "failed" /\ socket = "open"
        /\ UNCHANGED <<posted, socket, pc, buffer, heard>>
    BY <1>8 DEF Lost
  <2>2. Numbered'
    BY <2>1, <1>m, <1>k, <1>l DEF Numbered, Pending
  <2>3. Begun' /\ InOrder' /\ Ahead'
    BY <2>1, <1>m, <1>k, <1>l DEF Begun, InOrder, Ahead, Taken
  <2> QED
    BY <2>2, <2>3
<1>9. CASE OpenEvent \/ OpenFails
  BY <1>9, <1>l DEF OpenEvent, OpenFails, Shape, Numbered, Pending, Begun, InOrder, Ahead, Taken
<1>10. CASE MessageEvent
  <2>1. /\ Len(toPage') = Len(toPage) - 1
        /\ \A i \in 1..(Len(toPage) - 1) : toPage'[i] = toPage[i + 1]
        /\ Head(toPage) = toPage[1] /\ Len(toPage) >= 1
    BY <1>10, <1>l, TailFacts DEF MessageEvent, Shape
  <2>2. socket = "open" /\ toPage[1].kind # "close"
        /\ UNCHANGED <<hs, timer, posted>>
    BY <1>10, <2>1 DEF MessageEvent, relayVars
  <2>3. InOrder'
    BY <2>1, <2>2, <1>l, HeadGone
  <2>4. \A i \in 1..Len(toPage)' : toPage'[i].n <= Len(posted)'
    <3>1. \A i \in 1..Len(toPage)' : i + 1 \in 1..Len(toPage) /\ toPage'[i] = toPage[i + 1]
      BY <2>1, <1>l
    <3> QED
      BY <3>1, <2>2 DEF Numbered
  <2>5. \A k \in {"welcome", "close"} :
            (\A i \in 1..Len(toPage) : toPage[i].kind # k) =>
                \A i \in 1..Len(toPage)' : toPage'[i].kind # k
    <3>1. \A i \in 1..Len(toPage)' : i + 1 \in 1..Len(toPage) /\ toPage'[i] = toPage[i + 1]
      BY <2>1, <1>l
    <3> QED
      BY <3>1
  <2>6. CASE Pending /\ toPage[1].kind = Awaited
    <3>1. /\ pc' = IF pc = "challenge" THEN "welcome" ELSE "resolved"
          /\ UNCHANGED <<buffer, heard, socket>>
      BY <1>10, <2>1, <2>6 DEF MessageEvent, Pending
    <3>2. Numbered'
      BY <2>2, <2>4, <2>6, <3>1, <1>l DEF Numbered, Pending
    <3>3. pc' = "resolved" => toPage[1].kind = "welcome" /\ Len(buffer) = 0
      BY <2>6, <3>1, <1>l DEF Awaited, Numbered, Pending
    <3>4. Begun'
      BY <2>2, <2>5, <3>1, <3>3, <2>1 DEF Begun
    <3>5. Ahead'
      <4>1. ASSUME pc' = "resolved", NEW i \in 1..Len(toPage)'
            PROVE  toPage'[i].kind = "close" \/ toPage'[i] = Text(0 + i)
        <5>1. i + 1 \in 1..Len(toPage) /\ 1 \in 1..Len(toPage) /\ i + 1 - 1 = 0 + i /\ 1 < i + 1
          BY <2>1, <1>l
        <5>2. toPage[i + 1].kind = "close" \/ toPage[i + 1] = Text(i + 1 - 1)
          BY <4>1, <5>1, <3>3 DEF InOrder
        <5> QED
          BY <5>1, <5>2, <2>1
      <4>2. pc' = "resolved" /\ hs = "served" => Len(posted) = Len(toPage) - 1
        BY <2>1, <3>3, <1>l DEF InOrder
      <4>3. pc' = "resolved" => Taken' = 0
        BY <3>1, <3>3 DEF Taken
      <4>4. pc' # "returned"
        BY <3>1
      <4> QED
        BY <4>1, <4>2, <4>3, <4>4, <2>1, <2>2, <1>l DEF Ahead
    <3> QED
      BY <2>3, <3>2, <3>4, <3>5
  <2>7. CASE Pending /\ toPage[1].kind # Awaited
    <3>1. pc' = "rejected" /\ socket' \in {"closing", "closed"} /\ UNCHANGED <<buffer, heard>>
          /\ pc \notin {"resolved", "returned"}
      BY <1>10, <2>1, <2>7 DEF MessageEvent, Pending, Reject, Closing
    <3>2. Numbered'
      BY <2>2, <2>4, <3>1, <1>l DEF Numbered, Pending
    <3>3. Begun'
      BY <2>2, <2>5, <3>1 DEF Begun
    <3>4. Ahead'
      BY <3>1 DEF Ahead
    <3> QED
      BY <2>3, <3>2, <3>3, <3>4
  <2>8. CASE ~ Pending
    <3>1. pc \in {"resolved", "returned"}
      BY <2>2, <2>8 DEF Shape, Pending, SocketInv, NoOrphanSocket
    <3>2. /\ toPage[1] = Text(Taken + 1) /\ toPage[1].n = Taken + 1
          /\ Taken \in Nat /\ Taken + 1 <= Len(posted)
      <4>1. 1 \in 1..Len(toPage) /\ Taken \in Nat
        BY <2>1, <1>l DEF Taken
      <4>2. toPage[1] = Text(Taken + 1)
        BY <4>1, <3>1, <2>2 DEF Ahead
      <4>3. toPage[1].n = Taken + 1
        BY <4>1, <4>2, <1>m
      <4> QED
        BY <4>1, <4>2, <4>3 DEF Numbered
    <3>3. /\ UNCHANGED <<pc, socket>>
          /\ IF pc = "resolved" THEN buffer' = Append(buffer, Taken + 1) /\ heard' = heard
                                ELSE heard' = Append(heard, Taken + 1) /\ buffer' = buffer
      BY <1>10, <2>1, <2>8, <3>2 DEF MessageEvent, Pending, HeardFrame
    <3>4. /\ Taken' = Taken + 1
          /\ \A i \in 1..Len(buffer)' : buffer'[i] = i
          /\ \A i \in 1..Len(heard)' : heard'[i] = i
          /\ Len(buffer)' <= Len(posted) /\ Len(heard)' <= Len(posted)
          /\ pc = "resolved" => heard' = <<>>
      <4>1. CASE pc = "resolved"
        <5>1. /\ Len(buffer') = Taken + 1 /\ buffer'[Taken + 1] = Taken + 1
              /\ \A i \in 1..Taken : buffer'[i] = buffer[i]
              /\ Taken = Len(buffer) /\ heard' = heard
          <6>1. buffer \in Seq(Nat) /\ Taken + 1 \in Nat /\ Taken = Len(buffer)
            BY <4>1, <3>2 DEF Taken, Shape
          <6>2. buffer' = Append(buffer, Taken + 1) /\ heard' = heard
            BY <4>1, <3>3
          <6> QED
            BY <6>1, <6>2, AppendProperties
        <5> QED
          BY <4>1, <5>1, <3>2, <3>3 DEF Numbered, Taken
      <4>2. CASE pc # "resolved"
        <5>1. /\ Len(heard') = Taken + 1 /\ heard'[Taken + 1] = Taken + 1
              /\ \A i \in 1..Taken : heard'[i] = heard[i]
              /\ Taken = Len(heard) /\ buffer' = buffer
          <6>1. heard \in Seq(Nat) /\ Taken + 1 \in Nat /\ Taken = Len(heard)
            BY <4>2, <3>2 DEF Taken, Shape
          <6>2. heard' = Append(heard, Taken + 1) /\ buffer' = buffer
            BY <4>2, <3>3
          <6> QED
            BY <6>1, <6>2, AppendProperties
        <5> QED
          BY <4>2, <5>1, <3>2, <3>3 DEF Numbered, Taken
      <4> QED
        BY <4>1, <4>2
    <3>5. Numbered'
      BY <2>2, <2>4, <2>8, <3>3, <3>4 DEF Numbered, Pending
    <3>6. Begun'
      BY <2>2, <2>5, <3>3 DEF Begun
    <3>7. Ahead'
      <4>1. ASSUME NEW i \in 1..Len(toPage)'
            PROVE  toPage'[i].kind = "close" \/ toPage'[i] = Text(Taken' + i)
        <5>1. i + 1 \in 1..Len(toPage) /\ Taken + (i + 1) = Taken' + i
          BY <2>1, <3>2, <3>4, <1>l
        <5>2. toPage[i + 1].kind = "close" \/ toPage[i + 1] = Text(Taken + (i + 1))
          BY <5>1, <3>1, <2>2 DEF Ahead
        <5> QED
          BY <5>1, <5>2, <2>1
      <4>2. hs = "served" => Len(posted) = Taken + Len(toPage)
        BY <3>1, <2>2 DEF Ahead
      <4> QED
        BY <4>1, <4>2, <2>1, <2>2, <3>2, <3>4, <1>l DEF Ahead
    <3> QED
      BY <2>3, <3>5, <3>6, <3>7
  <2> QED
    BY <2>6, <2>7, <2>8
<1>11. CASE CloseEvent \/ CloseCompletes
  <2>1. toPage' = <<>> /\ Len(toPage') = 0 /\ socket' = "closed" /\ pc' \in {pc, "rejected"}
        /\ UNCHANGED <<hs, timer, posted, buffer, heard>>
    BY <1>11 DEF CloseEvent, CloseCompletes
  <2> QED
    BY <2>1, <1>l DEF Numbered, Pending, Begun, InOrder, Ahead
<1>12. CASE HandshakeTimeout \/ Cancel
  BY <1>12, <1>l DEF HandshakeTimeout, Cancel, Reject, Closing, Shape, Numbered, Pending, Begun,
     InOrder, Ahead, Taken
<1>13. CASE Continue
  <2>1. Numbered'
    BY <1>13, <1>l DEF Continue, Closing, Numbered, Pending
  <2>2. Begun' /\ InOrder'
    BY <1>13, <1>l DEF Continue, Closing, Begun, InOrder
  <2>3. Ahead'
    BY <1>13, <1>l DEF Continue, Closing, Ahead, Taken, Numbered
  <2> QED
    BY <2>1, <2>2, <2>3
<1>14. CASE UNCHANGED vars
  BY <1>14 DEF vars, Numbered, Pending, Begun, InOrder, Ahead, Taken
<1> QED
  BY <1>1, <1>2, <1>3, <1>4, <1>5, <1>6, <1>7, <1>8, <1>9, <1>10, <1>11, <1>12, <1>13,
     <1>14 DEF Next, Relay, PageEvents

LEMMA Streams == Spec => []StreamInv
<1>1. Spec => []ClaimDecides
  BY InitClaim, NextClaim, PTL DEF Spec
<1> QED
  BY <1>1, InitStream, NextStream, Shaped, Sockets, PTL DEF Spec

\* Nothing more will be given to the subscriber: FrameStream's 'over'.
Over ==
    \/ cancelled
    \/ pc = "rejected"
    \/ pc = "returned" /\ socket \in {"closing", "closed"}

LEMMA StepOfPage ==
    ASSUME Shape, SocketInv, StreamInv, [Next]_vars, ~ Post
    PROVE  /\ posted' = posted
           /\ Over => Over' /\ heard' = heard
           /\ heard' # heard => Len(heard') > Len(heard)
<1> USE DEF relayVars, pageVars
<1>1. CASE Relay \/ TimerFires \/ TimerClaims \/ RelayCloses \/ Lost
  BY <1>1 DEF Relay, SendChallenge, ReadIdentify, Claim, Welcome, Refuse, TimerFires,
              TimerClaims, RelayCloses, Lost, Over
<1>2. CASE OpenEvent \/ OpenFails
  BY <1>2 DEF OpenEvent, OpenFails, Over, Shape
<1>3. CASE MessageEvent
  <2>1. posted' = posted /\ socket = "open" /\ cancelled' = cancelled
    BY <1>3 DEF MessageEvent
  <2>2. CASE Pending
    BY <1>3, <2>1, <2>2 DEF MessageEvent, Reject, Closing, Pending, Over
  <2>3. CASE ~ Pending
    <3>1. /\ heard' \in {heard, Append(heard, Head(toPage).n)}
          /\ UNCHANGED <<pc, socket>>
          /\ pc = "resolved" => heard' = heard
      BY <1>3, <2>3 DEF MessageEvent, HeardFrame, Pending
    <3>2. Head(toPage) \in Messages
      BY <1>3, TailFacts DEF MessageEvent, Shape
    <3>3. Len(Append(heard, Head(toPage).n)) = Len(heard) + 1 /\ Len(heard) \in Nat
      BY <3>2, AppendProperties DEF Shape, Messages
    <3>4. Over => heard' = heard
      BY <3>1, <2>1, <2>3 DEF Over, SocketInv, NoOrphanSocket, Shape, Pending
    <3> QED
      BY <2>1, <3>1, <3>3, <3>4 DEF Over
  <2> QED
    BY <2>2, <2>3
<1>4. CASE CloseEvent \/ CloseCompletes
  BY <1>4 DEF CloseEvent, CloseCompletes, Pending, Over
<1>5. CASE HandshakeTimeout \/ Cancel
  BY <1>5 DEF HandshakeTimeout, Cancel, Reject, Closing, Pending, Over
<1>6. CASE Continue
  <2>1. posted' = posted /\ heard' \in {heard, buffer} /\ heard = <<>> /\ buffer \in Seq(Nat)
    BY <1>6 DEF Continue, StreamInv, Numbered, Shape
  <2>2. Len(heard) = 0 /\ (buffer # <<>> => Len(buffer) > 0)
    BY <2>1, EmptySeq
  <2>3. Over => Over' /\ heard' = heard
    BY <1>6 DEF Continue, Closing, Over, Shape
  <2> QED
    BY <2>1, <2>2, <2>3
<1>7. CASE UNCHANGED vars
  BY <1>7 DEF vars, Over
<1> QED
  BY <1>1, <1>2, <1>3, <1>4, <1>5, <1>6, <1>7 DEF Next, PageEvents

LEMMA StepsOfStream ==
    ASSUME Shape, SocketInv, StreamInv, StreamInv', Shape', [Next]_vars
    PROVE  [Stream!Next]_(Stream!streamVars)
<1>1. CASE Post
  <2>1. Len(posted) + 1 \in 1..MaxFrames
    BY <1>1, MaxFramesAssumption, LenProperties DEF Post, Shape
  <2>2. posted' = Append(posted, Len(posted) + 1) /\ UNCHANGED <<heard, cancelled, pc, socket>>
    BY <1>1 DEF Post, pageVars
  <2> QED
    BY <2>1, <2>2 DEF Stream!Next, Stream!Post
<1>2. CASE ~ Post /\ heard' = heard /\ ~ (Over <=> Over')
  BY <1>2, StepOfPage DEF Stream!Next, Stream!End, Over
<1>3. CASE ~ Post /\ heard' = heard /\ (Over <=> Over')
  BY <1>3, StepOfPage DEF Stream!streamVars, Over
<1>4. CASE ~ Post /\ heard' # heard
  <2>1. posted' = posted /\ ~ Over /\ Len(heard') > Len(heard)
    BY <1>4, StepOfPage
  <2>2. heard \in Seq(Nat) /\ heard' \in Seq(Nat) /\ posted \in Seq(Nat)
        /\ Len(heard) \in Nat /\ Len(heard') \in Nat /\ Len(posted) \in Nat
    BY LenProperties DEF Shape
  <2>3. Len(heard') \in (Len(heard) + 1)..Len(posted)
    BY <2>1, <2>2 DEF StreamInv, Numbered
  <2>4. heard' = SubSeq(posted, 1, Len(heard'))
    <3> DEFINE s == SubSeq(posted, 1, Len(heard'))
    <3>1. s \in Seq(Nat) /\ Len(s) = Len(heard') /\ \A i \in 1..Len(heard') : s[i] = posted[i]
      BY <2>2, <2>3, SubSeqProperties, SMTT(30)
    <3>2. \A i \in 1..Len(heard') : heard'[i] = i /\ posted[i] = i
      <4>1. /\ \A i \in 1..Len(heard') : heard'[i] = i
            /\ \A i \in 1..Len(posted) : posted[i] = i
        BY DEF StreamInv, Numbered
      <4> QED
        BY <4>1, <2>2, <2>3
    <3> HIDE DEF s
    <3>3. heard' = s
      BY <2>2, <3>1, <3>2, SeqEqual
    <3> QED
      BY <3>3 DEF s
  <2>5. Over' \in {Over, TRUE}
    BY <2>1 DEF Over
  <2>6. Stream!Hear
    BY <2>1, <2>3, <2>4, <2>5 DEF Stream!Hear, Over
  <2> QED
    BY <2>6 DEF Stream!Next
<1> QED
  BY <1>1, <1>2, <1>3, <1>4

\* The safety half of StreamSpec: for every number of frames and every moment
\* of the subscription, what the subscriber has heard is a prefix of what the
\* relay has sent (the buffer of readWelcomeWithBuffer and onMessage's flush).
THEOREM IsFrameStream == Spec => Stream!Init /\ [][Stream!Next]_(Stream!streamVars)
<1>1. Init => Stream!Init
  BY DEF Init, Stream!Init
<1> QED
  BY <1>1, StepsOfStream, Shaped, Sockets, Streams, PTL DEF Spec
=============================================================================
