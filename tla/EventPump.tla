------------------------------ MODULE EventPump ------------------------------
(***************************************************************************)
(* A running Go client and the terminal interface that drains its events:  *)
(* client.go, the handlers of transfer.go and friendship.go that emit, and *)
(* Update and waitForEvent of internal/tui.                                *)
(*                                                                         *)
(* A goroutine that is inside a handler has in todo what the handler will  *)
(* still do, in order; each operation that may wait (for room in one of    *)
(* the two channels, for the transfer's mutex, for closeOnce) or that      *)
(* others can observe is a step.  How bytes are assembled and counted is   *)
(* in Transfer.                                                            *)
(***************************************************************************)
EXTENDS Naturals, Sequences, FiniteSets

CONSTANTS
    EventBuffer,    \* capacity of the channel of events
    WriteBuffer,    \* capacity of the channel of frames to write
    Chunks,         \* chunks of the file that is being sent
    Starts          \* what may be under way at the start, and bounds: how many
                    \* frames the relay sends, which commands the user gives

Keys == {"direct", "befriend", "accept", "reject", "quit"}

ASSUME PumpAssumption ==
    /\ EventBuffer \in Nat \ {0} /\ WriteBuffer \in Nat \ {0}
    /\ Chunks \in Nat \ {0}

ASSUME StartsAssumption ==
    Starts \subseteq [going : SUBSET {"in", "out"}, frames : Nat, keys : SUBSET Keys]

VARIABLES
    todo,       \* what each goroutine has still to do of its handler
    ended,      \* the goroutines that have returned
    events,     \* c.events
    emitted,    \* how many events were put there
    writeCh,    \* how many frames are in c.writeCh
    friend,     \* the session with the peer of both transfers exists
    inbound,    \* status of the inbound transfer
    listed,     \* it is in c.inbound
    itMu,       \* who holds its mutex
    accepted,   \* its transfer-accept was handed to the write loop
    outbound,   \* status of the outbound transfer
    sent,       \* its chunks that were sealed
    conn,       \* the WebSocket
    once,       \* closeOnce
    cancelled,  \* c.ctx is done
    armed,      \* listeners of the interface waiting for an event
    held,       \* events they have taken and not delivered yet
    handled,    \* the number of the last event Update has folded in
    view,       \* what the interface shows
    quit,       \* the user has quit
    frames,     \* how many more frames may come
    keys        \* the commands the user may still give

clientVars == <<friend, inbound, listed, itMu, accepted, outbound, sent>>
closeVars  == <<conn, once, cancelled>>
uiVars     == <<armed, held, handled, view, quit>>
vars == <<todo, ended, events, emitted, writeCh, clientVars, closeVars, uiVars, frames, keys>>

Goroutines == {"reader", "writer", "stream", "timer", "ui"}

-----------------------------------------------------------------------------
(* Events and operations. *)

\* An event is of the inbound transfer, of the outbound one, or of neither.
Event(k, d) == [kind |-> k, of |-> d]
Note == Event("note", "none")
Disconnected == Event("disconnected", "none")
Kinds == {"note", "offer", "started", "progress", "complete", "failed", "disconnected"}
Events == [kind : Kinds, of : {"in", "out", "none"}]

\* Every operation has an event field; it matters where one is emitted, and
\* tells the envelope of an accept from others.
Do(o) == [op |-> o, event |-> Note]
Emitting(e) == [op |-> "emit", event |-> e]
Sealing(e) == [op |-> "seal", event |-> e]
Progress(d) == [op |-> "progress", event |-> Event("progress", d)]
Operations == [op : {"emit", "progress", "write", "seal", "shutdown", "report", "cancel", "return",
                     "abort", "collect", "failOut", "chunk", "end", "fail", "finish",
                     "accept", "accepted", "declined", "close", "hangup"},
               event : {e \in Events : e.kind # "disconnected"}]

At(g, o) == g \notin ended /\ todo[g] # <<>> /\ Head(todo[g]).op = o
Idle(g) == g \notin ended /\ todo[g] = <<>>
Rest(g) == Tail(todo[g])
Goes(g, ops) == todo' = [todo EXCEPT ![g] = ops]

\* The channel of events numbers them in the order they came.
Room == Len(events) < EventBuffer
Put(e) ==
    /\ emitted' = emitted + 1
    /\ events' = Append(events, [kind |-> e.kind, of |-> e.of, n |-> emitted + 1])

\* The client has just connected, or has transfers under way.
Init ==
    \E s \in Starts :
    /\ todo = [g \in Goroutines |-> <<>>]
    /\ events = <<>> /\ emitted = 0 /\ writeCh = 0
    /\ friend = TRUE /\ itMu = "nobody" /\ sent = 0
    /\ inbound = (IF "in" \in s.going THEN "streaming" ELSE "none") /\ listed = ("in" \in s.going)
    /\ accepted = ("in" \in s.going)
    /\ outbound = IF "out" \in s.going THEN "streaming" ELSE "none"
    /\ ended = IF "out" \in s.going THEN {} ELSE {"stream"}
    /\ conn = "open" /\ once = "free" /\ cancelled = FALSE
    /\ armed = 1 /\ held = {} /\ handled = 0 /\ quit = FALSE
    /\ view = [in |-> IF "in" \in s.going THEN "active" ELSE "none",
               out |-> IF "out" \in s.going THEN "active" ELSE "none",
               offer |-> FALSE, gone |-> FALSE]
    /\ frames = s.frames /\ keys = s.keys

-----------------------------------------------------------------------------
(* What any goroutine may be about to do. *)

\* Faulty variants of Emit: it does not look at ctx; the caller keeps the
\* transfer's mutex.
EmitOnlyToRoom(g) ==
    /\ At(g, "emit")
    /\ Room /\ Put(Head(todo[g]).event)
    /\ Goes(g, Rest(g))
    /\ itMu' = IF itMu = g THEN "nobody" ELSE itMu
    /\ UNCHANGED <<ended, writeCh, friend, inbound, listed, accepted, outbound, sent,
                   closeVars, uiVars, frames, keys>>

EmitLocked(g) ==
    /\ At(g, "emit")
    /\ \/ Room /\ Put(Head(todo[g]).event)
       \/ cancelled /\ UNCHANGED <<events, emitted>>
    /\ Goes(g, Rest(g))
    /\ UNCHANGED <<ended, writeCh, clientVars, closeVars, uiVars, frames, keys>>

\* Of the two cases of a select either may be taken when both can.  Who
\* holds the mutex holds it for this, and unlocks next.
Emit(g) ==
    /\ At(g, "emit")
    /\ \/ Room /\ Put(Head(todo[g]).event)
       \/ cancelled /\ UNCHANGED <<events, emitted>>
    /\ Goes(g, Rest(g))
    /\ itMu' = IF itMu = g THEN "nobody" ELSE itMu
    /\ UNCHANGED <<ended, writeCh, friend, inbound, listed, accepted, outbound, sent,
                   closeVars, uiVars, frames, keys>>

EmitProgress(g) ==
    /\ At(g, "progress")
    /\ IF Room THEN Put(Head(todo[g]).event) ELSE UNCHANGED <<events, emitted>>
    /\ Goes(g, Rest(g))
    /\ UNCHANGED <<ended, writeCh, clientVars, closeVars, uiVars, frames, keys>>

Write(g) ==
    /\ At(g, "write")
    /\ \/ /\ writeCh < WriteBuffer
          /\ writeCh' = writeCh + 1
          /\ accepted' = (accepted \/ Head(todo[g]).event.kind = "started")
       \/ cancelled /\ UNCHANGED <<writeCh, accepted>>
    /\ Goes(g, Rest(g))
    /\ UNCHANGED <<ended, events, emitted, friend, inbound, listed, itMu, outbound, sent,
                   closeVars, uiVars, frames, keys>>

\* Without a session it returns an error: streamFile calls fail, a command
\* is over.
SealAndSend(g) ==
    /\ At(g, "seal")
    /\ Goes(g, IF friend THEN <<[Head(todo[g]) EXCEPT !.op = "write"]>> \o Rest(g)
               ELSE IF g = "stream" THEN <<Do("fail")>> ELSE <<>>)
    /\ UNCHANGED <<ended, events, emitted, writeCh, clientVars, closeVars, uiVars, frames, keys>>

\* Faulty variant of Shutdown: it is not run under closeOnce.
ShutdownAgain(g) ==
    /\ At(g, "shutdown")
    /\ Goes(g, <<Do("report"), Do("cancel")>>)
    /\ once' = g /\ conn' = "closed"
    /\ UNCHANGED <<ended, events, emitted, writeCh, cancelled, clientVars, uiVars, frames, keys>>

\* shutdown, by a loop that returns afterwards: closeOnce lets one caller in
\* and has the others wait for it.
Shutdown(g) ==
    /\ At(g, "shutdown")
    /\ \/ /\ once = "free"
          /\ Goes(g, <<Do("report"), Do("cancel")>>)
          /\ once' = g /\ conn' = "closed"
          /\ UNCHANGED ended
       \/ /\ once \in {"shut", "closed"}
          /\ Goes(g, <<>>)
          /\ ended' = ended \cup {g}
          /\ UNCHANGED <<once, conn>>
    /\ UNCHANGED <<events, emitted, writeCh, cancelled, clientVars, uiVars, frames, keys>>

Report(g) ==
    /\ At(g, "report")
    /\ IF Room THEN Put(Disconnected) ELSE UNCHANGED <<events, emitted>>
    /\ Goes(g, Rest(g))
    /\ UNCHANGED <<ended, writeCh, clientVars, closeVars, uiVars, frames, keys>>

Cancel(g) ==
    /\ At(g, "cancel")
    /\ cancelled' = TRUE /\ once' = "shut"
    /\ Goes(g, <<>>) /\ ended' = ended \cup {g}
    /\ UNCHANGED <<events, emitted, writeCh, conn, clientVars, uiVars, frames, keys>>

Return(g) ==
    /\ At(g, "return")
    /\ ended' = ended \cup {g}
    /\ Goes(g, <<>>)
    /\ UNCHANGED <<events, emitted, writeCh, clientVars, closeVars, uiVars, frames, keys>>

\* abortInbound on a transfer that is not over, with its mutex held.
Aborts(g, rest) ==
    /\ inbound' = "failed" /\ listed' = FALSE /\ itMu' = g
    /\ Goes(g, <<Emitting(Event("failed", "in"))>> \o rest)

\* The peer left (reader) or was silent for too long (timer).
AbortInbound(g) ==
    /\ At(g, "abort") /\ itMu = "nobody"
    /\ IF inbound = "failed" \/ inbound = "done" \/ (g = "timer" /\ inbound # "streaming")
       THEN Goes(g, Rest(g)) /\ UNCHANGED <<inbound, listed, itMu>>
       ELSE Aborts(g, Rest(g))
    /\ UNCHANGED <<ended, events, emitted, writeCh, friend, accepted, outbound, sent,
                   closeVars, uiVars, frames, keys>>

-----------------------------------------------------------------------------
(* The read loop. *)

\* A frame, and what its handler will do: a notification or a broadcast
\* makes one event; peer-left ends the session and then the transfers.  A
\* peer streams only what was accepted.
Handler(f) ==
    CASE f = "note"  -> <<Emitting(Note)>>
      [] f = "offer" -> <<Emitting(Event("offer", "in"))>>
      [] f = "left"  -> <<Do("collect"), Emitting(Note)>>
      [] OTHER       -> <<Do(f)>>

ReadFrame ==
    /\ Idle("reader") /\ conn = "open" /\ ~ cancelled /\ frames > 0
    /\ \E f \in {"note", "offer", "chunk", "end", "left"} :
        /\ f # "note" => friend
        /\ f = "offer" => inbound = "none"
        /\ f \in {"chunk", "end"} => listed /\ accepted
        /\ Goes("reader", Handler(f))
        /\ friend' = (friend /\ f # "left")
        /\ IF f = "offer" THEN inbound' = "offered" /\ listed' = TRUE
                          ELSE UNCHANGED <<inbound, listed>>
    /\ frames' = frames - 1
    /\ UNCHANGED <<ended, events, emitted, writeCh, itMu, accepted, outbound, sent, closeVars, uiVars, keys>>

ReadFails ==
    /\ Idle("reader") /\ (conn # "open" \/ cancelled)
    /\ Goes("reader", <<Do("shutdown")>>)
    /\ UNCHANGED <<ended, events, emitted, writeCh, clientVars, closeVars, uiVars, frames, keys>>

\* handleChunk: folded in, with or without an ack, or the transfer fails.  A
\* last chunk that comes behind the end is left out: the relay keeps them in
\* order.
TakeChunk ==
    /\ At("reader", "chunk") /\ itMu = "nobody"
    /\ \/ inbound # "streaming" /\ Goes("reader", <<>>) /\ UNCHANGED <<inbound, listed, itMu>>
       \/ /\ inbound = "streaming"
          /\ \E ack \in {<<>>, <<Do("seal")>>} : Goes("reader", <<Progress("in")>> \o ack)
          /\ UNCHANGED <<inbound, listed, itMu>>
       \/ inbound = "streaming" /\ Aborts("reader", <<>>)
    /\ UNCHANGED <<ended, events, emitted, writeCh, friend, accepted, outbound, sent,
                   closeVars, uiVars, frames, keys>>

\* handleTransferEnd: a chunk is missing, all is there, or all is wrong.
TakeEnd ==
    /\ At("reader", "end") /\ itMu = "nobody"
    /\ \/ Goes("reader", <<>>) /\ UNCHANGED <<inbound, listed, itMu>>
       \/ /\ inbound = "streaming"
          /\ inbound' = "done" /\ listed' = FALSE /\ itMu' = "reader"
          /\ Goes("reader", <<Emitting(Event("complete", "in"))>>)
       \/ inbound = "streaming" /\ Aborts("reader", <<>>)
    /\ UNCHANGED <<ended, events, emitted, writeCh, friend, accepted, outbound, sent,
                   closeVars, uiVars, frames, keys>>

\* failTransfersForPeer, under c.mu: what there is to fail.
Collect ==
    /\ At("reader", "collect")
    /\ Goes("reader", (IF outbound = "none" THEN <<>> ELSE <<Do("failOut")>>)
                        \o (IF listed THEN <<Do("abort")>> ELSE <<>>) \o Rest("reader"))
    /\ UNCHANGED <<ended, events, emitted, writeCh, clientVars, closeVars, uiVars, frames, keys>>

FailOutbound ==
    /\ At("reader", "failOut")
    /\ outbound' = IF outbound = "streaming" THEN "failed" ELSE outbound
    /\ Goes("reader", (IF outbound = "streaming" THEN <<Emitting(Event("failed", "out"))>> ELSE <<>>)
                        \o Rest("reader"))
    /\ UNCHANGED <<ended, events, emitted, writeCh, friend, inbound, listed, itMu, accepted, sent,
                   closeVars, uiVars, frames, keys>>

-----------------------------------------------------------------------------
(* The write loop, the goroutine that streams a file, and the timer. *)

\* conn.Write comes back within its timeout, with or without an error.
WriteFrame ==
    /\ Idle("writer") /\ writeCh > 0
    /\ writeCh' = writeCh - 1
    /\ \/ conn = "open" /\ UNCHANGED todo
       \/ Goes("writer", <<Do("shutdown")>>)
    /\ UNCHANGED <<ended, events, emitted, clientVars, closeVars, uiVars, frames, keys>>

WriterStops ==
    /\ Idle("writer") /\ cancelled
    /\ ended' = ended \cup {"writer"}
    /\ UNCHANGED <<todo, events, emitted, writeCh, clientVars, closeVars, uiVars, frames, keys>>

\* The next chunk, unless the window stays shut or the transfer was aborted.
StreamChunk ==
    /\ Idle("stream")
    /\ \/ Goes("stream", <<Do("fail")>>) /\ UNCHANGED sent
       \/ outbound = "failed" /\ Goes("stream", <<Do("return")>>) /\ UNCHANGED sent
       \/ /\ outbound = "streaming" /\ sent < Chunks
          /\ sent' = sent + 1
          /\ Goes("stream", <<Do("seal"), Progress("out")>>
                              \o IF sent' = Chunks THEN <<Do("seal"), Do("finish")>> ELSE <<>>)
    /\ UNCHANGED <<ended, events, emitted, writeCh, friend, inbound, listed, itMu, accepted, outbound,
                   closeVars, uiVars, frames, keys>>

Fail ==
    /\ At("stream", "fail")
    /\ outbound' = "failed"
    /\ Goes("stream", (IF outbound = "failed" THEN <<>> ELSE <<Emitting(Event("failed", "out"))>>)
                        \o <<Do("return")>>)
    /\ UNCHANGED <<ended, events, emitted, writeCh, friend, inbound, listed, itMu, accepted, sent,
                   closeVars, uiVars, frames, keys>>

Finish ==
    /\ At("stream", "finish")
    /\ outbound' = "done"
    /\ Goes("stream", <<Emitting(Event("complete", "out")), Do("return")>>)
    /\ UNCHANGED <<ended, events, emitted, writeCh, friend, inbound, listed, itMu, accepted, sent,
                   closeVars, uiVars, frames, keys>>

\* Each chunk that is folded in restarts the timer.
ReceiveStall ==
    /\ Idle("timer") /\ inbound = "streaming" /\ listed
    /\ ~ At("reader", "progress")
    /\ Goes("timer", <<Do("abort")>>)
    /\ UNCHANGED <<ended, events, emitted, writeCh, clientVars, closeVars, uiVars, frames, keys>>

ConnectionLost ==
    /\ conn = "open"
    /\ conn' = "lost"
    /\ UNCHANGED <<todo, ended, events, emitted, writeCh, once, cancelled, clientVars, uiVars,
                   frames, keys>>

-----------------------------------------------------------------------------
(* The interface. *)

\* waitForEvent, in a goroutine of its own.
Listen ==
    /\ armed > 0 /\ events # <<>>
    /\ armed' = armed - 1
    /\ held' = held \cup {Head(events)}
    /\ events' = Tail(events)
    /\ UNCHANGED <<todo, ended, emitted, writeCh, clientVars, closeVars, handled, view, quit,
                   frames, keys>>

\* Faulty variant of Shown: the offer of a failed transfer stays in front.
ShownOffer(e) ==
    CASE e.kind = "offer"        -> [view EXCEPT !.in = "offered", !.offer = TRUE]
      [] e.kind = "failed"       -> [view EXCEPT !.in = "failed"]
      [] e.kind = "disconnected" -> [view EXCEPT !.gone = TRUE]
      [] OTHER                   -> view

\* handleEvent, on what is shown.
Shown(e) ==
    LET Status(s) == IF e.of = "in" THEN [view EXCEPT !.in = s] ELSE [view EXCEPT !.out = s]
    IN  CASE e.kind = "offer"        -> [view EXCEPT !.in = "offered", !.offer = TRUE]
          [] e.kind = "started"      -> Status("active")
          [] e.kind = "progress"     -> Status("active")
          [] e.kind = "complete"     -> Status("done")
          [] e.kind = "failed"       -> IF e.of = "in" THEN [Status("failed") EXCEPT !.offer = FALSE]
                                                       ELSE Status("failed")
          [] e.kind = "disconnected" -> [view EXCEPT !.gone = TRUE]
          [] OTHER                   -> view

\* Faulty variants of Listeners: two are armed; none is armed after an
\* event that changes nothing on the display.
ListenersTwo(e) == IF e.kind = "disconnected" THEN 0 ELSE 2
ListenersForgotten(e) == IF e.kind \in {"disconnected", "progress"} THEN 0 ELSE 1

\* The command handleEvent returns: another waitForEvent, or nil.
Listeners(e) == IF e.kind = "disconnected" THEN 0 ELSE 1

\* Update on an event.
Update ==
    /\ Idle("ui") /\ ~ quit
    /\ \E e \in held :
        /\ held' = held \ {e}
        /\ handled' = e.n
        /\ view' = Shown(e)
        /\ armed' = armed + Listeners(e)
    /\ UNCHANGED <<todo, ended, events, emitted, writeCh, clientVars, closeVars, quit, frames, keys>>

\* Update on a key: an invite, a rejection or an offer of a file; an accepted
\* invite; and the answers to the offer in front.
Press ==
    /\ Idle("ui") /\ ~ quit
    /\ \E k \in keys :
        /\ keys' = keys \ {k}
        /\ \/ k = "direct" /\ Goes("ui", <<Do("write")>>) /\ UNCHANGED listed
           \/ k = "befriend" /\ Goes("ui", <<Do("write"), Emitting(Note)>>) /\ UNCHANGED listed
           \/ /\ k = "accept" /\ view.offer /\ listed
              /\ Goes("ui", <<Do("accept")>>)
              /\ UNCHANGED listed
           \/ /\ k = "reject" /\ view.offer /\ listed
              /\ listed' = FALSE
              /\ Goes("ui", <<Do("seal"), Emitting(Event("failed", "in")), Do("declined")>>)
    /\ UNCHANGED <<ended, events, emitted, writeCh, friend, inbound, itMu, accepted, outbound, sent,
                   closeVars, uiVars, frames>>

\* AcceptTransfer from its lock on.
AcceptTransfer ==
    /\ At("ui", "accept") /\ itMu = "nobody"
    /\ IF inbound = "offered"
       THEN /\ inbound' = "streaming"
            /\ Goes("ui", <<Sealing(Event("started", "in")), Emitting(Event("started", "in")),
                            Do("accepted")>>)
       ELSE UNCHANGED inbound /\ Goes("ui", <<>>)
    /\ UNCHANGED <<ended, events, emitted, writeCh, friend, listed, itMu, accepted, outbound, sent,
                   closeVars, uiVars, frames, keys>>

\* The command came back without an error, and Update goes on.
Answered ==
    /\ At("ui", "accepted") \/ At("ui", "declined")
    /\ view' = IF At("ui", "accepted") THEN [view EXCEPT !.offer = FALSE]
               ELSE [view EXCEPT !.offer = FALSE, !.in = "failed"]
    /\ Goes("ui", <<>>)
    /\ UNCHANGED <<ended, events, emitted, writeCh, clientVars, closeVars, armed, held, handled,
                   quit, frames, keys>>

\* Run comes back and closes the client.
Quit ==
    /\ Idle("ui") /\ ~ quit /\ "quit" \in keys
    /\ quit' = TRUE
    /\ Goes("ui", <<Do("close"), Do("return")>>)
    /\ UNCHANGED <<ended, events, emitted, writeCh, clientVars, closeVars, armed, held, handled,
                   view, frames, keys>>

Close ==
    /\ At("ui", "close")
    /\ \/ /\ once = "free"
          /\ once' = "ui" /\ cancelled' = TRUE
          /\ Goes("ui", <<Do("hangup")>> \o Rest("ui"))
       \/ once = "shut" /\ Goes("ui", Rest("ui")) /\ UNCHANGED <<once, cancelled>>
    /\ UNCHANGED <<ended, events, emitted, writeCh, conn, clientVars, uiVars, frames, keys>>

HangUp ==
    /\ At("ui", "hangup")
    /\ conn' = "closed" /\ once' = "closed"
    /\ Goes("ui", Rest("ui"))
    /\ UNCHANGED <<ended, events, emitted, writeCh, cancelled, clientVars, uiVars, frames, keys>>

-----------------------------------------------------------------------------
\* What a goroutine does next in the handler it is in.
Step(g) ==
    \/ Emit(g) \/ EmitProgress(g) \/ Write(g) \/ SealAndSend(g) \/ AbortInbound(g)
    \/ Shutdown(g) \/ Report(g) \/ Cancel(g) \/ Return(g)

Reads  == ReadFrame \/ ReadFails \/ TakeChunk \/ TakeEnd \/ Collect \/ FailOutbound
Writes == WriteFrame \/ WriterStops
Streams == StreamChunk \/ Fail \/ Finish
Commands == AcceptTransfer \/ Answered \/ Close \/ HangUp

Next ==
    \/ \E g \in Goroutines : Step(g)
    \/ Reads \/ Writes \/ Streams \/ Commands
    \/ Listen \/ Update \/ Press \/ Quit
    \/ ReceiveStall \/ ConnectionLost

\* The goroutines run.  Nothing makes the relay send, the connection break,
\* the timer fire, or the user press a key.
Fairness ==
    /\ WF_vars(Step("reader") \/ ReadFails \/ TakeChunk \/ TakeEnd \/ Collect \/ FailOutbound)
    /\ WF_vars(Step("writer") \/ Writes)
    /\ WF_vars(Step("stream") \/ Streams)
    /\ WF_vars(Step("timer"))
    /\ WF_vars(Step("ui") \/ Commands)
    /\ WF_vars(Listen)
    /\ WF_vars(Update)

Spec == Init /\ [][Next]_vars /\ Fairness

-----------------------------------------------------------------------------
(* Properties. *)

\* Every variable keeps its shape; no handler emits Disconnected, which only
\* shutdown does; and the transfer's mutex is held only by one that is about
\* to emit.
TypeOK ==
    /\ todo \in [Goroutines -> Seq(Operations)]
    /\ ended \subseteq Goroutines
    /\ events \in Seq([kind : Kinds, of : {"in", "out", "none"}, n : Nat])
    /\ Len(events) <= EventBuffer /\ writeCh \in 0..WriteBuffer
    /\ held \subseteq [kind : Kinds, of : {"in", "out", "none"}, n : Nat]
    /\ emitted \in Nat /\ handled \in Nat /\ armed \in Nat
    /\ inbound \in {"none", "offered", "streaming", "failed", "done"}
    /\ outbound \in {"none", "streaming", "failed", "done"}
    /\ once \in {"free", "shut", "closed"} \cup Goroutines
    /\ view \in [in : {"none", "offered", "active", "failed", "done"},
                 out : {"none", "active", "failed", "done"},
                 offer : BOOLEAN, gone : BOOLEAN]
    /\ itMu # "nobody" => itMu \in Goroutines /\ At(itMu, "emit")

\* The interface sees the events in the order in which they entered the
\* channel and skips none, though a goroutine of its own carries each.
EventsInOrder == [][handled' # handled => handled' = handled + 1]_vars

\* The terminal events that are on their way to the display.
Terminal == {e \in held : e.kind = "disconnected"} \cup
            {e \in {events[i] : i \in 1..Len(events)} : e.kind = "disconnected"}

\* Read loop, write loop and Close may all find the connection gone: one of
\* them at most reports it, and not again once the interface was told.
DisconnectedOnce == Cardinality(Terminal) <= (IF view.gone THEN 0 ELSE 1)

\* Nothing is left to do and to hear.
Quiet ==
    /\ \A g \in Goroutines : todo[g] = <<>>
    /\ events = <<>> /\ held = {} /\ ~ cancelled

\* When all is quiet, no offer of a transfer that was accepted or has failed
\* is in front of the user, who could not get past it: however accept,
\* departure and stall timer met, and also when the accept returned an error.
\* (Only one that the user then rejected may stay: its reject is not reported
\* if the session ended in between.)
OffersAreLive ==
    Quiet /\ view.offer => inbound = "offered" \/ (inbound = "streaming" /\ ~ listed)

\* Every handler that was begun is over.
AtRest == \A g \in Goroutines : todo[g] = <<>>

\* Once the context is done both loops return, and whoever waits inside a
\* handler, with the mutex or without, gets out of it.
StopsWhenCancelled == cancelled ~> ({"reader", "writer"} \subseteq ended /\ AtRest)

\* A command emits into a full channel that nobody drains until the command
\* is over.  Only the end of the connection gets out of this.
Stuck == At("ui", "emit") /\ ~ Room /\ armed = 0

\* No handler waits for ever: whoever waits for room in a channel, or for
\* the transfer's mutex, is waited out by the interface and the write loop,
\* as long as the interface is not itself stuck.  (Frames and commands are
\* bounded, so that all handlers are over at the same time.)
HandlersEnd == []<>(AtRest \/ Stuck)

\* Whatever enters the channel is seen, unless the interface is stuck or gone.
EventsAreSeen == []<>(handled = emitted \/ view.gone \/ quit \/ Stuck)

-----------------------------------------------------------------------------
(* What a comment promises, and does not hold. *)

\* client.go:25: events do not block the read loop.
ReaderGoesOn == (todo["reader"] # <<>>) ~> (todo["reader"] = <<>>)
=============================================================================
