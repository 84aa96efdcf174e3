--------------------------- MODULE EventPumpProofs ---------------------------
(***************************************************************************)
(* What holds of EventPump for channels of any size and any number of      *)
(* frames, commands and chunks: type correctness with the mutex, the order *)
(* of the events, the one report of the end, and the offer in front of the *)
(* user.                                                                   *)
(***************************************************************************)
EXTENDS EventPump, FiniteSetTheorems, SequenceTheorems, TLAPS

-----------------------------------------------------------------------------
(* What goroutines have still to do. *)

\* The operations that a goroutine has only after closeOnce let it in.
Closers == {"report", "cancel", "hangup"}
Plain == {o \in Operations : o.op \notin Closers}

Reporting == <<Do("report"), Do("cancel")>>

InOnce(g) ==
    /\ once = g
    /\ \/ todo[g] = Reporting
       \/ todo[g] = <<Do("cancel")>>
       \/ \E ops \in Seq(Plain) : todo[g] = <<Do("hangup")>> \o ops

TodoInv ==
    /\ todo \in [Goroutines -> Seq(Operations)]
    /\ once \in {"free", "shut", "closed"} \cup Goroutines
    /\ \A g \in Goroutines : todo[g] \in Seq(Plain) \/ InOnce(g)

\* What a step does to todo and closeOnce.
Takes(g, ops) == todo[g] \in Seq(Plain) /\ Goes(g, ops) /\ UNCHANGED once
TodoStep ==
    \/ UNCHANGED <<todo, once>>
    \/ \E g \in Goroutines : \E ops \in Seq(Plain) : Takes(g, ops)
    \/ \E g \in Goroutines : once = "free" /\ once' = g /\ Goes(g, Reporting)
    \/ \E g \in Goroutines : once = g /\ Goes(g, <<Do("cancel")>>) /\ UNCHANGED once
    \/ \E g \in Goroutines : once = g /\ once' = "shut" /\ Goes(g, <<>>)
    \/ \E ops \in Seq(Plain) :
         \/ once = "free" /\ once' = "ui" /\ Goes("ui", <<Do("hangup")>> \o ops)
         \/ once = "ui" /\ once' = "closed" /\ Goes("ui", ops)

\* What the handlers consist of.
LEMMA Operating ==
    /\ \A o \in {"shutdown", "return", "abort", "collect", "failOut", "chunk", "end", "fail",
                 "finish", "accept", "accepted", "declined", "close", "write", "seal"} : Do(o) \in Plain
    /\ \A e \in Events : e.kind # "disconnected" => Emitting(e) \in Plain /\ Sealing(e) \in Plain
    /\ \A d \in {"in", "out"} : Progress(d) \in Plain
    /\ \A k \in Kinds \ {"disconnected"} : \A d \in {"in", "out", "none"} :
         Event(k, d) \in Events /\ Event(k, d).kind # "disconnected"
    /\ Do("report") \in Operations /\ Do("cancel") \in Operations /\ Do("hangup") \in Operations
    /\ Plain \subseteq Operations
BY DEF Do, Emitting, Sealing, Progress, Plain, Operations, Events, Event, Note, Kinds, Closers

LEMMA ListsOf ==
    ASSUME NEW S
    PROVE  /\ <<>> \in Seq(S)
           /\ \A o \in S : <<o>> \in Seq(S)
           /\ \A o, p \in S : <<o, p>> \in Seq(S)
           /\ \A o, p, q \in S : <<o, p, q>> \in Seq(S)
           /\ \A s, t \in Seq(S) : s \o t \in Seq(S)
           /\ \A s \in Seq(S) : s # <<>> => Tail(s) \in Seq(S) /\ Head(s) \in S
<1>1. \A s \in Seq(S) : s # <<>> => Tail(s) \in Seq(S) /\ Head(s) \in S
  BY HeadTailProperties
<1> QED BY <1>1

LEMMA Lists ==
    /\ <<>> \in Seq(Plain)
    /\ \A o \in Plain : <<o>> \in Seq(Plain)
    /\ \A o, p \in Plain : <<o, p>> \in Seq(Plain)
    /\ \A o, p, q \in Plain : <<o, p, q>> \in Seq(Plain)
    /\ \A s, t \in Seq(Plain) : s \o t \in Seq(Plain)
    /\ \A s \in Seq(Plain) : s # <<>> => Tail(s) \in Seq(Plain) /\ Head(s) \in Plain
BY ListsOf

\* Who is about to do what it does outside closeOnce has a plain list.
LEMMA AtPlain ==
    ASSUME TodoInv, NEW g \in Goroutines, NEW o, At(g, o), o \notin Closers
    PROVE  /\ todo[g] \in Seq(Plain) /\ Rest(g) \in Seq(Plain)
           /\ Head(todo[g]) \in Plain /\ Head(todo[g]).op = o
<1>1. todo[g] # <<>> /\ Head(todo[g]).op = o
  BY DEF At
<1>2. ~ InOnce(g)
  <2>1. todo[g] # Reporting /\ todo[g] # <<Do("cancel")>>
    BY <1>1 DEF Reporting, Do, Closers
  <2>2. ASSUME NEW ops \in Seq(Plain), todo[g] = <<Do("hangup")>> \o ops PROVE FALSE
    BY <1>1, <2>2 DEF Do, Closers
  <2> QED BY <2>1, <2>2 DEF InOnce
<1>3. todo[g] \in Seq(Plain)
  BY <1>2 DEF TodoInv
<1> QED BY <1>1, <1>3, Lists DEF Rest

LEMMA IdlePlain ==
    ASSUME TodoInv, NEW g \in Goroutines, Idle(g)
    PROVE  todo[g] \in Seq(Plain)
BY Lists DEF Idle

LEMMA TodoPreserved == ASSUME TodoInv, TodoStep PROVE TodoInv'
<1> USE DEF TodoInv, Goes
<1>0. /\ Seq(Plain) \subseteq Seq(Operations)
      /\ Reporting \in Seq(Operations) /\ <<Do("cancel")>> \in Seq(Operations)
      /\ <<Do("hangup")>> \in Seq(Operations) /\ <<>> \in Seq(Plain)
      /\ \A ops \in Seq(Plain) : <<Do("hangup")>> \o ops \in Seq(Operations)
  BY Operating DEF Reporting
<1>g. Goroutines = {"reader", "writer", "stream", "timer", "ui"}
  BY DEF Goroutines
<1>1. CASE UNCHANGED <<todo, once>>
  BY <1>1 DEF InOnce
<1>2. ASSUME NEW g \in Goroutines, NEW ops \in Seq(Plain), Takes(g, ops) PROVE TodoInv'
  BY <1>2, <1>0 DEF Takes, InOnce
<1>3. ASSUME NEW g \in Goroutines, once = "free", once' = g, Goes(g, Reporting) PROVE TodoInv'
  BY <1>3, <1>0, <1>g DEF InOnce
<1>4. ASSUME NEW g \in Goroutines, once = g, Goes(g, <<Do("cancel")>>), UNCHANGED once PROVE TodoInv'
  BY <1>4, <1>0, <1>g DEF InOnce
<1>5. ASSUME NEW g \in Goroutines, once = g, once' = "shut", Goes(g, <<>>) PROVE TodoInv'
  BY <1>5, <1>0, <1>g DEF InOnce
<1>6. ASSUME NEW ops \in Seq(Plain), once = "free", once' = "ui",
             Goes("ui", <<Do("hangup")>> \o ops) PROVE TodoInv'
  BY <1>6, <1>0, <1>g DEF InOnce
<1>7. ASSUME NEW ops \in Seq(Plain), once = "ui", once' = "closed", Goes("ui", ops) PROVE TodoInv'
  BY <1>7, <1>0, <1>g DEF InOnce
<1> QED BY <1>1, <1>2, <1>3, <1>4, <1>5, <1>6, <1>7 DEF TodoStep

-----------------------------------------------------------------------------
(* What each action does to todo, closeOnce and the events. *)

Quietly == UNCHANGED <<events, emitted, armed, held, handled>> /\ view'.gone = view.gone

EventStep ==
    \/ Quietly
    \/ \E e \in Events : /\ e.kind # "disconnected" /\ Room /\ Put(e)
                         /\ UNCHANGED <<armed, held, handled, view>>
    \/ \E g \in Goroutines : /\ todo[g] = Reporting /\ once = g /\ Goes(g, <<Do("cancel")>>)
                             /\ UNCHANGED once
                             /\ Room /\ Put(Disconnected) /\ UNCHANGED <<armed, held, handled, view>>
    \/ Listen
    \/ Update

Effect == TodoStep /\ EventStep

LEMMA Emitted ==
    ASSUME TodoInv, NEW g \in Goroutines, NEW o, At(g, o), o \notin Closers
    PROVE  Head(todo[g]).event \in Events /\ Head(todo[g]).event.kind # "disconnected"
<1>1. Head(todo[g]) \in Operations
  BY AtPlain DEF Plain
<1> QED BY <1>1 DEF Operations

LEMMA EmitEffect ==
    ASSUME TodoInv, NEW g \in Goroutines, Emit(g) \/ EmitProgress(g) \/ Write(g)
    PROVE  Effect
<1>1. PICK o \in {"emit", "progress", "write"} : At(g, o)
  BY DEF Emit, EmitProgress, Write
<1>2. o \notin Closers
  BY DEF Closers
<1>3. todo[g] \in Seq(Plain) /\ Rest(g) \in Seq(Plain)
  BY <1>1, <1>2, AtPlain
<1>4. Head(todo[g]).event \in Events /\ Head(todo[g]).event.kind # "disconnected"
  BY <1>1, <1>2, Emitted
<1>5. Goes(g, Rest(g)) /\ UNCHANGED once
  BY DEF Emit, EmitProgress, Write, closeVars
<1>6. EventStep
  BY <1>4 DEF Emit, EmitProgress, Write, EventStep, Quietly, uiVars
<1> QED BY <1>3, <1>5, <1>6 DEF Effect, TodoStep, Takes

LEMMA SealEffect ==
    ASSUME TodoInv, NEW g \in Goroutines, SealAndSend(g)
    PROVE  Effect
<1>1. At(g, "seal")
  BY DEF SealAndSend
<1>2. /\ todo[g] \in Seq(Plain) /\ Rest(g) \in Seq(Plain)
      /\ Head(todo[g]) \in Plain
  BY <1>1, AtPlain DEF Closers
<1>3. [Head(todo[g]) EXCEPT !.op = "write"] \in Plain
  BY <1>2 DEF Plain, Operations, Closers
<1>4. /\ <<[Head(todo[g]) EXCEPT !.op = "write"]>> \o Rest(g) \in Seq(Plain)
      /\ <<Do("fail")>> \in Seq(Plain) /\ <<>> \in Seq(Plain)
  BY <1>2, <1>3, Lists, Operating
<1>5. \E ops \in Seq(Plain) : Goes(g, ops)
  BY <1>4 DEF SealAndSend
<1> QED
  BY <1>2, <1>5 DEF SealAndSend, Effect, TodoStep, Takes, EventStep, Quietly, closeVars, uiVars

LEMMA CloseOnceEffect ==
    ASSUME TodoInv, NEW g \in Goroutines, Shutdown(g) \/ Report(g) \/ Cancel(g) \/ Return(g)
    PROVE  Effect
<1>1. CASE Shutdown(g)
  <2>1. todo[g] \in Seq(Plain) /\ <<>> \in Seq(Plain)
    BY <1>1, AtPlain, Lists DEF Shutdown, Closers
  <2> QED
    BY <1>1, <2>1 DEF Shutdown, Effect, TodoStep, Takes, Reporting, EventStep, Quietly, uiVars
<1>2. CASE Report(g)
  <2>1. At(g, "report")
    BY <1>2 DEF Report
  <2>2. todo[g] \notin Seq(Plain)
    BY <2>1, Lists DEF At, Plain, Closers
  <2>3. ~ \E ops \in Seq(Plain) : todo[g] = <<Do("hangup")>> \o ops
    BY <2>1 DEF At, Do
  <2>4. todo[g] = Reporting /\ once = g
    BY <2>1, <2>2, <2>3 DEF TodoInv, InOnce, At, Do
  <2>5. Rest(g) = <<Do("cancel")>>
    BY <2>4 DEF Reporting, Rest
  <2> QED
    BY <1>2, <2>4, <2>5 DEF Report, Effect, TodoStep, EventStep, Quietly, uiVars, closeVars
<1>3. CASE Cancel(g)
  <2>1. At(g, "cancel")
    BY <1>3 DEF Cancel
  <2>2. todo[g] \notin Seq(Plain)
    BY <2>1, Lists DEF At, Plain, Closers
  <2>3. once = g
    BY <2>2 DEF TodoInv, InOnce
  <2> QED
    BY <1>3, <2>3 DEF Cancel, Effect, TodoStep, EventStep, Quietly, uiVars
<1>4. CASE Return(g)
  <2>1. todo[g] \in Seq(Plain) /\ <<>> \in Seq(Plain)
    BY <1>4, AtPlain, Lists DEF Return, Closers
  <2> QED
    BY <1>4, <2>1 DEF Return, Effect, TodoStep, Takes, EventStep, Quietly, uiVars, closeVars
<1> QED BY <1>1, <1>2, <1>3, <1>4

LEMMA AbortEffect ==
    ASSUME TodoInv, NEW g \in Goroutines, AbortInbound(g)
    PROVE  Effect
<1>1. todo[g] \in Seq(Plain) /\ Rest(g) \in Seq(Plain)
  BY AtPlain DEF AbortInbound, Closers
<1>2. <<Emitting(Event("failed", "in"))>> \o Rest(g) \in Seq(Plain)
  BY <1>1, Lists, Operating DEF Kinds
<1>3. \E ops \in Seq(Plain) : Goes(g, ops)
  BY <1>1, <1>2 DEF AbortInbound, Aborts
<1> QED
  BY <1>1, <1>3 DEF AbortInbound, Effect, TodoStep, Takes, EventStep, Quietly, uiVars, closeVars

LEMMA ReadEffect == ASSUME TodoInv, Reads PROVE Effect
<1>r. "reader" \in Goroutines
  BY DEF Goroutines
<1>e. /\ Emitting(Event("failed", "in")) \in Plain /\ Emitting(Event("failed", "out")) \in Plain
      /\ Emitting(Event("complete", "in")) \in Plain /\ Emitting(Event("offer", "in")) \in Plain
      /\ Emitting(Note) \in Plain /\ Progress("in") \in Plain
  BY Operating DEF Kinds, Note
<1>q. Quietly /\ UNCHANGED once
  BY DEF Reads, ReadFrame, ReadFails, TakeChunk, TakeEnd, Collect, FailOutbound, Quietly,
         closeVars, uiVars
<1>1. CASE ReadFrame
  <2>1. PICK f \in {"note", "offer", "chunk", "end", "left"} : Goes("reader", Handler(f))
    BY <1>1 DEF ReadFrame
  <2>2. Handler(f) \in Seq(Plain)
    BY <1>e, Lists, Operating DEF Handler
  <2>3. todo["reader"] \in Seq(Plain)
    BY <1>1, <1>r, IdlePlain DEF ReadFrame
  <2> QED
    BY <2>1, <2>2, <2>3, <1>r, <1>q DEF Effect, TodoStep, Takes, EventStep
<1>2. CASE ReadFails
  <2>1. todo["reader"] \in Seq(Plain) /\ <<Do("shutdown")>> \in Seq(Plain)
    BY <1>2, <1>r, IdlePlain, Lists, Operating DEF ReadFails
  <2> QED
    BY <1>2, <2>1, <1>r, <1>q DEF ReadFails, Effect, TodoStep, Takes, EventStep
<1>3. CASE TakeChunk
  <2>1. todo["reader"] \in Seq(Plain)
    BY <1>3, <1>r, AtPlain DEF TakeChunk, Closers
  <2>2. /\ <<>> \in Seq(Plain) /\ <<Do("seal")>> \in Seq(Plain)
        /\ <<Progress("in")>> \in Seq(Plain) /\ <<Emitting(Event("failed", "in"))>> \in Seq(Plain)
    BY <1>e, Lists, Operating
  <2>3. /\ <<Progress("in")>> \o <<>> \in Seq(Plain) /\ <<Progress("in")>> \o <<Do("seal")>> \in Seq(Plain)
        /\ <<Emitting(Event("failed", "in"))>> \o <<>> \in Seq(Plain)
    BY <2>2, Lists
  <2>4. \E ops \in Seq(Plain) : Goes("reader", ops)
    BY <1>3, <2>2, <2>3 DEF TakeChunk, Aborts
  <2> QED
    BY <2>1, <2>4, <1>r, <1>q DEF Effect, TodoStep, Takes, EventStep
<1>4. CASE TakeEnd
  <2>1. todo["reader"] \in Seq(Plain)
    BY <1>4, <1>r, AtPlain DEF TakeEnd, Closers
  <2>2. /\ <<>> \in Seq(Plain) /\ <<Emitting(Event("complete", "in"))>> \in Seq(Plain)
        /\ <<Emitting(Event("failed", "in"))>> \o <<>> \in Seq(Plain)
    BY <1>e, Lists
  <2>3. \E ops \in Seq(Plain) : Goes("reader", ops)
    BY <1>4, <2>2 DEF TakeEnd, Aborts
  <2> QED
    BY <2>1, <2>3, <1>r, <1>q DEF Effect, TodoStep, Takes, EventStep
<1>5. CASE Collect
  <2>1. todo["reader"] \in Seq(Plain) /\ Rest("reader") \in Seq(Plain)
    BY <1>5, <1>r, AtPlain DEF Collect, Closers
  <2>2. /\ (IF outbound = "none" THEN <<>> ELSE <<Do("failOut")>>) \in Seq(Plain)
        /\ (IF listed THEN <<Do("abort")>> ELSE <<>>) \in Seq(Plain)
    BY Lists, Operating
  <2>3. (IF outbound = "none" THEN <<>> ELSE <<Do("failOut")>>)
          \o (IF listed THEN <<Do("abort")>> ELSE <<>>) \o Rest("reader") \in Seq(Plain)
    BY <2>1, <2>2, Lists
  <2> QED
    BY <1>5, <2>1, <2>3, <1>r, <1>q DEF Collect, Effect, TodoStep, Takes, EventStep
<1>6. CASE FailOutbound
  <2>1. todo["reader"] \in Seq(Plain) /\ Rest("reader") \in Seq(Plain)
    BY <1>6, <1>r, AtPlain DEF FailOutbound, Closers
  <2>2. (IF outbound = "streaming" THEN <<Emitting(Event("failed", "out"))>> ELSE <<>>)
          \o Rest("reader") \in Seq(Plain)
    BY <2>1, <1>e, Lists
  <2> QED
    BY <1>6, <2>1, <2>2, <1>r, <1>q DEF FailOutbound, Effect, TodoStep, Takes, EventStep
<1> QED BY <1>1, <1>2, <1>3, <1>4, <1>5, <1>6 DEF Reads

LEMMA WriterEffect == ASSUME TodoInv, Writes PROVE Effect
<1>r. "writer" \in Goroutines
  BY DEF Goroutines
<1>1. todo["writer"] \in Seq(Plain) /\ <<Do("shutdown")>> \in Seq(Plain)
  BY <1>r, IdlePlain, Lists, Operating DEF Writes, WriteFrame, WriterStops
<1>2. EventStep /\ UNCHANGED once
  BY DEF Writes, WriteFrame, WriterStops, EventStep, Quietly, closeVars, uiVars
<1>3. UNCHANGED todo \/ Goes("writer", <<Do("shutdown")>>)
  BY DEF Writes, WriteFrame, WriterStops
<1> QED BY <1>r, <1>1, <1>2, <1>3 DEF Effect, TodoStep, Takes

LEMMA StreamEffect == ASSUME TodoInv, Streams PROVE Effect
<1>r. "stream" \in Goroutines
  BY DEF Goroutines
<1>e. /\ Emitting(Event("failed", "out")) \in Plain /\ Emitting(Event("complete", "out")) \in Plain
      /\ Progress("out") \in Plain
  BY Operating DEF Kinds
<1>q. EventStep /\ UNCHANGED once
  BY DEF Streams, StreamChunk, Fail, Finish, EventStep, Quietly, closeVars, uiVars
<1>1. todo["stream"] \in Seq(Plain)
  BY <1>r, AtPlain, IdlePlain DEF Streams, StreamChunk, Fail, Finish, Closers
<1>2. CASE StreamChunk
  <2>1. /\ <<Do("fail")>> \in Seq(Plain) /\ <<Do("return")>> \in Seq(Plain)
        /\ <<Do("seal"), Progress("out")>> \in Seq(Plain)
        /\ (IF sent' = Chunks THEN <<Do("seal"), Do("finish")>> ELSE <<>>) \in Seq(Plain)
    BY <1>e, Lists, Operating
  <2>2. <<Do("seal"), Progress("out")>>
          \o (IF sent' = Chunks THEN <<Do("seal"), Do("finish")>> ELSE <<>>) \in Seq(Plain)
    BY <2>1, Lists
  <2>3. \E ops \in Seq(Plain) : Goes("stream", ops)
    BY <1>2, <2>1, <2>2 DEF StreamChunk
  <2> QED BY <2>3, <1>r, <1>q, <1>1 DEF Effect, TodoStep, Takes
<1>3. CASE Fail
  <2>1. /\ (IF outbound = "failed" THEN <<>> ELSE <<Emitting(Event("failed", "out"))>>) \in Seq(Plain)
        /\ <<Do("return")>> \in Seq(Plain)
    BY <1>e, Lists, Operating
  <2>2. (IF outbound = "failed" THEN <<>> ELSE <<Emitting(Event("failed", "out"))>>)
          \o <<Do("return")>> \in Seq(Plain)
    BY <2>1, Lists
  <2> QED BY <1>3, <2>2, <1>r, <1>q, <1>1 DEF Fail, Effect, TodoStep, Takes
<1>4. CASE Finish
  <2>1. <<Emitting(Event("complete", "out")), Do("return")>> \in Seq(Plain)
    BY <1>e, Lists, Operating
  <2> QED BY <1>4, <2>1, <1>r, <1>q, <1>1 DEF Finish, Effect, TodoStep, Takes
<1> QED BY <1>2, <1>3, <1>4 DEF Streams

LEMMA TimerEffect == ASSUME TodoInv, ReceiveStall \/ ConnectionLost PROVE Effect
<1>1. CASE ReceiveStall
  <2>1. "timer" \in Goroutines /\ todo["timer"] \in Seq(Plain) /\ <<Do("abort")>> \in Seq(Plain)
    BY <1>1, IdlePlain, Lists, Operating DEF ReceiveStall, Goroutines
  <2> QED
    BY <1>1, <2>1 DEF ReceiveStall, Effect, TodoStep, Takes, EventStep, Quietly, closeVars, uiVars
<1>2. CASE ConnectionLost
  BY <1>2 DEF ConnectionLost, Effect, TodoStep, EventStep, Quietly, uiVars
<1> QED BY <1>1, <1>2

LEMMA InterfaceEffect ==
    ASSUME TodoInv, Commands \/ Press \/ Quit
    PROVE  Effect
<1>r. "ui" \in Goroutines
  BY DEF Goroutines
<1>e. /\ Emitting(Event("failed", "in")) \in Plain /\ Emitting(Event("started", "in")) \in Plain
      /\ Sealing(Event("started", "in")) \in Plain /\ Emitting(Note) \in Plain
  BY Operating DEF Kinds, Note
<1>1. CASE Press
  <2>1. todo["ui"] \in Seq(Plain)
    BY <1>1, <1>r, IdlePlain DEF Press
  <2>2. /\ <<Do("write")>> \in Seq(Plain) /\ <<Do("write"), Emitting(Note)>> \in Seq(Plain)
        /\ <<Do("accept")>> \in Seq(Plain)
        /\ <<Do("seal"), Emitting(Event("failed", "in")), Do("declined")>> \in Seq(Plain)
    BY <1>e, Lists, Operating
  <2>3. \E ops \in Seq(Plain) : Goes("ui", ops)
    BY <1>1, <2>2 DEF Press
  <2> QED
    BY <1>1, <2>1, <2>3, <1>r DEF Press, Effect, TodoStep, Takes, EventStep, Quietly, closeVars, uiVars
<1>2. CASE Quit
  <2>1. todo["ui"] \in Seq(Plain) /\ <<Do("close"), Do("return")>> \in Seq(Plain)
    BY <1>2, <1>r, IdlePlain, Lists, Operating DEF Quit
  <2> QED
    BY <1>2, <2>1, <1>r DEF Quit, Effect, TodoStep, Takes, EventStep, Quietly, closeVars
<1>3. CASE AcceptTransfer
  <2>1. todo["ui"] \in Seq(Plain)
    BY <1>3, <1>r, AtPlain DEF AcceptTransfer, Closers
  <2>2. /\ <<Sealing(Event("started", "in")), Emitting(Event("started", "in")), Do("accepted")>> \in Seq(Plain)
        /\ <<>> \in Seq(Plain)
    BY <1>e, Lists, Operating
  <2>3. \E ops \in Seq(Plain) : Goes("ui", ops)
    BY <1>3, <2>2 DEF AcceptTransfer
  <2> QED
    BY <1>3, <2>1, <2>3, <1>r DEF AcceptTransfer, Effect, TodoStep, Takes, EventStep, Quietly,
       closeVars, uiVars
<1>4. CASE Answered
  <2>1. todo["ui"] \in Seq(Plain) /\ <<>> \in Seq(Plain)
    BY <1>4, <1>r, AtPlain, Lists DEF Answered, Closers
  <2>2. view'.gone = view.gone
    BY <1>4 DEF Answered
  <2> QED
    BY <1>4, <2>1, <2>2, <1>r DEF Answered, Effect, TodoStep, Takes, EventStep, Quietly, closeVars
<1>5. CASE Close
  <2>1. todo["ui"] \in Seq(Plain) /\ Rest("ui") \in Seq(Plain)
    BY <1>5, <1>r, AtPlain DEF Close, Closers
  <2> QED
    BY <1>5, <2>1, <1>r DEF Close, Effect, TodoStep, Takes, EventStep, Quietly, uiVars
<1>6. CASE HangUp
  <2>1. At("ui", "hangup")
    BY <1>6 DEF HangUp
  <2>2. todo["ui"] \notin Seq(Plain)
    BY <2>1, Lists DEF At, Plain, Closers
  <2>3. todo["ui"] # Reporting /\ todo["ui"] # <<Do("cancel")>>
    BY <2>1 DEF At, Do, Reporting
  <2>4. once = "ui" /\ \E ops \in Seq(Plain) : todo["ui"] = <<Do("hangup")>> \o ops
    BY <2>2, <2>3, <1>r DEF TodoInv, InOnce
  <2>5. Rest("ui") \in Seq(Plain)
    <3>1. PICK ops \in Seq(Plain) : todo["ui"] = <<Do("hangup")>> \o ops
      BY <2>4
    <3>2. Tail(<<Do("hangup")>> \o ops) = ops
      OBVIOUS
    <3> QED BY <3>1, <3>2 DEF Rest
  <2> QED
    BY <1>6, <2>4, <2>5 DEF HangUp, Effect, TodoStep, EventStep, Quietly, uiVars
<1> QED BY <1>1, <1>2, <1>3, <1>4, <1>5, <1>6 DEF Commands

\* Every step has one of the effects of TodoStep and one of those of EventStep.
LEMMA StepEffect == ASSUME TodoInv, [Next]_vars PROVE Effect
<1>1. ASSUME NEW g \in Goroutines, Step(g) PROVE Effect
  BY <1>1, EmitEffect, SealEffect, CloseOnceEffect, AbortEffect DEF Step
<1>2. CASE Reads \/ Writes \/ Streams \/ Commands \/ Press \/ Quit
  BY <1>2, ReadEffect, WriterEffect, StreamEffect, InterfaceEffect
<1>3. CASE Listen \/ Update
  BY <1>3 DEF Listen, Update, Effect, TodoStep, EventStep, closeVars
<1>4. CASE ReceiveStall \/ ConnectionLost
  BY <1>4, TimerEffect
<1>5. CASE UNCHANGED vars
  BY <1>5 DEF vars, closeVars, uiVars, Effect, TodoStep, EventStep, Quietly
<1> QED BY <1>1, <1>2, <1>3, <1>4, <1>5 DEF Next

-----------------------------------------------------------------------------
(* The order of the events. *)

Numbered == [kind : Kinds, of : {"in", "out", "none"}, n : Nat]

\* At most one event is on its way between the channel and Update, and the
\* numbers go on from what was folded in through it to the channel's end.
Carried == IF held = {} THEN 0 ELSE 1
OrderInv ==
    /\ emitted \in Nat /\ handled \in Nat /\ armed \in {0, 1}
    /\ events \in Seq(Numbered) /\ Len(events) <= EventBuffer
    /\ \/ held = {}
       \/ armed = 0 /\ \E e \in Numbered : held = {e} /\ e.n = handled + 1
    /\ \A i \in 1..Len(events) : events[i].n = handled + Carried + i
    /\ emitted = handled + Carried + Len(events)

LEMMA OrderInit == Init => OrderInv
<1> SUFFICES ASSUME Init PROVE OrderInv
  OBVIOUS
<1>1. events = <<>> /\ emitted = 0 /\ armed = 1 /\ held = {} /\ handled = 0
  BY DEF Init
<1> QED BY <1>1, PumpAssumption DEF OrderInv, Carried

LEMMA PutKeepsOrder ==
    ASSUME OrderInv, NEW e \in Events, Room, Put(e), UNCHANGED <<armed, held, handled>>
    PROVE  OrderInv'
<1> DEFINE x == [kind |-> e.kind, of |-> e.of, n |-> emitted + 1]
<1>1. x \in Numbered /\ x.n = emitted + 1
  BY DEF OrderInv, Events, Numbered
<1>2. events' = Append(events, x) /\ emitted' = emitted + 1
  BY DEF Put
<1> HIDE DEF x
<1>3. /\ events' \in Seq(Numbered) /\ Len(events') = Len(events) + 1
      /\ \A i \in 1..Len(events') : events'[i] = IF i <= Len(events) THEN events[i] ELSE x
  BY <1>1, <1>2 DEF OrderInv
<1>4. Carried' = Carried /\ Carried \in {0, 1} /\ Len(events) \in Nat
  BY DEF Carried, OrderInv
<1>5. \A i \in 1..Len(events') : events'[i].n = handled + Carried + i
  <2> SUFFICES ASSUME NEW i \in 1..Len(events') PROVE events'[i].n = handled + Carried + i
    OBVIOUS
  <2>1. CASE i <= Len(events)
    <3>1. events'[i] = events[i] /\ i \in 1..Len(events)
      BY <2>1, <1>3, <1>4
    <3>2. events[i].n = handled + Carried + i
      BY <3>1 DEF OrderInv
    <3> QED BY <3>1, <3>2
  <2>2. CASE i = Len(events) + 1
    <3>1. events'[i] = x
      BY <2>2, <1>3, <1>4
    <3>2. emitted = handled + Carried + Len(events) /\ handled \in Nat
      BY DEF OrderInv
    <3> QED BY <3>1, <3>2, <2>2, <1>1, <1>4
  <2> QED BY <2>1, <2>2, <1>3, <1>4
<1>6. Len(events') <= EventBuffer
  BY <1>3, <1>4, PumpAssumption DEF Room, OrderInv
<1>7. emitted \in Nat /\ handled \in Nat /\ emitted = handled + Carried + Len(events)
  BY DEF OrderInv
<1>8. emitted' \in Nat /\ emitted' = handled + Carried + Len(events')
  BY <1>2, <1>3, <1>4, <1>7
<1>9. /\ armed \in {0, 1}
      /\ \/ held = {}
         \/ armed = 0 /\ \E e1 \in Numbered : held = {e1} /\ e1.n = handled + 1
  BY DEF OrderInv
<1> QED BY <1>3, <1>4, <1>5, <1>6, <1>7, <1>8, <1>9 DEF OrderInv

LEMMA ListenKeepsOrder == ASSUME OrderInv, Listen PROVE OrderInv'
<1>1. held = {} /\ armed = 1 /\ armed' = 0 /\ handled' = handled /\ emitted' = emitted
  BY DEF OrderInv, Listen
<1>2. /\ Head(events) \in Numbered /\ Head(events) = events[1]
      /\ events' \in Seq(Numbered) /\ Len(events') = Len(events) - 1 /\ Len(events) \in Nat \ {0}
      /\ \A i \in 1..Len(events') : events'[i] = events[i + 1]
  <2>1. events # <<>> /\ events \in Seq(Numbered) /\ events' = Tail(events)
    BY DEF OrderInv, Listen
  <2> QED BY <2>1, HeadTailProperties
<1>3. held' = {Head(events)}
  BY <1>1 DEF Listen
<1>4. Carried = 0 /\ Carried' = 1
  BY <1>1, <1>3 DEF Carried
<1>5. Head(events).n = handled + 1
  BY <1>2, <1>4 DEF OrderInv
<1>6. \A i \in 1..Len(events') : events'[i].n = handled + 1 + i
  <2> SUFFICES ASSUME NEW i \in 1..Len(events') PROVE events'[i].n = handled + 1 + i
    OBVIOUS
  <2>1. i + 1 \in 1..Len(events) /\ events'[i] = events[i + 1]
    BY <1>2
  <2>2. events[i + 1].n = handled + 0 + (i + 1)
    BY <2>1, <1>4 DEF OrderInv
  <2> QED BY <2>1, <2>2, <1>2 DEF OrderInv
<1>7. Len(events') <= EventBuffer /\ emitted = handled + 1 + Len(events')
  BY <1>2, <1>4, PumpAssumption DEF OrderInv
<1> QED BY <1>1, <1>2, <1>3, <1>4, <1>5, <1>6, <1>7 DEF OrderInv

LEMMA UpdateKeepsOrder ==
    ASSUME OrderInv, Update
    PROVE  OrderInv' /\ handled' = handled + 1
<1>1. PICK e \in held : held' = held \ {e} /\ handled' = e.n /\ armed' = armed + Listeners(e)
  BY DEF Update
<1>2. held = {e} /\ e.n = handled + 1 /\ armed = 0
  BY <1>1 DEF OrderInv
<1>3. held' = {} /\ handled' = handled + 1 /\ armed' \in {0, 1}
  BY <1>1, <1>2 DEF Listeners
<1>4. Carried = 1 /\ Carried' = 0
  BY <1>2, <1>3 DEF Carried
<1>5. UNCHANGED <<events, emitted>>
  BY DEF Update
<1> QED BY <1>3, <1>4, <1>5 DEF OrderInv

LEMMA OrderPreserved == ASSUME OrderInv, EventStep PROVE OrderInv'
<1>1. CASE Quietly
  BY <1>1 DEF Quietly, OrderInv, Carried
<1>2. CASE \E e \in Events : Room /\ Put(e) /\ UNCHANGED <<armed, held, handled>>
  BY <1>2, PutKeepsOrder
<1>3. Disconnected \in Events
  BY DEF Disconnected, Event, Events, Kinds
<1> QED BY <1>1, <1>2, <1>3, ListenKeepsOrder, UpdateKeepsOrder DEF EventStep

LEMMA TodoInit == Init => TodoInv
<1> SUFFICES ASSUME Init PROVE TodoInv
  OBVIOUS
<1>1. todo = [g \in Goroutines |-> <<>>] /\ once = "free"
  BY DEF Init
<1> QED BY <1>1, Lists DEF TodoInv

LEMMA Inductive == Spec => [](TodoInv /\ OrderInv)
<1>1. TodoInv /\ OrderInv /\ [Next]_vars => (TodoInv /\ OrderInv)'
  BY StepEffect, TodoPreserved, OrderPreserved DEF Effect
<1> QED BY <1>1, TodoInit, OrderInit, PTL DEF Spec

\* waitForEvent and Update keep the order in which the events entered the
\* channel, and skip none, however large the channel and many the emitters.
THEOREM InOrder == Spec => EventsInOrder
<1>1. TodoInv /\ OrderInv /\ [Next]_vars => [handled' # handled => handled' = handled + 1]_vars
  <2> SUFFICES ASSUME TodoInv, OrderInv, [Next]_vars, handled' # handled
               PROVE  handled' = handled + 1
    OBVIOUS
  <2>1. EventStep
    BY StepEffect DEF Effect
  <2>2. Update
    BY <2>1 DEF EventStep, Quietly, Listen
  <2> QED BY <2>2, UpdateKeepsOrder
<1> QED BY <1>1, Inductive, PTL DEF Spec, EventsInOrder

-----------------------------------------------------------------------------
(* The events on their way. *)

Way == held \cup {events[i] : i \in 1..Len(events)}

\* A new event has the highest number.
LEMMA WayPut ==
    ASSUME OrderInv, NEW e \in Events, Put(e), UNCHANGED held
    PROVE  \E x : /\ x.kind = e.kind /\ x.of = e.of
                  /\ Way' = Way \cup {x}
                  /\ \A y \in Way : x.n > y.n
<1> DEFINE x == [kind |-> e.kind, of |-> e.of, n |-> emitted + 1]
<1>1. x.kind = e.kind /\ x.of = e.of /\ x.n = emitted + 1
  OBVIOUS
<1>2. events' = Append(events, x)
  BY DEF Put
<1> HIDE DEF x
<1>3. {events'[i] : i \in 1..Len(events')} = {events[i] : i \in 1..Len(events)} \cup {x}
  <2>1. /\ Len(events') = Len(events) + 1 /\ Len(events) \in Nat
        /\ \A i \in 1..Len(events') : events'[i] = IF i <= Len(events) THEN events[i] ELSE x
    BY <1>2 DEF OrderInv
  <2> QED BY <2>1
<1>4. ASSUME NEW y \in Way PROVE x.n > y.n
  <2>1. handled \in Nat /\ Len(events) \in Nat /\ emitted = handled + Carried + Len(events)
    BY DEF OrderInv
  <2>2. CASE y \in held
    <3>1. y.n = handled + 1 /\ Carried = 1
      BY <2>2 DEF OrderInv, Carried
    <3> QED BY <3>1, <2>1, <1>1
  <2>3. CASE y \notin held
    <3>1. PICK i \in 1..Len(events) : y = events[i]
      BY <2>3 DEF Way
    <3>2. y.n = handled + Carried + i /\ Carried \in {0, 1}
      BY <3>1 DEF OrderInv, Carried
    <3> QED BY <3>1, <3>2, <2>1, <1>1
  <2> QED BY <2>2, <2>3
<1> QED BY <1>1, <1>3, <1>4 DEF Way

LEMMA WayListen == ASSUME OrderInv, Listen PROVE Way' = Way
<1>1. events # <<>> /\ events \in Seq(Numbered) /\ events' = Tail(events)
  BY DEF OrderInv, Listen
<1>2. /\ Head(events) = events[1]
      /\ Len(events') = Len(events) - 1 /\ Len(events) \in Nat \ {0}
      /\ \A i \in 1..Len(events') : events'[i] = events[i + 1]
  BY <1>1, HeadTailProperties
<1>3. {events[i] : i \in 1..Len(events)} = {Head(events)} \cup {events'[i] : i \in 1..Len(events')}
  <2>1. \A i \in 1..Len(events) : i = 1 \/ (i - 1 \in 1..Len(events') /\ events[i] = events'[i - 1])
    BY <1>2
  <2>2. \A i \in 1..Len(events') : i + 1 \in 1..Len(events)
    BY <1>2
  <2> QED BY <1>2, <2>1, <2>2
<1>4. held' = held \cup {Head(events)}
  BY DEF Listen
<1> QED BY <1>3, <1>4 DEF Way

\* Update takes the one with the lowest.
LEMMA WayUpdate ==
    ASSUME OrderInv, Update
    PROVE  \E e \in Numbered \cap Way : /\ Way' = Way \ {e} /\ view' = Shown(e)
                                        /\ \A y \in Way \ {e} : y.n > e.n
<1>1. PICK e \in held : held' = held \ {e} /\ view' = Shown(e)
  BY DEF Update
<1>2. held = {e} /\ e \in Numbered /\ e.n = handled + 1 /\ handled \in Nat
  BY <1>1 DEF OrderInv
<1>3. \A i \in 1..Len(events) : events[i].n > e.n
  BY <1>2 DEF OrderInv, Carried
<1>4. UNCHANGED events
  BY DEF Update
<1>5. \A y \in Way \ {e} : y.n > e.n
  BY <1>2, <1>3 DEF Way
<1>6. \A i \in 1..Len(events) : events[i] # e
  BY <1>2, <1>3
<1>7. Way' = Way \ {e} /\ e \in Way
  BY <1>1, <1>2, <1>4, <1>6 DEF Way
<1> QED BY <1>1, <1>2, <1>5, <1>7

-----------------------------------------------------------------------------
(* The one report of the end. *)

Views == [in : {"none", "offered", "active", "failed", "done"},
          out : {"none", "active", "failed", "done"},
          offer : BOOLEAN, gone : BOOLEAN]

LEMMA ViewInit == Init => view \in Views
<1> SUFFICES ASSUME Init PROVE view \in Views
  OBVIOUS
<1>1. PICK s \in Starts : view = [in |-> IF "in" \in s.going THEN "active" ELSE "none",
                                    out |-> IF "out" \in s.going THEN "active" ELSE "none",
                                    offer |-> FALSE, gone |-> FALSE]
  BY DEF Init
<1> QED BY <1>1 DEF Views

LEMMA Showing ==
    ASSUME view \in Views, NEW e \in Numbered
    PROVE  /\ Shown(e) \in Views
           /\ Shown(e).gone = (view.gone \/ e.kind = "disconnected")
BY DEF Shown, Views, Numbered, Kinds

LEMMA ViewPreserved ==
    ASSUME view \in Views, OrderInv, [Next]_vars
    PROVE  view' \in Views
<1>1. CASE Update
  <2>1. PICK e \in held : view' = Shown(e)
    BY <1>1 DEF Update
  <2>2. e \in Numbered
    BY <2>1 DEF OrderInv
  <2> QED BY <2>1, <2>2, Showing
<1>2. CASE Answered
  BY <1>2 DEF Answered, Views
<1>3. CASE \E g \in Goroutines : Step(g)
  BY <1>3 DEF Step, Emit, EmitProgress, Write, SealAndSend, AbortInbound, Shutdown, Report, Cancel,
     Return, uiVars
<1>4. CASE Reads \/ Writes \/ Streams
  BY <1>4 DEF Reads, Writes, Streams, ReadFrame, ReadFails, TakeChunk, TakeEnd, Collect,
     FailOutbound, WriteFrame, WriterStops, StreamChunk, Fail, Finish, uiVars
<1>5. CASE AcceptTransfer \/ Close \/ HangUp \/ Listen \/ Press \/ Quit
  BY <1>5 DEF AcceptTransfer, Close, HangUp, Listen, Press, Quit, uiVars
<1>6. CASE ReceiveStall \/ ConnectionLost \/ UNCHANGED vars
  BY <1>6 DEF ReceiveStall, ConnectionLost, vars, uiVars
<1> QED BY <1>1, <1>2, <1>3, <1>4, <1>5, <1>6 DEF Next, Commands

\* Nobody has come to the report in shutdown.
Unreported == once = "free" \/ \E g \in Goroutines : todo[g] = Reporting

ReportInv ==
    /\ Unreported => Terminal = {} /\ ~ view.gone
    /\ \A x, y \in Terminal : x = y
    /\ view.gone => Terminal = {}

LEMMA UnreportedBefore ==
    ASSUME TodoInv, TodoStep, Unreported'
    PROVE  Unreported
<1> USE DEF TodoInv, Goes, Unreported
<1>r. /\ Reporting \notin Seq(Plain) /\ <<Do("cancel")>> # Reporting /\ <<>> # Reporting
      /\ \A ops \in Seq(Plain) : <<Do("hangup")>> \o ops # Reporting
  <2>1. Reporting \notin Seq(Plain)
    <3>1. Reporting # <<>> /\ Head(Reporting).op = "report"
      BY DEF Reporting, Do
    <3> QED BY <3>1, Lists DEF Plain, Closers
  <2>2. ASSUME NEW ops \in Seq(Plain) PROVE <<Do("hangup")>> \o ops # Reporting
    <3>1. (<<Do("hangup")>> \o ops)[1] = Do("hangup")
      OBVIOUS
    <3>2. Reporting[1] = Do("report") /\ Do("report") # Do("hangup")
      BY DEF Reporting, Do
    <3> QED BY <3>1, <3>2
  <2>3. <<Do("cancel")>> # Reporting /\ <<>> # Reporting
    BY DEF Reporting, Do
  <2> QED BY <2>1, <2>2, <2>3
<1>g. "ui" \in Goroutines /\ "shut" # "free" /\ "closed" # "free"
  BY DEF Goroutines
<1>1. CASE UNCHANGED <<todo, once>>
  BY <1>1
<1>2. CASE \E g \in Goroutines : \E ops \in Seq(Plain) : Takes(g, ops)
  BY <1>2, <1>r DEF Takes
<1>3. CASE once = "free"
  BY <1>3
<1>4. ASSUME NEW g \in Goroutines, once = g, Goes(g, <<Do("cancel")>>), UNCHANGED once PROVE Unreported
  BY <1>4, <1>r
<1>5. ASSUME NEW g \in Goroutines, once = g, once' = "shut", Goes(g, <<>>) PROVE Unreported
  BY <1>5, <1>r, <1>g
<1>6. ASSUME NEW ops \in Seq(Plain), once = "ui", once' = "closed", Goes("ui", ops) PROVE Unreported
  BY <1>6, <1>r, <1>g
<1> QED BY <1>1, <1>2, <1>3, <1>4, <1>5, <1>6 DEF TodoStep

\* Reporting is over with the report.
LEMMA ReportedAfter ==
    ASSUME TodoInv, NEW g \in Goroutines, todo[g] = Reporting, once = g,
           Goes(g, <<Do("cancel")>>), UNCHANGED once
    PROVE  Unreported /\ ~ Unreported'
<1>1. <<Do("cancel")>> # Reporting /\ Reporting \notin Seq(Plain)
  <2>1. Reporting # <<>> /\ Head(Reporting).op = "report"
    BY DEF Reporting, Do
  <2> QED BY <2>1, Lists DEF Plain, Closers, Reporting, Do
<1>2. \A h \in Goroutines : h # g => todo[h] # Reporting
  BY <1>1 DEF TodoInv, InOnce
<1>3. \A h \in Goroutines : todo'[h] # Reporting
  BY <1>1, <1>2 DEF Goes, TodoInv
<1>4. once # "free"
  BY DEF Goroutines
<1> QED BY <1>3, <1>4 DEF Unreported

LEMMA TerminalWay == Terminal = {e \in Way : e.kind = "disconnected"}
BY DEF Terminal, Way

LEMMA TerminalPut ==
    ASSUME OrderInv, NEW e \in Events, Put(e), UNCHANGED held
    PROVE  \E x : /\ x.kind = e.kind
                  /\ Terminal' = Terminal \cup (IF e.kind = "disconnected" THEN {x} ELSE {})
<1>1. PICK x : x.kind = e.kind /\ Way' = Way \cup {x}
  BY WayPut
<1>2. Terminal' = Terminal \cup {y \in {x} : y.kind = "disconnected"}
  BY <1>1, TerminalWay DEF Terminal, Way
<1> QED BY <1>1, <1>2

LEMMA TerminalUpdate ==
    ASSUME OrderInv, view \in Views, Update
    PROVE  \E e \in Numbered : /\ Terminal' = Terminal \ {e}
                               /\ e.kind = "disconnected" => e \in Terminal
                               /\ view'.gone = (view.gone \/ e.kind = "disconnected")
<1>1. PICK e \in Numbered \cap Way : Way' = Way \ {e} /\ view' = Shown(e)
  BY WayUpdate
<1>2. Terminal' = Terminal \ {e}
  BY <1>1, TerminalWay DEF Terminal, Way
<1> QED BY <1>1, <1>2, TerminalWay, Showing

LEMMA ReportInit == Init => ReportInv
<1> SUFFICES ASSUME Init PROVE ReportInv
  OBVIOUS
<1>1. Terminal = {}
  BY DEF Init, Terminal
<1>2. view.gone = FALSE
  BY DEF Init
<1> QED BY <1>1, <1>2 DEF ReportInv

LEMMA ReportPreserved ==
    ASSUME TodoInv, OrderInv, view \in Views, ReportInv, Effect
    PROVE  ReportInv'
<1>1. Unreported' => Unreported
  BY UnreportedBefore DEF Effect
<1>2. CASE Quietly
  <2>1. Terminal' = Terminal
    BY <1>2 DEF Quietly, Terminal
  <2> QED BY <2>1, <1>1, <1>2 DEF ReportInv, Quietly
<1>3. ASSUME NEW e \in Events, e.kind # "disconnected", Put(e), UNCHANGED <<held, view>>
      PROVE  ReportInv'
  <2>1. Terminal' = Terminal
    BY <1>3, TerminalPut
  <2> QED BY <2>1, <1>1, <1>3 DEF ReportInv
<1>4. ASSUME NEW g \in Goroutines, todo[g] = Reporting, once = g, Goes(g, <<Do("cancel")>>),
             UNCHANGED once, Put(Disconnected), UNCHANGED <<held, view>>
      PROVE  ReportInv'
  <2>1. Disconnected \in Events /\ Disconnected.kind = "disconnected"
    BY DEF Disconnected, Event, Events, Kinds
  <2>2. PICK x : Terminal' = Terminal \cup {x}
    BY <1>4, <2>1, TerminalPut
  <2>3. Unreported /\ ~ Unreported'
    BY <1>4, ReportedAfter
  <2>4. Terminal = {} /\ ~ view.gone
    BY <2>3 DEF ReportInv
  <2> QED BY <2>2, <2>3, <2>4, <1>4 DEF ReportInv
<1>5. CASE Listen
  <2>1. Terminal' = Terminal /\ UNCHANGED view
    BY <1>5, WayListen DEF Listen, Terminal, Way
  <2> QED BY <2>1, <1>1 DEF ReportInv
<1>6. CASE Update
  <2>1. PICK e \in Numbered : /\ Terminal' = Terminal \ {e}
                              /\ e.kind = "disconnected" => e \in Terminal
                              /\ view'.gone = (view.gone \/ e.kind = "disconnected")
    BY <1>6, TerminalUpdate
  <2>2. CASE e.kind = "disconnected"
    <3>1. Terminal = {e} /\ ~ Unreported
      BY <2>1, <2>2 DEF ReportInv
    <3> QED BY <2>1, <3>1, <1>1 DEF ReportInv
  <2>3. CASE e.kind # "disconnected"
    BY <2>1, <2>3, <1>1 DEF ReportInv
  <2> QED BY <2>2, <2>3
<1> QED BY <1>2, <1>3, <1>4, <1>5, <1>6 DEF Effect, EventStep

LEMMA Reports == Spec => [](view \in Views /\ ReportInv)
<1>1. TodoInv /\ OrderInv /\ view \in Views /\ ReportInv /\ [Next]_vars
        => (view \in Views /\ ReportInv)'
  BY StepEffect, ViewPreserved, ReportPreserved
<1> QED BY <1>1, ViewInit, ReportInit, Inductive, PTL DEF Spec

\* closeOnce lets one of read loop, write loop and Close report, and the
\* interface that has been told is not told again.
THEOREM ReportedOnce == Spec => []DisconnectedOnce
<1>1. view \in Views /\ ReportInv => DisconnectedOnce
  <2> SUFFICES ASSUME view \in Views, ReportInv PROVE DisconnectedOnce
    OBVIOUS
  <2>1. CASE Terminal = {}
    BY <2>1, FS_EmptySet DEF DisconnectedOnce
  <2>2. CASE Terminal # {}
    <3>1. PICK x : Terminal = {x}
      BY <2>2 DEF ReportInv
    <3>2. Cardinality(Terminal) = 1 /\ ~ view.gone
      BY <3>1, <2>2, FS_Singleton DEF ReportInv
    <3> QED BY <3>2 DEF DisconnectedOnce
  <2> QED BY <2>1, <2>2
<1> QED BY <1>1, Reports, PTL

-----------------------------------------------------------------------------
(* The mutex of the transfer, and the rest of the type invariant. *)

MutexInv == itMu # "nobody" => itMu \in Goroutines /\ At(itMu, "emit")

\* One goroutine acts, or none; it does not have the mutex, or gives it back,
\* or takes it and is about to emit.
MutexStep ==
    \/ UNCHANGED <<itMu, todo, ended>>
    \/ \E g \in Goroutines :
         /\ \A h \in Goroutines \ {g} : todo'[h] = todo[h]
         /\ ended' \subseteq ended \cup {g}
         /\ \/ UNCHANGED itMu /\ ~ At(g, "emit")
            \/ itMu' = IF itMu = g THEN "nobody" ELSE itMu
            \/ itMu' = g /\ At(g, "emit")'

LEMMA MutexPreserved == ASSUME MutexInv, MutexStep PROVE MutexInv'
BY DEF MutexInv, MutexStep, At, Goroutines

LEMMA Others ==
    ASSUME TodoInv, NEW g \in Goroutines, NEW ops, Goes(g, ops)
    PROVE  todo'[g] = ops /\ \A h \in Goroutines \ {g} : todo'[h] = todo[h]
BY DEF TodoInv, Goes

LEMMA TakesMutex ==
    ASSUME TodoInv, NEW g \in Goroutines, NEW e, NEW rest \in Seq(Plain), g \notin ended,
           UNCHANGED ended, itMu' = g, Goes(g, <<Emitting(e)>> \o rest)
    PROVE  MutexStep
<1>1. todo'[g] = <<Emitting(e)>> \o rest
  BY Others
<1>2. todo'[g] # <<>> /\ Head(todo'[g]) = Emitting(e)
  BY <1>1
<1>3. At(g, "emit")'
  BY <1>2 DEF At, Emitting
<1> QED BY <1>3, Others DEF MutexStep

\* Who is about to do something else, or nothing, does not have it.
LEMMA KeepsMutex ==
    ASSUME TodoInv, NEW g \in Goroutines, Idle(g) \/ (\E o : o # "emit" /\ At(g, o)),
           NEW ops, Goes(g, ops), UNCHANGED itMu, ended' \subseteq ended \cup {g}
    PROVE  MutexStep
<1>1. ~ At(g, "emit")
  BY DEF Idle, At
<1> QED BY <1>1, Others DEF MutexStep

LEMMA StepMutex ==
    ASSUME TodoInv, NEW g \in Goroutines, Step(g)
    PROVE  MutexStep
<1>1. CASE Emit(g)
  BY <1>1, Others DEF Emit, MutexStep
<1>2. CASE AbortInbound(g)
  <2>1. /\ g \notin ended /\ UNCHANGED ended /\ Rest(g) \in Seq(Plain)
        /\ \E o : o # "emit" /\ At(g, o)
    BY <1>2, AtPlain DEF AbortInbound, At, Closers
  <2>2. \/ itMu' = g /\ Goes(g, <<Emitting(Event("failed", "in"))>> \o Rest(g))
        \/ UNCHANGED itMu /\ Goes(g, Rest(g))
    BY <1>2 DEF AbortInbound, Aborts
  <2> QED BY <2>1, <2>2, TakesMutex, KeepsMutex
<1>3. CASE EmitProgress(g) \/ Write(g) \/ SealAndSend(g) \/ Shutdown(g) \/ Report(g) \/ Cancel(g)
           \/ Return(g)
  <2>1. \E o : o # "emit" /\ At(g, o)
    BY <1>3 DEF EmitProgress, Write, SealAndSend, Shutdown, Report, Cancel, Return
  <2>2. \E ops : Goes(g, ops)
    BY <1>3 DEF EmitProgress, Write, SealAndSend, Shutdown, Report, Cancel, Return
  <2>3. UNCHANGED itMu /\ ended' \subseteq ended \cup {g}
    BY <1>3 DEF EmitProgress, Write, SealAndSend, Shutdown, Report, Cancel, Return, clientVars
  <2> QED BY <2>1, <2>2, <2>3, KeepsMutex
<1> QED BY <1>1, <1>2, <1>3 DEF Step

LEMMA ReadMutex == ASSUME TodoInv, Reads PROVE MutexStep
<1>r. "reader" \in Goroutines /\ UNCHANGED ended /\ ended' \subseteq ended \cup {"reader"}
  BY DEF Goroutines, Reads, ReadFrame, ReadFails, TakeChunk, TakeEnd, Collect, FailOutbound
<1>i. "reader" \notin ended /\ (Idle("reader") \/ \E o : o # "emit" /\ At("reader", o))
  BY DEF Reads, ReadFrame, ReadFails, TakeChunk, TakeEnd, Collect, FailOutbound, Idle, At
<1>1. CASE ReadFrame \/ ReadFails \/ Collect \/ FailOutbound
  <2>1. \E ops : Goes("reader", ops)
    BY <1>1 DEF ReadFrame, ReadFails, Collect, FailOutbound
  <2>2. UNCHANGED itMu
    BY <1>1 DEF ReadFrame, ReadFails, Collect, FailOutbound, clientVars
  <2> QED BY <2>1, <2>2, <1>r, <1>i, KeepsMutex
<1>2. CASE TakeChunk
  <2>1. \/ UNCHANGED itMu /\ \E ops : Goes("reader", ops)
        \/ itMu' = "reader" /\ Goes("reader", <<Emitting(Event("failed", "in"))>> \o <<>>)
    BY <1>2 DEF TakeChunk, Aborts
  <2> QED BY <2>1, <1>r, <1>i, Lists, KeepsMutex, TakesMutex
<1>3. CASE TakeEnd
  <2>1. <<Emitting(Event("complete", "in"))>> = <<Emitting(Event("complete", "in"))>> \o <<>>
    OBVIOUS
  <2>2. \/ UNCHANGED itMu /\ \E ops : Goes("reader", ops)
        \/ itMu' = "reader" /\ Goes("reader", <<Emitting(Event("complete", "in"))>> \o <<>>)
        \/ itMu' = "reader" /\ Goes("reader", <<Emitting(Event("failed", "in"))>> \o <<>>)
    BY <1>3, <2>1 DEF TakeEnd, Aborts
  <2> QED BY <2>2, <1>r, <1>i, Lists, KeepsMutex, TakesMutex
<1> QED BY <1>1, <1>2, <1>3 DEF Reads

LEMMA LoopMutex ==
    ASSUME TodoInv, Writes \/ Streams \/ Commands \/ Press \/ Quit \/ ReceiveStall
    PROVE  MutexStep
<1>g. {"writer", "stream", "timer", "ui"} \subseteq Goroutines
  BY DEF Goroutines
<1>1. CASE Writes
  <2>1. /\ Idle("writer") /\ UNCHANGED itMu /\ ended' \subseteq ended \cup {"writer"}
        /\ UNCHANGED todo \/ \E ops : Goes("writer", ops)
    BY <1>1 DEF Writes, WriteFrame, WriterStops, clientVars
  <2>2. ~ At("writer", "emit")
    BY <2>1 DEF Idle, At
  <2> QED BY <2>1, <2>2, <1>g, KeepsMutex DEF MutexStep
<1>2. CASE Streams
  <2>1. /\ Idle("stream") \/ \E o : o # "emit" /\ At("stream", o)
        /\ UNCHANGED itMu /\ ended' \subseteq ended \cup {"stream"}
        /\ \E ops : Goes("stream", ops)
    BY <1>2 DEF Streams, StreamChunk, Fail, Finish
  <2> QED BY <2>1, <1>g, KeepsMutex
<1>3. CASE Commands \/ Press \/ Quit
  <2>1. Idle("ui") \/ \E o : o # "emit" /\ At("ui", o)
    BY <1>3 DEF Commands, AcceptTransfer, Answered, Close, HangUp, Press, Quit
  <2>2. UNCHANGED itMu /\ ended' \subseteq ended \cup {"ui"}
    BY <1>3 DEF Commands, AcceptTransfer, Answered, Close, HangUp, Press, Quit, clientVars
  <2>3. \E ops : Goes("ui", ops)
    BY <1>3 DEF Commands, AcceptTransfer, Answered, Close, HangUp, Press, Quit
  <2> QED BY <2>1, <2>2, <2>3, <1>g, KeepsMutex
<1>4. CASE ReceiveStall
  BY <1>4, <1>g, KeepsMutex DEF ReceiveStall, clientVars
<1> QED BY <1>1, <1>2, <1>3, <1>4

LEMMA MutexNext == ASSUME TodoInv, MutexInv, [Next]_vars PROVE MutexInv'
<1>1. CASE Listen \/ Update \/ ConnectionLost \/ UNCHANGED vars
  BY <1>1 DEF Listen, Update, ConnectionLost, vars, clientVars, MutexStep, MutexInv, At
<1>2. MutexStep \/ Listen \/ Update \/ ConnectionLost \/ UNCHANGED vars
  BY StepMutex, ReadMutex, LoopMutex DEF Next
<1> QED BY <1>1, <1>2, MutexPreserved

\* The variables that only count, or name a state.
Counters ==
    /\ ended \subseteq Goroutines /\ writeCh \in 0..WriteBuffer
    /\ inbound \in {"none", "offered", "streaming", "failed", "done"}
    /\ outbound \in {"none", "streaming", "failed", "done"}

LEMMA CountersInit == Init => Counters
<1> SUFFICES ASSUME Init PROVE Counters
  OBVIOUS
<1>1. PICK s \in Starts : /\ writeCh = 0
                            /\ inbound = (IF "in" \in s.going THEN "streaming" ELSE "none")
                            /\ outbound = (IF "out" \in s.going THEN "streaming" ELSE "none")
                            /\ ended = (IF "out" \in s.going THEN {} ELSE {"stream"})
  BY DEF Init
<1> QED BY <1>1, PumpAssumption DEF Counters, Goroutines

LEMMA CountersNext == ASSUME Counters, [Next]_vars PROVE Counters'
<1> USE PumpAssumption DEF Counters, clientVars
<1>1. ASSUME NEW g \in Goroutines, Step(g) PROVE Counters'
  BY <1>1 DEF Step, Emit, EmitProgress, Write, SealAndSend, AbortInbound, Aborts, Shutdown, Report,
     Cancel, Return
<1>2. CASE Reads
  BY <1>2 DEF Reads, ReadFrame, ReadFails, TakeChunk, TakeEnd, Collect, FailOutbound, Aborts
<1>3. CASE Writes \/ Streams
  <2>1. CASE WriteFrame
    BY <2>1 DEF WriteFrame
  <2>2. CASE WriterStops
    BY <2>2 DEF WriterStops, Goroutines
  <2>3. CASE StreamChunk
    BY <2>3 DEF StreamChunk
  <2>4. CASE Fail \/ Finish
    BY <2>4 DEF Fail, Finish
  <2> QED BY <1>3, <2>1, <2>2, <2>3, <2>4 DEF Writes, Streams
<1>4. CASE Commands \/ Press \/ Quit \/ Listen \/ Update
  BY <1>4 DEF Commands, AcceptTransfer, Answered, Close, HangUp, Press, Quit, Listen, Update
<1>5. CASE ReceiveStall \/ ConnectionLost \/ UNCHANGED vars
  BY <1>5 DEF ReceiveStall, ConnectionLost, vars
<1> QED BY <1>1, <1>2, <1>3, <1>4, <1>5 DEF Next

\* The state keeps its shape, no handler emits Disconnected, and whoever has
\* the mutex of the transfer is about to emit and to give it back.
THEOREM TypeCorrect == Spec => []TypeOK
<1>1. TodoInv /\ MutexInv /\ Counters /\ [Next]_vars => (MutexInv /\ Counters)'
  BY MutexNext, CountersNext
<1>2. Init => MutexInv /\ Counters
  BY CountersInit DEF Init, MutexInv
<1>3. Spec => [](MutexInv /\ Counters)
  BY <1>1, <1>2, Inductive, PTL DEF Spec
<1>4. TodoInv /\ OrderInv /\ view \in Views /\ MutexInv /\ Counters => TypeOK
  BY DEF TodoInv, OrderInv, Views, MutexInv, Counters, TypeOK, Numbered
<1> QED BY <1>3, <1>4, Inductive, Reports, PTL

-----------------------------------------------------------------------------
(* The offer in front of the user. *)

\* The offers the interface has not folded in yet, and the reports that the
\* inbound transfer failed.
Offers == {e \in Way : e.kind = "offer"}
IsFail(e) == e.kind = "failed" /\ e.of = "in"

FailIn  == Emitting(Event("failed", "in"))
FailOut == Emitting(Event("failed", "out"))
OfferIn == Emitting(Event("offer", "in"))
Began   == Emitting(Event("started", "in"))

\* The handlers in which the reader fails the transfers of a peer that left.
Leaves == {<<Do("collect"), Emitting(Note)>>, <<Do("failOut"), Do("abort"), Emitting(Note)>>,
           <<FailOut, Do("abort"), Emitting(Note)>>, <<Do("abort"), Emitting(Note)>>}

\* What the command that accepts still does, before and after its envelope
\* is handed to the write loop.
WriteAccept == [op |-> "write", event |-> Event("started", "in")]
Accepts == {<<Sealing(Event("started", "in")), Began, Do("accepted")>>,
            <<WriteAccept, Began, Do("accepted")>>}
Accepteds == {<<Began, Do("accepted")>>, <<Do("accepted")>>}

\* What a goroutine has to do otherwise: no list but these brings an offer
\* or answers one, only reader and timer abort, and an end is only handled
\* of a file that was accepted.
Mine(g) == {o \in Operations : /\ o.event.kind \notin {"offer", "started"}
                               /\ o.op \notin {"accept", "accepted"}
                               /\ o.op = "abort" => g \in {"reader", "timer"}
                               /\ o.op = "end" => accepted}

\* The reader is about to emit the offer.
Brings == todo["reader"] = <<OfferIn>>

ListInv ==
    \A g \in Goroutines : \/ todo[g] \in Seq(Mine(g))
                          \/ g = "reader" /\ Brings
                          \/ g = "ui" /\ todo[g] \in {<<Do("accept")>>} \cup Accepts \cup Accepteds

LEMMA InMine ==
    ASSUME NEW g \in Goroutines
    PROVE  /\ \A o \in {"shutdown", "report", "cancel", "return", "collect", "failOut", "chunk", "fail",
                        "finish", "write", "seal", "declined", "close", "hangup"} :
                Do(o) \in Mine(g)
           /\ \A e \in Events : e.kind \notin {"offer", "started", "disconnected"} => Emitting(e) \in Mine(g)
           /\ FailIn \in Mine(g) /\ FailOut \in Mine(g) /\ Emitting(Note) \in Mine(g)
           /\ Emitting(Event("complete", "in")) \in Mine(g)
           /\ Emitting(Event("complete", "out")) \in Mine(g)
           /\ Progress("in") \in Mine(g) /\ Progress("out") \in Mine(g)
           /\ g \in {"reader", "timer"} => Do("abort") \in Mine(g)
           /\ accepted => Do("end") \in Mine(g)
BY DEF Do, Emitting, Progress, FailIn, FailOut, Mine, Operations, Events, Event, Note, Kinds

\* The lists that begin with something else are not among these.
LEMMA Heads ==
    /\ \A t \in Leaves : t # <<>> /\ Head(t).op \in {"collect", "failOut", "abort", "emit"}
    /\ \A t \in Accepts : t # <<>> /\ Head(t).op \in {"seal", "write"} /\ Head(t).event.kind = "started"
    /\ \A t \in Accepteds : t # <<>> /\ Head(t).op \in {"emit", "accepted"}
    /\ <<Do("accept")>> # <<>> /\ Head(<<Do("accept")>>).op = "accept"
    /\ <<OfferIn>> # <<>> /\ Head(<<OfferIn>>) = OfferIn /\ Tail(<<OfferIn>>) = <<>>
    /\ OfferIn.op = "emit" /\ OfferIn.event.kind = "offer" /\ OfferIn # FailIn
BY DEF Leaves, Accepts, Accepteds, Do, Emitting, Sealing, WriteAccept, Began, FailOut, FailIn, OfferIn,
       Event, Note

\* What follows in them.
LEMMA Tails ==
    /\ Tail(<<OfferIn>>) = <<>>
    /\ Tail(<<FailOut, Do("abort"), Emitting(Note)>>) = <<Do("abort"), Emitting(Note)>>
    /\ Tail(<<Do("failOut"), Do("abort"), Emitting(Note)>>) = <<Do("abort"), Emitting(Note)>>
    /\ Tail(<<Do("collect"), Emitting(Note)>>) = <<Emitting(Note)>>
    /\ Tail(<<WriteAccept, Began, Do("accepted")>>) = <<Began, Do("accepted")>>
    /\ Tail(<<Sealing(Event("started", "in")), Began, Do("accepted")>>) = <<Began, Do("accepted")>>
    /\ Tail(<<Began, Do("accepted")>>) = <<Do("accepted")>>
    /\ Tail(<<Do("accepted")>>) = <<>>
OBVIOUS

LEMMA AtMine ==
    ASSUME ListInv, NEW g \in Goroutines, NEW o, At(g, o)
    PROVE  \/ /\ todo[g] \in Seq(Mine(g)) /\ Rest(g) \in Seq(Mine(g))
              /\ Head(todo[g]) \in Mine(g)
           \/ g = "reader" /\ Brings /\ o = "emit"
           \/ g = "ui" /\ todo[g] \in Accepts /\ o \in {"seal", "write"}
           \/ g = "ui" /\ todo[g] \in Accepteds /\ o \in {"emit", "accepted"}
           \/ g = "ui" /\ todo[g] = <<Do("accept")>> /\ o = "accept"
<1>1. todo[g] # <<>> /\ Head(todo[g]).op = o
  BY DEF At
<1>2. CASE todo[g] \in Seq(Mine(g))
  BY <1>1, <1>2, ListsOf DEF Rest
<1>3. CASE g = "reader" /\ Brings
  BY <1>1, <1>3, Heads DEF Brings
<1>4. CASE g = "ui" /\ todo[g] \in {<<Do("accept")>>} \cup Accepts \cup Accepteds
  BY <1>1, <1>4, Heads
<1> QED BY <1>2, <1>3, <1>4 DEF ListInv

\* The goroutine that is about to do something that only these lists hold.
LEMMA AtOwn ==
    ASSUME ListInv, NEW g \in Goroutines, NEW o, At(g, o),
           o \notin {"emit", "seal", "write", "accepted", "accept"}
    PROVE  /\ todo[g] \in Seq(Mine(g)) /\ Rest(g) \in Seq(Mine(g))
           /\ Head(todo[g]) \in Mine(g)
BY AtMine

LEMMA Grows ==
    ASSUME NEW g, accepted => accepted'
    PROVE  Seq(Mine(g)) \subseteq Seq(Mine(g)')
<1>1. Mine(g) \subseteq Mine(g)'
  BY DEF Mine
<1> QED BY <1>1

LEMMA ListKept ==
    ASSUME TodoInv, ListInv, accepted => accepted',
           NEW g \in Goroutines, NEW ops, Goes(g, ops),
           \/ ops \in Seq(Mine(g)) \/ ops \in Seq(Mine(g)')
           \/ g = "reader" /\ ops = <<OfferIn>>
           \/ g = "ui" /\ ops \in {<<Do("accept")>>} \cup Accepts \cup Accepteds
    PROVE  ListInv'
<1>1. todo'[g] = ops /\ \A h \in Goroutines \ {g} : todo'[h] = todo[h]
  BY Others
<1>2. ASSUME NEW h \in Goroutines
      PROVE  \/ todo'[h] \in Seq(Mine(h)')
             \/ h = "reader" /\ todo'[h] = <<OfferIn>>
             \/ h = "ui" /\ todo'[h] \in {<<Do("accept")>>} \cup Accepts \cup Accepteds
  <2>1. CASE h = g
    BY <2>1, <1>1, Grows
  <2>2. CASE h # g
    BY <2>2, <1>1, Grows DEF ListInv, Brings
  <2> QED BY <2>1, <2>2
<1> QED BY <1>2 DEF ListInv, Brings, Mine

\* Lists put together.
LEMMA Joined2 == ASSUME NEW a, NEW b PROVE <<a>> \o <<b>> = <<a, b>>
<1> DEFINE s == <<a>> \o <<b>>
           t == <<a, b>>
<1>1. s \in Seq({a, b}) /\ t \in Seq({a, b}) /\ Len(s) = Len(t) /\ Len(t) = 2
  OBVIOUS
<1>2. s[1] = t[1] /\ s[2] = t[2]
  OBVIOUS
<1>3. \A i \in 1..Len(s) : s[i] = t[i]
  <2>1. 1..Len(s) = {1, 2}
    BY <1>1
  <2> QED BY <1>2, <2>1
<1> HIDE DEF s, t
<1>4. s = t
  BY <1>1, <1>3, SeqEqual
<1> QED BY <1>4 DEF s, t

LEMMA Three ==
    ASSUME NEW a, NEW b, NEW c, NEW s \in Seq({a, b, c}), Len(s) = 3, s[1] = a, s[2] = b, s[3] = c
    PROVE  s = <<a, b, c>>
<1> DEFINE t == <<a, b, c>>
<1>1. t \in Seq({a, b, c}) /\ Len(t) = 3 /\ t[1] = a /\ t[2] = b /\ t[3] = c
  OBVIOUS
<1> HIDE DEF t
<1>2. \A i \in 1..Len(s) : s[i] = t[i]
  <2>1. 1..Len(s) = {1, 2, 3}
    OBVIOUS
  <2> QED BY <1>1, <2>1
<1>3. s = t
  BY <1>1, <1>2, SeqEqual
<1> QED BY <1>3 DEF t

LEMMA Joined3 ==
    ASSUME NEW a, NEW b, NEW c
    PROVE  <<a>> \o <<b, c>> = <<a, b, c>> /\ <<a, b>> \o <<c>> = <<a, b, c>>
<1>1. <<a>> \o <<b, c>> = <<a, b, c>>
  <2>1. PICK s : s = <<a>> \o <<b, c>>
    OBVIOUS
  <2>2. s \in Seq({a, b, c}) /\ Len(s) = 3 /\ s[1] = a /\ s[2] = b /\ s[3] = c
    BY <2>1
  <2> QED BY <2>1, <2>2, Three
<1>2. <<a, b>> \o <<c>> = <<a, b, c>>
  <2>1. PICK s : s = <<a, b>> \o <<c>>
    OBVIOUS
  <2>2. s \in Seq({a, b, c}) /\ Len(s) = 3 /\ s[1] = a /\ s[2] = b /\ s[3] = c
    BY <2>1
  <2> QED BY <2>1, <2>2, Three
<1> QED BY <1>1, <1>2

LEMMA ListStep == ASSUME TodoInv, ListInv, NEW g \in Goroutines, Step(g) PROVE ListInv'
<1>a. accepted => accepted'
  BY DEF Step, Emit, EmitProgress, Write, SealAndSend, AbortInbound, Shutdown, Report, Cancel, Return,
         clientVars
<1>1. CASE Emit(g) \/ EmitProgress(g) \/ Write(g)
  <2>1. PICK o \in {"emit", "progress", "write"} : At(g, o)
    BY <1>1 DEF Emit, EmitProgress, Write
  <2>2. Goes(g, Rest(g))
    BY <1>1 DEF Emit, EmitProgress, Write
  <2>3. CASE todo[g] \in Seq(Mine(g)) /\ Rest(g) \in Seq(Mine(g))
    BY <2>2, <2>3, <1>a, ListKept
  <2>4. CASE g = "reader" /\ Brings
    <3>1. Rest(g) = <<>> /\ <<>> \in Seq(Mine(g))
      BY <2>4, Tails, ListsOf DEF Brings, Rest
    <3> QED BY <3>1, <2>2, <1>a, ListKept
  <2>5. CASE g = "ui" /\ todo[g] \in Accepts /\ o = "write"
    <3>1. Rest(g) \in Accepteds
      BY <2>5, Tails DEF Accepts, Accepteds, Rest
    <3> QED BY <3>1, <2>5, <2>2, <1>a, ListKept
  <2>6. CASE g = "ui" /\ todo[g] \in Accepteds
    <3>1. Rest(g) \in Accepteds \cup {<<>>} /\ <<>> \in Seq(Mine(g))
      BY <2>6, Tails, ListsOf DEF Accepteds, Rest
    <3> QED BY <3>1, <2>6, <2>2, <1>a, ListKept
  <2> QED BY <2>1, <2>3, <2>4, <2>5, <2>6, AtMine
<1>2. CASE SealAndSend(g)
  <2>1. At(g, "seal") /\ <<>> \in Seq(Mine(g)) /\ <<Do("fail")>> \in Seq(Mine(g))
    BY <1>2, ListsOf, InMine DEF SealAndSend
  <2>2. CASE todo[g] \in Seq(Mine(g)) /\ Rest(g) \in Seq(Mine(g)) /\ Head(todo[g]) \in Mine(g)
    <3>1. [Head(todo[g]) EXCEPT !.op = "write"] \in Mine(g)
      BY <2>2 DEF Mine, Operations
    <3>2. <<[Head(todo[g]) EXCEPT !.op = "write"]>> \o Rest(g) \in Seq(Mine(g))
      BY <3>1, <2>2, ListsOf
    <3>3. \E ops \in Seq(Mine(g)) : Goes(g, ops)
      BY <3>2, <2>1, <1>2 DEF SealAndSend
    <3> QED BY <3>3, <1>a, ListKept
  <2>3. CASE g = "ui" /\ todo[g] \in Accepts
    <3>1. todo[g] = <<Sealing(Event("started", "in")), Began, Do("accepted")>>
      BY <2>3, <2>1, Heads DEF Accepts, At, WriteAccept
    <3>2. Rest(g) = <<Began, Do("accepted")>>
      BY <3>1, Tails DEF Rest
    <3>3. [Head(todo[g]) EXCEPT !.op = "write"] = WriteAccept
      BY <3>1 DEF Sealing, WriteAccept
    <3>4. <<WriteAccept>> \o <<Began, Do("accepted")>> = <<WriteAccept, Began, Do("accepted")>>
      BY Joined3
    <3>5. \E ops \in Seq(Mine(g)) \cup Accepts : Goes(g, ops)
      BY <3>2, <3>3, <3>4, <2>1, <2>3, <1>2 DEF SealAndSend, Accepts
    <3> QED BY <3>5, <2>3, <1>a, ListKept
  <2> QED BY <2>1, <2>2, <2>3, AtMine
<1>3. CASE AbortInbound(g)
  <2>1. Rest(g) \in Seq(Mine(g))
    BY <1>3, AtOwn DEF AbortInbound
  <2>2. <<Emitting(Event("failed", "in"))>> \o Rest(g) \in Seq(Mine(g))
    BY <2>1, ListsOf, InMine DEF FailIn
  <2>3. \E ops \in Seq(Mine(g)) : Goes(g, ops)
    BY <2>1, <2>2, <1>3 DEF AbortInbound, Aborts
  <2> QED BY <2>3, <1>a, ListKept
<1>4. CASE Shutdown(g) \/ Report(g) \/ Cancel(g) \/ Return(g)
  <2>1. <<Do("report"), Do("cancel")>> \in Seq(Mine(g)) /\ <<>> \in Seq(Mine(g))
    BY ListsOf, InMine
  <2>2. At(g, "report") => Rest(g) \in Seq(Mine(g))
    BY AtOwn
  <2>3. \E ops \in Seq(Mine(g)) : Goes(g, ops)
    BY <1>4, <2>1, <2>2 DEF Shutdown, Report, Cancel, Return
  <2> QED BY <2>3, <1>a, ListKept
<1> QED BY <1>1, <1>2, <1>3, <1>4 DEF Step

LEMMA ListRead == ASSUME TodoInv, ListInv, Reads PROVE ListInv'
<1>r. "reader" \in Goroutines /\ (accepted => accepted')
  BY DEF Goroutines, Reads, ReadFrame, ReadFails, TakeChunk, TakeEnd, Collect, FailOutbound, clientVars
<1>s. "reader" \in {"reader", "timer"}
  OBVIOUS
<1>m. /\ <<>> \in Seq(Mine("reader")) /\ <<Do("shutdown")>> \in Seq(Mine("reader"))
      /\ <<Do("seal")>> \in Seq(Mine("reader")) /\ <<Progress("in")>> \in Seq(Mine("reader"))
      /\ <<FailIn>> \in Seq(Mine("reader")) /\ <<FailOut>> \in Seq(Mine("reader"))
      /\ <<Emitting(Event("complete", "in"))>> \in Seq(Mine("reader"))
      /\ <<Do("failOut")>> \in Seq(Mine("reader")) /\ <<Do("abort")>> \in Seq(Mine("reader"))
  BY <1>r, <1>s, InMine, ListsOf
<1>1. CASE ReadFrame
  <2>1. PICK f \in {"note", "offer", "chunk", "end", "left"} :
          Goes("reader", Handler(f)) /\ (f \in {"chunk", "end"} => accepted)
    BY <1>1 DEF ReadFrame
  <2>2. f = "offer" => Handler(f) = <<OfferIn>>
    BY DEF Handler, OfferIn
  <2>3. f # "offer" => Handler(f) \in Seq(Mine("reader"))
    BY <2>1, <1>r, InMine, ListsOf DEF Handler
  <2> QED BY <2>1, <2>2, <2>3, <1>r, ListKept
<1>2. CASE ReadFails
  BY <1>2, <1>r, <1>m, ListKept DEF ReadFails
<1>3. CASE TakeChunk \/ TakeEnd
  <2>1. /\ <<Progress("in")>> \o <<>> \in Seq(Mine("reader"))
        /\ <<Progress("in")>> \o <<Do("seal")>> \in Seq(Mine("reader"))
        /\ <<Emitting(Event("failed", "in"))>> \o <<>> \in Seq(Mine("reader"))
    BY <1>m, ListsOf DEF FailIn
  <2>2. \E ops \in Seq(Mine("reader")) : Goes("reader", ops)
    BY <1>3, <1>m, <2>1 DEF TakeChunk, TakeEnd, Aborts
  <2> QED BY <2>2, <1>r, ListKept
<1>4. CASE Collect
  <2>1. Rest("reader") \in Seq(Mine("reader"))
    BY <1>4, <1>r, AtOwn DEF Collect
  <2>2. /\ (IF outbound = "none" THEN <<>> ELSE <<Do("failOut")>>) \in Seq(Mine("reader"))
        /\ (IF listed THEN <<Do("abort")>> ELSE <<>>) \in Seq(Mine("reader"))
    BY <1>m
  <2>3. (IF outbound = "none" THEN <<>> ELSE <<Do("failOut")>>)
          \o (IF listed THEN <<Do("abort")>> ELSE <<>>) \o Rest("reader") \in Seq(Mine("reader"))
    BY <2>1, <2>2, ListsOf
  <2> QED BY <1>4, <2>3, <1>r, ListKept DEF Collect
<1>5. CASE FailOutbound
  <2>1. Rest("reader") \in Seq(Mine("reader"))
    BY <1>5, <1>r, AtOwn DEF FailOutbound
  <2>2. (IF outbound = "streaming" THEN <<Emitting(Event("failed", "out"))>> ELSE <<>>)
          \o Rest("reader") \in Seq(Mine("reader"))
    BY <2>1, <1>m, ListsOf DEF FailOut
  <2> QED BY <1>5, <2>2, <1>r, ListKept DEF FailOutbound
<1> QED BY <1>1, <1>2, <1>3, <1>4, <1>5 DEF Reads

LEMMA StreamsTo ==
    ASSUME Streams
    PROVE  \E ops \in Seq(Mine("stream")) : Goes("stream", ops)
<1>1. /\ <<>> \in Seq(Mine("stream")) /\ <<Do("fail")>> \in Seq(Mine("stream"))
      /\ <<Do("return")>> \in Seq(Mine("stream"))
      /\ <<FailOut>> \in Seq(Mine("stream"))
      /\ <<Do("seal"), Progress("out")>> \in Seq(Mine("stream"))
      /\ <<Do("seal"), Do("finish")>> \in Seq(Mine("stream"))
      /\ <<Emitting(Event("complete", "out")), Do("return")>> \in Seq(Mine("stream"))
  BY InMine, ListsOf DEF Goroutines
<1>2. CASE StreamChunk
  <2>1. (IF sent' = Chunks THEN <<Do("seal"), Do("finish")>> ELSE <<>>) \in Seq(Mine("stream"))
    BY <1>1
  <2>2. <<Do("seal"), Progress("out")>>
          \o (IF sent' = Chunks THEN <<Do("seal"), Do("finish")>> ELSE <<>>) \in Seq(Mine("stream"))
    BY <1>1, <2>1, ListsOf
  <2> QED BY <1>1, <1>2, <2>2 DEF StreamChunk
<1>3. CASE Fail
  <2>1. (IF outbound = "failed" THEN <<>> ELSE <<Emitting(Event("failed", "out"))>>)
          \in Seq(Mine("stream"))
    BY <1>1 DEF FailOut
  <2>2. (IF outbound = "failed" THEN <<>> ELSE <<Emitting(Event("failed", "out"))>>)
          \o <<Do("return")>> \in Seq(Mine("stream"))
    BY <1>1, <2>1, ListsOf
  <2> QED BY <1>3, <2>2 DEF Fail
<1>4. CASE Finish
  BY <1>1, <1>4 DEF Finish
<1> QED BY <1>2, <1>3, <1>4 DEF Streams

LEMMA ListLoops ==
    ASSUME TodoInv, ListInv, Writes \/ Streams \/ ReceiveStall
    PROVE  ListInv'
<1>g. {"writer", "stream", "timer"} \subseteq Goroutines /\ "timer" \in {"reader", "timer"}
  BY DEF Goroutines
<1>a. accepted' = accepted
  BY DEF Writes, WriteFrame, WriterStops, Streams, StreamChunk, Fail, Finish, ReceiveStall, clientVars
<1>1. CASE Writes
  <2>1. <<Do("shutdown")>> \in Seq(Mine("writer"))
    BY <1>g, InMine, ListsOf
  <2>2. UNCHANGED todo \/ Goes("writer", <<Do("shutdown")>>)
    BY <1>1 DEF Writes, WriteFrame, WriterStops
  <2>3. CASE UNCHANGED todo
    BY <2>3, <1>a DEF ListInv, Mine, Brings
  <2> QED BY <2>1, <2>2, <2>3, <1>a, <1>g, ListKept
<1>2. CASE Streams
  BY <1>2, <1>a, <1>g, StreamsTo, ListKept
<1>3. CASE ReceiveStall
  <2>1. <<Do("abort")>> \in Seq(Mine("timer"))
    BY <1>g, InMine, ListsOf
  <2> QED BY <2>1, <1>3, <1>a, <1>g, ListKept DEF ReceiveStall
<1> QED BY <1>1, <1>2, <1>3

LEMMA ListInterface ==
    ASSUME TodoInv, ListInv, Commands \/ Press \/ Quit
    PROVE  ListInv'
<1>u. "ui" \in Goroutines /\ accepted' = accepted
  BY DEF Goroutines, Commands, AcceptTransfer, Answered, Close, HangUp, Press, Quit, clientVars
<1>m. /\ <<>> \in Seq(Mine("ui")) /\ <<Do("write")>> \in Seq(Mine("ui"))
      /\ <<Do("write"), Emitting(Note)>> \in Seq(Mine("ui"))
      /\ <<Do("seal"), Emitting(Event("failed", "in")), Do("declined")>> \in Seq(Mine("ui"))
      /\ <<Do("close"), Do("return")>> \in Seq(Mine("ui")) /\ <<Do("hangup")>> \in Seq(Mine("ui"))
  BY <1>u, InMine, ListsOf DEF FailIn
<1>1. CASE Press \/ Quit \/ Answered
  <2>1. \E ops \in Seq(Mine("ui")) \cup {<<Do("accept")>>} : Goes("ui", ops)
    BY <1>1, <1>m DEF Press, Quit, Answered
  <2> QED BY <2>1, <1>u, ListKept
<1>2. CASE AcceptTransfer
  <2>1. \E ops \in Seq(Mine("ui")) \cup Accepts : Goes("ui", ops)
    BY <1>2, <1>m DEF AcceptTransfer, Accepts, Began
  <2> QED BY <2>1, <1>u, ListKept
<1>3. CASE Close \/ HangUp
  <2>1. Rest("ui") \in Seq(Mine("ui"))
    BY <1>3, <1>u, AtOwn DEF Close, HangUp
  <2>2. <<Do("hangup")>> \o Rest("ui") \in Seq(Mine("ui"))
    BY <2>1, <1>m, ListsOf
  <2>3. \E ops \in Seq(Mine("ui")) : Goes("ui", ops)
    BY <1>3, <2>1, <2>2 DEF Close, HangUp
  <2> QED BY <2>3, <1>u, ListKept
<1> QED BY <1>1, <1>2, <1>3 DEF Commands

LEMMA ListNext == ASSUME TodoInv, ListInv, [Next]_vars PROVE ListInv'
<1>1. CASE Listen \/ Update \/ ConnectionLost \/ UNCHANGED vars
  BY <1>1 DEF Listen, Update, ConnectionLost, vars, clientVars, ListInv, Brings, Mine
<1> QED BY <1>1, ListStep, ListRead, ListLoops, ListInterface DEF Next

LEMMA ListInit == Init => ListInv
<1> SUFFICES ASSUME Init PROVE ListInv
  OBVIOUS
<1>1. todo = [g \in Goroutines |-> <<>>]
  BY DEF Init
<1> QED BY <1>1, ListsOf DEF ListInv

\* A goroutine is about to report that the transfer failed.
Failing == \E g \in Goroutines : todo[g] # <<>> /\ Head(todo[g]) = FailIn

\* The interface has not heard of the offer.
Unheard == inbound = "none" \/ Brings \/ Offers # {}

\* Until the end: a transfer that is over is off the list; once the peer left,
\* the reader is on its way to fail what is listed; no answer precedes the
\* offer; the offer on its way is of a transfer that waits, or that has failed
\* with the report behind the offer; and in front of the user is an offer
\* whose failure is or will be reported, or whose accept is under way.
OfferInv == cancelled \/
    /\ inbound \in {"failed", "done"} => ~ listed
    /\ inbound = "done" => accepted
    /\ listed => friend \/ todo["reader"] \in Leaves
    /\ Unheard => ~ view.offer /\ ~ accepted /\ todo["ui"] \in Seq(Mine("ui"))
    /\ inbound = "none" \/ Brings => Offers = {}
    /\ Brings => inbound = "offered"
    /\ \A e, f \in Offers : e = f
    /\ \A e \in Offers : \/ inbound = "offered"
                         \/ inbound = "failed" /\ (Failing \/ \E f \in Way : IsFail(f) /\ f.n > e.n)
    /\ view.offer /\ inbound = "failed" => Failing \/ \E f \in Way : IsFail(f)
    /\ view.offer /\ accepted => todo["ui"] \in Accepteds
    /\ view.offer /\ inbound = "streaming" /\ listed /\ friend => todo["ui"] \in Accepts \cup Accepteds

\* A step that brings no offer and takes none away, and with which the
\* transfer goes on or begins to fail.
Onward ==
    /\ UNCHANGED <<friend, view>> /\ (accepted' <=> accepted)
    /\ inbound' = inbound \/ (inbound' = "failed" /\ ~ Brings /\ Failing' /\ ~ listed')
    /\ listed' => listed
    /\ Brings' => Brings
    /\ Offers' = Offers /\ Way \subseteq Way'
    /\ Failing => Failing' \/ \E f \in Way' : IsFail(f) /\ \A e \in Way : f.n > e.n
    /\ listed' /\ todo["reader"] \in Leaves => todo'["reader"] \in Leaves
    /\ ~ view.offer /\ todo["ui"] \in Seq(Mine("ui")) => todo'["ui"] \in Seq(Mine("ui"))
    /\ todo["ui"] \in Accepteds => todo'["ui"] \in Accepteds
    /\ friend /\ todo["ui"] \in Accepts => todo'["ui"] \in Accepts

LEMMA OnwardKeeps == ASSUME OfferInv, ~ cancelled, Onward PROVE OfferInv'
<1> USE DEF Onward
<1>o. Offers \subseteq Way
  BY DEF Offers
<1>m. Mine("ui")' = Mine("ui")
  BY DEF Mine
<1>1. inbound' \in {"failed", "done"} => ~ listed'
  BY DEF OfferInv
<1>2. inbound' = "done" => accepted'
  BY DEF OfferInv
<1>3. listed' => friend' \/ todo'["reader"] \in Leaves
  BY DEF OfferInv
<1>4. Unheard' => Unheard
  BY DEF Unheard
<1>5. Unheard' => ~ view'.offer /\ ~ accepted' /\ todo'["ui"] \in Seq(Mine("ui")')
  BY <1>4, <1>m DEF OfferInv
<1>6. /\ inbound' = "none" \/ Brings' => Offers' = {}
      /\ Brings' => inbound' = "offered"
      /\ \A e, f \in Offers' : e = f
  BY DEF OfferInv
<1>7. ASSUME NEW e \in Offers'
      PROVE  \/ inbound' = "offered"
             \/ inbound' = "failed" /\ (Failing' \/ \E f \in Way' : IsFail(f) /\ f.n > e.n)
  <2>1. \/ inbound = "offered"
        \/ inbound = "failed" /\ (Failing \/ \E f \in Way : IsFail(f) /\ f.n > e.n)
    BY <1>7 DEF OfferInv
  <2>2. e \in Way
    BY <1>7, <1>o
  <2> QED BY <2>1, <2>2
<1>8. view'.offer /\ inbound' = "failed" => Failing' \/ \E f \in Way' : IsFail(f)
  BY DEF OfferInv
<1>9. view'.offer /\ accepted' => todo'["ui"] \in Accepteds
  BY DEF OfferInv
<1>10. view'.offer /\ inbound' = "streaming" /\ listed' /\ friend'
          => todo'["ui"] \in Accepts \cup Accepteds
  BY DEF OfferInv
<1>11. IsFail(0)' = IsFail(0)
  BY DEF IsFail
<1> QED BY <1>1, <1>2, <1>3, <1>5, <1>6, <1>7, <1>8, <1>9, <1>10 DEF OfferInv

\* The lists of which Mine says nothing are not in it.
LEMMA Apart ==
    /\ todo["ui"] \in Seq(Mine("ui")) => todo["ui"] \notin Accepts \cup Accepteds
    /\ \A g : \A ops \in Seq(Mine(g)) : ops # <<OfferIn>>
<1>1. ASSUME NEW t \in Accepts \cup Accepteds PROVE t \notin Seq(Mine("ui"))
  <2>1. t # <<>> /\ (Head(t).op = "accepted" \/ Head(t).event.kind = "started")
    BY Heads DEF Accepteds, Began, Emitting, Event, Do
  <2> QED BY <2>1, ListsOf DEF Mine
<1>2. ASSUME NEW g, NEW ops \in Seq(Mine(g)) PROVE ops # <<OfferIn>>
  BY Heads, ListsOf DEF Mine
<1> QED BY <1>1, <1>2

\* A step of a goroutine outside the handlers of an offer and its accept.
LEMMA OnwardBy ==
    ASSUME TodoInv, NEW g \in Goroutines, NEW ops, Goes(g, ops), todo[g] \in Seq(Mine(g)),
           ops \in Seq(Mine(g)) \/ (g = "ui" /\ view.offer),
           UNCHANGED <<friend, view>>, accepted' <=> accepted, listed' => listed,
           \/ inbound' = inbound
           \/ inbound' = "failed" /\ ~ Brings /\ ~ listed' /\ ops # <<>> /\ Head(ops) = FailIn,
           Offers' = Offers, Way \subseteq Way',
           \/ todo[g] = <<>> \/ Head(todo[g]) # FailIn
           \/ \E f \in Way' : IsFail(f) /\ \A e \in Way : f.n > e.n,
           g = "reader" /\ todo[g] \in Leaves /\ listed' => ops \in Leaves
    PROVE  Onward
<1>1. todo'[g] = ops /\ \A h \in Goroutines \ {g} : todo'[h] = todo[h]
  BY Others
<1>g. "ui" \in Goroutines /\ "reader" \in Goroutines
  BY DEF Goroutines
<1>2. Failing => Failing' \/ \E f \in Way' : IsFail(f) /\ \A e \in Way : f.n > e.n
  BY <1>1 DEF Failing
<1>3. inbound' = inbound \/ (inbound' = "failed" /\ ~ Brings /\ Failing' /\ ~ listed')
  BY <1>1 DEF Failing
<1>4. Brings' => Brings
  BY <1>1, <1>g, Apart DEF Brings
<1>5. listed' /\ todo["reader"] \in Leaves => todo'["reader"] \in Leaves
  BY <1>1, <1>g
<1>6. /\ ~ view.offer /\ todo["ui"] \in Seq(Mine("ui")) => todo'["ui"] \in Seq(Mine("ui"))
      /\ todo["ui"] \in Accepteds => todo'["ui"] \in Accepteds
      /\ friend /\ todo["ui"] \in Accepts => todo'["ui"] \in Accepts
  BY <1>1, <1>g, Apart
<1> QED BY <1>2, <1>3, <1>4, <1>5, <1>6 DEF Onward

LEMMA WaySame == UNCHANGED <<events, held>> => Way' = Way /\ Offers' = Offers
BY DEF Way, Offers

LEMMA WayOther ==
    ASSUME OrderInv, NEW e \in Events, e.kind # "offer", Put(e), UNCHANGED held
    PROVE  /\ Offers' = Offers /\ Way \subseteq Way'
           /\ IsFail(e) => \E f \in Way' : IsFail(f) /\ \A y \in Way : f.n > y.n
<1>1. PICK x : /\ x.kind = e.kind /\ x.of = e.of
               /\ Way' = Way \cup {x}
               /\ \A y \in Way : x.n > y.n
  BY WayPut
<1> QED BY <1>1 DEF Offers, IsFail

LEMMA EmitOnward ==
    ASSUME TodoInv, ListInv, OrderInv, NEW g \in Goroutines, Emit(g), ~ cancelled, ~ Brings \/ g # "reader"
    PROVE  Onward
<1> DEFINE e == Head(todo[g]).event
<1>1. At(g, "emit") /\ Goes(g, Rest(g)) /\ Put(e) /\ UNCHANGED held
  BY DEF Emit, uiVars
<1>2. UNCHANGED <<friend, inbound, listed, view, accepted>>
  BY DEF Emit, uiVars
<1>3. e \in Events
  <2>1. "emit" \notin Closers
    BY DEF Closers
  <2> QED BY <2>1, <1>1, Emitted
<1>4. CASE todo[g] \in Seq(Mine(g)) /\ Rest(g) \in Seq(Mine(g)) /\ Head(todo[g]) \in Mine(g)
  <2>1. e.kind # "offer"
    BY <1>4 DEF Mine
  <2>2. Offers' = Offers /\ Way \subseteq Way'
    BY <1>1, <1>3, <2>1, WayOther
  <2>3. Head(todo[g]) = FailIn => \E f \in Way' : IsFail(f) /\ \A y \in Way : f.n > y.n
    <3>1. Head(todo[g]) = FailIn => IsFail(e)
      BY DEF FailIn, Emitting, Event, IsFail
    <3> QED BY <3>1, <1>1, <1>3, <2>1, WayOther
  <2>4. todo[g] \in Leaves => Rest(g) \in Leaves
    <3>1. todo[g] \in Leaves => todo[g] = <<FailOut, Do("abort"), Emitting(Note)>>
      BY <1>1, Heads DEF Leaves, At, Do
    <3> QED BY <3>1, Tails DEF Leaves, Rest
  <2> QED BY <1>1, <1>2, <1>4, <2>2, <2>3, <2>4, OnwardBy
<1>5. CASE g = "ui" /\ todo[g] \in Accepteds
  <2>1. todo[g] = <<Began, Do("accepted")>>
    BY <1>1, <1>5 DEF Accepteds, At, Do
  <2>2. Rest(g) = <<Do("accepted")>> /\ Head(todo[g]) = Began
    BY <2>1, Tails DEF Rest
  <2>3. e.kind # "offer" /\ Began # FailIn
    BY <2>2 DEF Began, FailIn, Emitting, Event
  <2>4. Offers' = Offers /\ Way \subseteq Way'
    BY <1>1, <1>3, <2>3, WayOther
  <2>5. todo'["ui"] \in Accepteds /\ \A h \in Goroutines \ {"ui"} : todo'[h] = todo[h]
    BY <1>1, <1>5, <2>2, Others DEF Accepteds
  <2>6. "reader" \in Goroutines \ {"ui"} /\ todo["ui"] \notin Accepts
    BY <1>1, <1>5, Heads DEF Goroutines, At
  <2>7. Failing => Failing'
    BY <2>2, <2>3, <2>5, <1>5 DEF Failing
  <2> QED BY <1>2, <1>5, <2>4, <2>5, <2>6, <2>7, Apart DEF Onward, Brings
<1> QED BY <1>1, <1>4, <1>5, AtMine

LEMMA SealOnward ==
    ASSUME TodoInv, ListInv, NEW g \in Goroutines, SealAndSend(g)
    PROVE  Onward
<1>1. At(g, "seal") /\ Offers' = Offers /\ Way' = Way
  BY WaySame DEF SealAndSend, uiVars
<1>2. UNCHANGED <<friend, inbound, listed, view, accepted>>
  BY DEF SealAndSend, uiVars, clientVars
<1>3. todo[g] # <<>> /\ Head(todo[g]) # FailIn /\ todo[g] \notin Leaves
  BY <1>1, Heads DEF At, FailIn, Emitting
<1>4. CASE todo[g] \in Seq(Mine(g)) /\ Rest(g) \in Seq(Mine(g)) /\ Head(todo[g]) \in Mine(g)
  <2>1. [Head(todo[g]) EXCEPT !.op = "write"] \in Mine(g)
    BY <1>4 DEF Mine, Operations
  <2>2. /\ <<[Head(todo[g]) EXCEPT !.op = "write"]>> \o Rest(g) \in Seq(Mine(g))
        /\ <<>> \in Seq(Mine(g)) /\ <<Do("fail")>> \in Seq(Mine(g))
    BY <2>1, <1>4, ListsOf, InMine
  <2>3. PICK ops \in Seq(Mine(g)) : Goes(g, ops)
    BY <2>2 DEF SealAndSend
  <2> QED BY <1>1, <1>2, <1>3, <1>4, <2>3, OnwardBy
<1>5. CASE g = "ui" /\ todo[g] \in Accepts
  <2>1. todo[g] = <<Sealing(Event("started", "in")), Began, Do("accepted")>>
    BY <1>5, <1>1, Heads DEF Accepts, At, WriteAccept
  <2>2. Rest(g) = <<Began, Do("accepted")>> /\ [Head(todo[g]) EXCEPT !.op = "write"] = WriteAccept
    BY <2>1, Tails DEF Rest, Sealing, WriteAccept
  <2>3. <<WriteAccept>> \o <<Began, Do("accepted")>> = <<WriteAccept, Began, Do("accepted")>>
    BY Joined3
  <2>4. friend => Goes("ui", <<WriteAccept, Began, Do("accepted")>>)
    BY <2>2, <2>3, <1>5 DEF SealAndSend
  <2>5. /\ friend => todo'["ui"] \in Accepts
        /\ \A h \in Goroutines \ {"ui"} : todo'[h] = todo[h]
    <3>1. PICK ops : Goes("ui", ops)
      BY <1>5 DEF SealAndSend
    <3> QED BY <2>4, <3>1, <1>5, Others DEF Accepts
  <2>6. "reader" \in Goroutines \ {"ui"} /\ todo["ui"] \notin Accepteds
    BY <1>1, <1>5, Heads DEF Goroutines, At
  <2>7. Failing => Failing'
    BY <1>3, <1>5, <2>5 DEF Failing
  <2> QED BY <1>1, <1>2, <1>5, <2>5, <2>6, <2>7, Apart DEF Onward, Brings
<1> QED BY <1>1, <1>4, <1>5, AtMine

LEMMA AbortOnward ==
    ASSUME TodoInv, ListInv, OfferInv, ~ cancelled, NEW g \in Goroutines, AbortInbound(g)
    PROVE  Onward
<1>1. At(g, "abort") /\ Offers' = Offers /\ Way' = Way
  BY WaySame DEF AbortInbound, uiVars
<1>2. UNCHANGED <<friend, view, accepted>>
  BY DEF AbortInbound, uiVars
<1>3. /\ todo[g] \in Seq(Mine(g)) /\ Rest(g) \in Seq(Mine(g))
      /\ Head(todo[g]) \in Mine(g) /\ Head(todo[g]) # FailIn
  <2>1. Head(todo[g]) # FailIn
    BY <1>1 DEF At, FailIn, Emitting
  <2> QED BY <2>1, <1>1, AtOwn
<1>4. g \in {"reader", "timer"}
  BY <1>1, <1>3 DEF At, Mine
<1>5. CASE inbound \in {"failed", "done"} \/ (g = "timer" /\ inbound # "streaming")
  <2>1. Goes(g, Rest(g)) /\ UNCHANGED <<inbound, listed>>
    BY <1>5 DEF AbortInbound
  <2>2. g = "reader" => ~ listed
    BY <1>5 DEF OfferInv
  <2> QED BY <2>1, <2>2, <1>1, <1>2, <1>3, OnwardBy
<1>6. CASE ~ (inbound \in {"failed", "done"} \/ (g = "timer" /\ inbound # "streaming"))
  <2>1. /\ inbound' = "failed" /\ ~ listed'
        /\ Goes(g, <<Emitting(Event("failed", "in"))>> \o Rest(g))
    BY <1>6 DEF AbortInbound, Aborts
  <2>2. PICK ops : ops = <<FailIn>> \o Rest(g)
    OBVIOUS
  <2>3. ops \in Seq(Mine(g)) /\ ops # <<>> /\ Head(ops) = FailIn
    <3>1. <<FailIn>> \in Seq(Mine(g))
      BY InMine, ListsOf
    <3>2. FailIn \in Mine(g)
      BY InMine
    <3> QED BY <2>2, <3>1, <3>2, <1>3, ListsOf
  <2>4. ~ Brings
    BY <1>3, <1>4, <1>6, Apart DEF Brings, OfferInv
  <2>5. Goes(g, ops)
    BY <2>1, <2>2 DEF FailIn
  <2> QED BY <2>1, <2>3, <2>4, <2>5, <1>1, <1>2, <1>3, OnwardBy
<1> QED BY <1>5, <1>6

LEMMA OtherOnward ==
    ASSUME TodoInv, ListInv, OrderInv, NEW g \in Goroutines,
           EmitProgress(g) \/ Shutdown(g) \/ Report(g) \/ Return(g)
    PROVE  Onward
<1>1. PICK o \in {"progress", "shutdown", "report", "return"} : At(g, o)
  BY DEF EmitProgress, Shutdown, Report, Return
<1>2. /\ todo[g] \in Seq(Mine(g)) /\ Rest(g) \in Seq(Mine(g)) /\ Head(todo[g]) \in Mine(g)
      /\ Head(todo[g]) # FailIn /\ todo[g] \notin Leaves
  <2>1. Head(todo[g]) # FailIn /\ todo[g] \notin Leaves
    BY <1>1, Heads DEF At, FailIn, Emitting
  <2> QED BY <2>1, <1>1, AtOwn
<1>3. UNCHANGED <<friend, inbound, listed, view, accepted, held>>
  BY DEF EmitProgress, Shutdown, Report, Return, uiVars, clientVars
<1>4. \E ops \in Seq(Mine(g)) : Goes(g, ops)
  <2>1. <<Do("report"), Do("cancel")>> \in Seq(Mine(g)) /\ <<>> \in Seq(Mine(g))
    BY ListsOf, InMine
  <2> QED BY <1>2, <2>1 DEF EmitProgress, Shutdown, Report, Return
<1>5. Offers' = Offers /\ Way \subseteq Way'
  <2>1. CASE UNCHANGED events
    BY <2>1, <1>3, WaySame
  <2>2. ASSUME NEW e \in Events, e.kind # "offer", Put(e) PROVE Offers' = Offers /\ Way \subseteq Way'
    BY <2>2, <1>3, WayOther
  <2>3. Disconnected \in Events /\ Disconnected.kind # "offer"
    BY DEF Disconnected, Event, Events, Kinds
  <2>4. Head(todo[g]).event \in Events /\ Head(todo[g]).event.kind # "offer"
    BY <1>2 DEF Mine, Operations
  <2>5. UNCHANGED events \/ Put(Disconnected) \/ Put(Head(todo[g]).event)
    BY DEF EmitProgress, Shutdown, Report, Return
  <2> QED BY <2>1, <2>2, <2>3, <2>4, <2>5
<1> QED BY <1>2, <1>3, <1>4, <1>5, OnwardBy

\* The offer enters the channel.
LEMMA OfferEnters ==
    ASSUME TodoInv, OrderInv, OfferInv, Emit("reader"), ~ cancelled, Brings
    PROVE  OfferInv'
<1>1. /\ Put(Event("offer", "in")) /\ Goes("reader", <<>>)
      /\ UNCHANGED <<friend, inbound, listed, view, accepted, held>>
  <2>1. Head(todo["reader"]) = OfferIn /\ Rest("reader") = <<>>
    BY Heads DEF Brings, Rest
  <2> QED BY <2>1 DEF Emit, uiVars, OfferIn, Emitting
<1>2. PICK x : /\ x.kind = "offer" /\ Way' = Way \cup {x}
  <2>1. Event("offer", "in") \in Events /\ Event("offer", "in").kind = "offer"
    BY DEF Event, Events, Kinds
  <2> QED BY <2>1, <1>1, WayPut
<1>3. Offers' = {x}
  BY <1>2 DEF Offers, OfferInv
<1>4. /\ inbound = "offered" /\ ~ view.offer /\ ~ accepted /\ todo["ui"] \in Seq(Mine("ui"))
      /\ listed => friend
  <2>1. <<OfferIn>> \notin Leaves
    BY Heads DEF Leaves, OfferIn, FailOut, Emitting, Event, Do
  <2> QED BY <2>1 DEF OfferInv, Unheard, Brings
<1>5. todo'["reader"] = <<>> /\ todo'["ui"] = todo["ui"]
  BY <1>1, Others DEF Goroutines
<1>6. ~ Brings' /\ Mine("ui")' = Mine("ui")
  BY <1>1, <1>5, Heads DEF Brings, Mine
<1> QED BY <1>1, <1>3, <1>4, <1>5, <1>6 DEF OfferInv, Unheard

\* The envelope of the accept is handed to the write loop.
LEMMA WriteKeeps ==
    ASSUME TodoInv, ListInv, OfferInv, ~ cancelled, NEW g \in Goroutines, Write(g)
    PROVE  OfferInv'
<1>1. /\ At(g, "write") /\ Goes(g, Rest(g)) /\ Offers' = Offers /\ Way' = Way
      /\ UNCHANGED <<friend, inbound, listed, view>>
      /\ accepted' = (accepted \/ Head(todo[g]).event.kind = "started")
  BY WaySame DEF Write, uiVars
<1>2. Head(todo[g]) # FailIn /\ todo[g] \notin Leaves
  BY <1>1, Heads DEF At, FailIn, Emitting
<1>3. CASE todo[g] \in Seq(Mine(g)) /\ Rest(g) \in Seq(Mine(g)) /\ Head(todo[g]) \in Mine(g)
  <2>1. accepted' <=> accepted
    <3>1. Head(todo[g]).event.kind # "started"
      BY <1>3 DEF Mine
    <3> QED BY <3>1, <1>1
  <2>2. Onward
    BY <1>1, <1>2, <1>3, <2>1, OnwardBy
  <2> QED BY <2>2, OnwardKeeps
<1>4. CASE g = "ui" /\ todo[g] \in Accepts
  <2>1. todo[g] = <<WriteAccept, Began, Do("accepted")>>
    BY <1>4, <1>1 DEF Accepts, At, Sealing
  <2>2. Rest(g) = <<Began, Do("accepted")>> /\ Head(todo[g]) = WriteAccept
    BY <2>1, Tails DEF Rest
  <2>3. accepted'
    <3>1. Head(todo[g]).event.kind = "started"
      BY <2>2 DEF WriteAccept, Event
    <3> QED BY <3>1, <1>1
  <2>4. todo'["ui"] \in Accepteds /\ \A h \in Goroutines \ {"ui"} : todo'[h] = todo[h]
    BY <1>1, <1>4, <2>2, Others DEF Accepteds
  <2>5. todo'["reader"] = todo["reader"] /\ Brings' = Brings
    BY <2>4 DEF Brings, Goroutines
  <2>6. ~ Unheard /\ ~ Unheard'
    BY <1>1, <1>4, <2>5, Apart DEF OfferInv, Unheard
  <2>7. Failing => Failing'
    BY <1>2, <1>4, <2>4 DEF Failing
  <2> QED BY <1>1, <2>3, <2>4, <2>5, <2>6, <2>7 DEF OfferInv, Unheard, IsFail
<1> QED BY <1>1, <1>3, <1>4, AtMine

LEMMA StepKeeps ==
    ASSUME TodoInv, ListInv, OrderInv, OfferInv, ~ cancelled, NEW g \in Goroutines, Step(g)
    PROVE  OfferInv'
<1>1. CASE Cancel(g)
  BY <1>1 DEF Cancel, OfferInv
<1>2. CASE Emit(g)
  BY <1>2, EmitOnward, OfferEnters, OnwardKeeps
<1> QED BY <1>1, <1>2, SealOnward, AbortOnward, OtherOnward, WriteKeeps, OnwardKeeps DEF Step

-----------------------------------------------------------------------------
(* The offer and the actions of each goroutine. *)

LEMMA ReadFrameKeeps ==
    ASSUME TodoInv, OrderInv, OfferInv, ReadFrame
    PROVE  OfferInv'
<1>1. PICK f \in {"note", "offer", "chunk", "end", "left"} :
        /\ f # "note" => friend
        /\ f = "offer" => inbound = "none"
        /\ f \in {"chunk", "end"} => accepted
        /\ Goes("reader", Handler(f))
        /\ friend' = (friend /\ f # "left")
        /\ IF f = "offer" THEN inbound' = "offered" /\ listed' = TRUE ELSE UNCHANGED <<inbound, listed>>
  BY DEF ReadFrame
<1>2. /\ Offers' = Offers /\ Way' = Way /\ UNCHANGED <<view, accepted, cancelled>>
      /\ ~ cancelled /\ todo["reader"] = <<>>
  BY WaySame DEF ReadFrame, uiVars, closeVars, Idle
<1>3. /\ todo'["reader"] = Handler(f) /\ \A h \in Goroutines \ {"reader"} : todo'[h] = todo[h]
      /\ "ui" \in Goroutines \ {"reader"}
  BY <1>1, Others DEF Goroutines
<1>4. /\ Mine("ui")' = Mine("ui") /\ ~ Brings /\ <<>> \notin Leaves
      /\ Failing => Failing'
  BY <1>2, <1>3, Heads DEF Mine, Brings, Failing
<1>5. CASE f = "offer"
  <2>1. Offers = {} /\ ~ view.offer /\ ~ accepted /\ todo["ui"] \in Seq(Mine("ui"))
    BY <1>1, <1>2, <1>5 DEF OfferInv, Unheard
  <2>2. inbound' = "offered" /\ friend'
    BY <1>1, <1>5
  <2> QED BY <2>1, <2>2, <1>2, <1>3, <1>4 DEF OfferInv
<1>6. CASE f # "offer"
  <2>1. ~ Brings'
    <3>1. f # "left" => \E o : Handler(f) = <<o>> /\ o # OfferIn
      BY <1>6 DEF Handler, OfferIn, Emitting, Event, Note, Do
    <3>2. f = "left" => Handler(f) = <<Do("collect"), Emitting(Note)>>
      BY DEF Handler
    <3> QED BY <3>1, <3>2, <1>3 DEF Brings
  <2>2. listed' => friend' \/ todo'["reader"] \in Leaves
    <3>1. CASE f = "left"
      BY <3>1, <1>3 DEF Handler, Leaves
    <3>2. CASE f # "left"
      BY <3>2, <1>1, <1>2, <1>4, <1>6 DEF OfferInv
    <3> QED BY <3>1, <3>2
  <2>3. UNCHANGED <<inbound, listed>> /\ (friend' => friend)
    BY <1>1, <1>6
  <2>4. Unheard' => Unheard
    BY <2>1, <2>3, <1>2 DEF Unheard
  <2> QED BY <2>1, <2>2, <2>3, <2>4, <1>2, <1>3, <1>4 DEF OfferInv, IsFail
<1> QED BY <1>5, <1>6

LEMMA ReadsOnward ==
    ASSUME TodoInv, ListInv, OfferInv, ~ cancelled,
           ReadFails \/ TakeChunk \/ (TakeEnd /\ inbound' # "done") \/ Collect \/ FailOutbound
    PROVE  Onward
<1>1. /\ Offers' = Offers /\ Way' = Way /\ UNCHANGED <<friend, view, accepted>>
      /\ "reader" \in Goroutines
  BY WaySame DEF ReadFails, TakeChunk, TakeEnd, Collect, FailOutbound, uiVars, clientVars, Goroutines
<1>m. /\ <<>> \in Seq(Mine("reader")) /\ <<Do("shutdown")>> \in Seq(Mine("reader"))
      /\ <<Do("seal")>> \in Seq(Mine("reader")) /\ <<Progress("in")>> \in Seq(Mine("reader"))
      /\ <<FailIn>> \in Seq(Mine("reader")) /\ <<FailOut>> \in Seq(Mine("reader"))
      /\ <<Do("failOut")>> \in Seq(Mine("reader")) /\ <<Do("abort")>> \in Seq(Mine("reader"))
  BY <1>1, InMine, ListsOf
<1>2. CASE ReadFails
  <2>1. todo["reader"] = <<>> /\ <<>> \notin Leaves /\ UNCHANGED <<inbound, listed>>
    BY <1>2, Heads DEF ReadFails, Idle, clientVars
  <2> QED BY <2>1, <1>1, <1>2, <1>m, OnwardBy DEF ReadFails
<1>3. CASE TakeChunk \/ (TakeEnd /\ inbound' # "done")
  <2>1. PICK o \in {"chunk", "end"} : At("reader", o)
    BY <1>3 DEF TakeChunk, TakeEnd
  <2>2. /\ todo["reader"] \in Seq(Mine("reader"))
        /\ Head(todo["reader"]) # FailIn /\ todo["reader"] \notin Leaves
    <3>1. Head(todo["reader"]) # FailIn /\ todo["reader"] \notin Leaves
      BY <2>1, Heads DEF At, FailIn, Emitting
    <3> QED BY <3>1, <2>1, <1>1, AtOwn
  <2>3. ASSUME UNCHANGED <<inbound, listed>>, NEW ops \in Seq(Mine("reader")), Goes("reader", ops)
        PROVE  Onward
    BY <2>2, <2>3, <1>1, OnwardBy
  <2>4. ASSUME inbound' = "failed", ~ listed', Goes("reader", <<Emitting(Event("failed", "in"))>> \o <<>>)
        PROVE  Onward
    <3>1. <<FailIn>> \o <<>> = <<FailIn>> /\ Head(<<FailIn>>) = FailIn
      OBVIOUS
    <3>2. PICK ops : ops = <<FailIn>>
      OBVIOUS
    <3>3. Goes("reader", ops) /\ ops \in Seq(Mine("reader")) /\ ops # <<>> /\ Head(ops) = FailIn
      BY <3>1, <3>2, <2>4, <1>m DEF FailIn
    <3>4. ~ Brings
      BY <2>2, Apart DEF Brings
    <3> QED BY <3>3, <3>4, <2>2, <2>4, <1>1, OnwardBy
  <2>5. <<Progress("in")>> \o <<>> \in Seq(Mine("reader"))
        /\ <<Progress("in")>> \o <<Do("seal")>> \in Seq(Mine("reader"))
    BY <1>m, ListsOf
  <2>6. \/ UNCHANGED <<inbound, listed>> /\ \E ops \in Seq(Mine("reader")) : Goes("reader", ops)
        \/ inbound' = "failed" /\ ~ listed' /\ Goes("reader", <<Emitting(Event("failed", "in"))>> \o <<>>)
    BY <1>3, <1>m, <2>5 DEF TakeChunk, TakeEnd, Aborts
  <2> QED BY <2>3, <2>4, <2>6
<1>4. CASE Collect
  <2>1. /\ At("reader", "collect") /\ UNCHANGED <<inbound, listed>>
        /\ Rest("reader") \in Seq(Mine("reader")) /\ todo["reader"] \in Seq(Mine("reader"))
    BY <1>1, <1>4, AtOwn DEF Collect, clientVars
  <2>2. Head(todo["reader"]) # FailIn
    BY <2>1 DEF At, FailIn, Emitting
  <2>3. PICK a, b : /\ a = (IF outbound = "none" THEN <<>> ELSE <<Do("failOut")>>)
                    /\ b = (IF listed THEN <<Do("abort")>> ELSE <<>>)
    OBVIOUS
  <2>4. a \in Seq(Mine("reader")) /\ b \in Seq(Mine("reader"))
    BY <2>3, <1>m
  <2>5. a \o b \o Rest("reader") \in Seq(Mine("reader")) /\ Goes("reader", a \o b \o Rest("reader"))
    BY <1>4, <2>1, <2>3, <2>4, ListsOf DEF Collect
  <2>6. ASSUME todo["reader"] \in Leaves, listed PROVE a \o b \o Rest("reader") \in Leaves
    <3>1. todo["reader"] = <<Do("collect"), Emitting(Note)>>
      BY <2>1, <2>6 DEF Leaves, At, Do, FailOut, Emitting
    <3>2. Rest("reader") = <<Emitting(Note)>> /\ b = <<Do("abort")>>
      BY <3>1, <2>3, <2>6, Tails DEF Rest
    <3>3. CASE a = <<>>
      <4>1. a \o b = <<Do("abort")>>
        BY <3>2, <3>3
      <4> QED BY <4>1, <3>2, Joined2 DEF Leaves
    <3>4. CASE a = <<Do("failOut")>>
      <4>1. a \o b = <<Do("failOut"), Do("abort")>>
        BY <3>2, <3>4, Joined2
      <4>2. <<Do("failOut"), Do("abort")>> \o <<Emitting(Note)>> = <<Do("failOut"), Do("abort"), Emitting(Note)>>
        BY Joined3
      <4> QED BY <4>1, <4>2, <3>2 DEF Leaves
    <3> QED BY <3>3, <3>4, <2>3
  <2> QED BY <1>1, <2>1, <2>2, <2>5, <2>6, OnwardBy
<1>5. CASE FailOutbound
  <2>1. /\ At("reader", "failOut") /\ UNCHANGED <<inbound, listed>>
        /\ Rest("reader") \in Seq(Mine("reader")) /\ todo["reader"] \in Seq(Mine("reader"))
    BY <1>1, <1>5, AtOwn DEF FailOutbound
  <2>2. Head(todo["reader"]) # FailIn
    BY <2>1 DEF At, FailIn, Emitting
  <2>3. PICK a : a = (IF outbound = "streaming" THEN <<FailOut>> ELSE <<>>)
    OBVIOUS
  <2>4. a \o Rest("reader") \in Seq(Mine("reader")) /\ Goes("reader", a \o Rest("reader"))
    <3>1. a \in Seq(Mine("reader"))
      BY <2>3, <1>m
    <3> QED BY <3>1, <1>5, <2>1, <2>3, ListsOf DEF FailOutbound, FailOut
  <2>5. ASSUME todo["reader"] \in Leaves PROVE a \o Rest("reader") \in Leaves
    <3>1. todo["reader"] = <<Do("failOut"), Do("abort"), Emitting(Note)>>
      BY <2>1, <2>5 DEF Leaves, At, Do, FailOut, Emitting
    <3>2. Rest("reader") = <<Do("abort"), Emitting(Note)>>
      BY <3>1, Tails DEF Rest
    <3>3. CASE a = <<>>
      BY <3>2, <3>3 DEF Leaves
    <3>4. CASE a = <<FailOut>>
      BY <3>2, <3>4, Joined3 DEF Leaves
    <3> QED BY <3>3, <3>4, <2>3
  <2> QED BY <1>1, <2>1, <2>2, <2>4, <2>5, OnwardBy
<1> QED BY <1>2, <1>3, <1>4, <1>5

\* All chunks are there.
LEMMA DoneKeeps ==
    ASSUME TodoInv, ListInv, OfferInv, ~ cancelled, TakeEnd, inbound' = "done"
    PROVE  OfferInv'
<1>1. CASE UNCHANGED <<inbound, listed>> /\ Goes("reader", <<>>)
  <2>1. At("reader", "end") /\ "reader" \in Goroutines
    BY DEF TakeEnd, Goroutines
  <2>2. /\ todo["reader"] \in Seq(Mine("reader")) /\ <<>> \in Seq(Mine("reader"))
        /\ Head(todo["reader"]) # FailIn /\ todo["reader"] \notin Leaves
    <3>1. Head(todo["reader"]) # FailIn /\ todo["reader"] \notin Leaves
      BY <2>1, Heads DEF At, FailIn, Emitting
    <3> QED BY <3>1, <2>1, AtOwn, ListsOf
  <2>3. Offers' = Offers /\ Way' = Way /\ UNCHANGED <<friend, view, accepted>>
    BY WaySame DEF TakeEnd, uiVars
  <2>4. Onward
    BY <1>1, <2>1, <2>2, <2>3, OnwardBy
  <2> QED BY <2>4, OnwardKeeps
<1>2. CASE /\ inbound = "streaming" /\ inbound' = "done" /\ ~ listed'
           /\ Goes("reader", <<Emitting(Event("complete", "in"))>>)
  <2>1. At("reader", "end") /\ Head(todo["reader"]) \in Mine("reader")
    <3>1. At("reader", "end") /\ "reader" \in Goroutines
      BY DEF TakeEnd, Goroutines
    <3> QED BY <3>1, AtOwn
  <2>2. accepted
    BY <2>1 DEF At, Mine
  <2>3. Offers' = Offers /\ Way' = Way /\ UNCHANGED <<friend, view, accepted>>
    BY WaySame DEF TakeEnd, uiVars
  <2>4. Offers = {}
    BY <1>2 DEF OfferInv
  <2>5. todo'["reader"] = <<Emitting(Event("complete", "in"))>> /\ todo'["ui"] = todo["ui"]
    BY <1>2, Others DEF Goroutines
  <2>6. ~ Brings'
    BY <2>5 DEF Brings, OfferIn, Emitting, Event
  <2> QED BY <1>2, <2>2, <2>3, <2>4, <2>5, <2>6 DEF OfferInv, Unheard
<1> QED BY <1>1, <1>2 DEF TakeEnd, Aborts

LEMMA ReadsKeep ==
    ASSUME TodoInv, ListInv, OrderInv, OfferInv, ~ cancelled, Reads
    PROVE  OfferInv'
BY ReadFrameKeeps, ReadsOnward, DoneKeeps, OnwardKeeps DEF Reads

LEMMA LoopsOnward ==
    ASSUME TodoInv, ListInv, Writes \/ Streams \/ ReceiveStall
    PROVE  Onward
<1>1. /\ Offers' = Offers /\ Way' = Way /\ UNCHANGED <<friend, view, accepted, inbound, listed>>
      /\ {"writer", "stream", "timer"} \subseteq Goroutines
  BY WaySame DEF Writes, WriteFrame, WriterStops, Streams, StreamChunk, Fail, Finish, ReceiveStall, uiVars,
     clientVars, Goroutines
<1>2. CASE UNCHANGED todo
  BY <1>1, <1>2 DEF Onward, Brings, Failing
<1>3. ASSUME NEW g \in {"writer", "stream", "timer"}, NEW ops \in Seq(Mine(g)), Goes(g, ops),
             Idle(g) \/ \E o \in {"fail", "finish"} : At(g, o)
      PROVE  Onward
  <2>1. todo[g] \in Seq(Mine(g)) /\ (todo[g] = <<>> \/ Head(todo[g]) # FailIn)
    <3>1. CASE Idle(g)
      BY <3>1, ListsOf DEF Idle
    <3>2. ASSUME NEW o \in {"fail", "finish"}, At(g, o)
          PROVE  todo[g] \in Seq(Mine(g)) /\ Head(todo[g]) # FailIn
      <4>1. Head(todo[g]) # FailIn
        BY <3>2 DEF At, FailIn, Emitting
      <4> QED BY <4>1, <3>2, <1>1, <1>3, AtOwn
    <3> QED BY <1>3, <3>1, <3>2
  <2> QED BY <2>1, <1>1, <1>3, OnwardBy
<1>4. CASE Writes
  <2>1. <<Do("shutdown")>> \in Seq(Mine("writer"))
    BY <1>1, InMine, ListsOf
  <2>2. Idle("writer") /\ (UNCHANGED todo \/ Goes("writer", <<Do("shutdown")>>))
    BY <1>4 DEF Writes, WriteFrame, WriterStops
  <2> QED BY <2>1, <2>2, <1>2, <1>3
<1>5. CASE Streams
  <2>1. Idle("stream") \/ \E o \in {"fail", "finish"} : At("stream", o)
    BY <1>5 DEF Streams, StreamChunk, Fail, Finish
  <2>2. \E ops \in Seq(Mine("stream")) : Goes("stream", ops)
    BY <1>5, StreamsTo
  <2> QED BY <2>1, <2>2, <1>3
<1>6. CASE ReceiveStall
  <2>1. <<Do("abort")>> \in Seq(Mine("timer"))
    <3>1. "timer" \in {"reader", "timer"}
      OBVIOUS
    <3> QED BY <1>1, <3>1, InMine, ListsOf
  <2>2. Idle("timer") /\ Goes("timer", <<Do("abort")>>)
    BY <1>6 DEF ReceiveStall
  <2> QED BY <2>1, <2>2, <1>3
<1> QED BY <1>4, <1>5, <1>6

LEMMA PressOnward == ASSUME TodoInv, ListInv, Press \/ Quit PROVE Onward
<1>1. /\ Offers' = Offers /\ Way' = Way /\ UNCHANGED <<friend, view, accepted, inbound>>
      /\ "ui" \in Goroutines /\ todo["ui"] = <<>> /\ (listed' => listed)
  BY WaySame DEF Press, Quit, Idle, uiVars, clientVars, Goroutines
<1>2. PICK ops : Goes("ui", ops) /\ (ops \in Seq(Mine("ui")) \/ view.offer)
  <2>1. /\ <<Do("write")>> \in Seq(Mine("ui")) /\ <<Do("write"), Emitting(Note)>> \in Seq(Mine("ui"))
        /\ <<Do("close"), Do("return")>> \in Seq(Mine("ui"))
    BY <1>1, InMine, ListsOf
  <2> QED BY <2>1 DEF Press, Quit
<1>3. <<>> \in Seq(Mine("ui"))
  BY ListsOf
<1> QED BY <1>1, <1>2, <1>3, OnwardBy

LEMMA CloseKeeps == ASSUME TodoInv, ListInv, OfferInv, ~ cancelled, Close \/ HangUp PROVE OfferInv'
<1>1. CASE cancelled'
  BY <1>1 DEF OfferInv
<1>2. CASE ~ cancelled'
  <2>1. /\ Offers' = Offers /\ Way' = Way /\ UNCHANGED <<friend, view, accepted, inbound, listed>>
        /\ "ui" \in Goroutines /\ Goes("ui", Rest("ui"))
    BY <1>2, WaySame DEF Close, HangUp, uiVars, clientVars, Goroutines
  <2>2. PICK o \in {"close", "hangup"} : At("ui", o)
    BY DEF Close, HangUp
  <2>3. /\ todo["ui"] \in Seq(Mine("ui")) /\ Rest("ui") \in Seq(Mine("ui"))
        /\ Head(todo["ui"]) # FailIn
    <3>1. Head(todo["ui"]) # FailIn
      BY <2>2 DEF At, FailIn, Emitting
    <3> QED BY <3>1, <2>1, <2>2, AtOwn
  <2>4. Onward
    BY <2>1, <2>3, OnwardBy
  <2> QED BY <2>4, OnwardKeeps
<1> QED BY <1>1, <1>2

LEMMA AcceptKeeps == ASSUME TodoInv, ListInv, OfferInv, ~ cancelled, AcceptTransfer PROVE OfferInv'
<1>1. /\ Offers' = Offers /\ Way' = Way /\ UNCHANGED <<friend, view, accepted, listed>>
      /\ At("ui", "accept")
  BY WaySame DEF AcceptTransfer, uiVars
<1>2. /\ todo["ui"] \notin Seq(Mine("ui")) /\ todo["ui"] \notin Accepts \cup Accepteds
      /\ Head(todo["ui"]) # FailIn
  BY <1>1, Heads, ListsOf DEF At, Mine, FailIn, Emitting
<1>3. PICK ops : /\ Goes("ui", ops)
                 /\ \/ UNCHANGED inbound
                    \/ inbound = "offered" /\ inbound' = "streaming" /\ ops \in Accepts
  BY DEF AcceptTransfer, Accepts, Began
<1>4. todo'["ui"] = ops /\ \A h \in Goroutines \ {"ui"} : todo'[h] = todo[h]
  BY <1>3, Others DEF Goroutines
<1>5. todo'["reader"] = todo["reader"] /\ Brings' = Brings
  BY <1>4 DEF Goroutines, Brings
<1>6. Failing => Failing'
  BY <1>2, <1>4 DEF Failing
<1>7. ~ Unheard
  BY <1>2 DEF OfferInv
<1>8. ~ Unheard'
  BY <1>1, <1>3, <1>5, <1>7 DEF Unheard
<1>9. view.offer => ~ accepted
  BY <1>2 DEF OfferInv
<1>10. CASE UNCHANGED inbound
  BY <1>1, <1>2, <1>5, <1>6, <1>7, <1>8, <1>10 DEF OfferInv, Unheard, IsFail
<1>11. CASE inbound = "offered" /\ inbound' = "streaming" /\ ops \in Accepts
  BY <1>1, <1>4, <1>5, <1>7, <1>8, <1>9, <1>11 DEF OfferInv, Unheard
<1> QED BY <1>3, <1>10, <1>11

LEMMA AnsweredKeeps == ASSUME TodoInv, OfferInv, ~ cancelled, view \in Views, Answered PROVE OfferInv'
<1>1. /\ Offers' = Offers /\ Way' = Way /\ UNCHANGED <<friend, accepted, inbound, listed>>
      /\ Goes("ui", <<>>) /\ "ui" \in Goroutines
  BY WaySame DEF Answered, clientVars, Goroutines
<1>2. ~ view'.offer
  BY DEF Answered, Views
<1>3. Head(todo["ui"]) # FailIn
  BY DEF Answered, At, FailIn, Emitting
<1>4. todo'["ui"] = <<>> /\ \A h \in Goroutines \ {"ui"} : todo'[h] = todo[h]
  BY <1>1, Others
<1>5. todo'["reader"] = todo["reader"] /\ Brings' = Brings
  BY <1>4 DEF Goroutines, Brings
<1>6. Failing => Failing'
  BY <1>3, <1>4 DEF Failing
<1>7. todo'["ui"] \in Seq(Mine("ui")')
  BY <1>4, ListsOf
<1>8. Unheard' <=> Unheard
  BY <1>1, <1>5 DEF Unheard
<1> QED BY <1>1, <1>2, <1>5, <1>6, <1>7, <1>8 DEF OfferInv, Unheard, IsFail

\* What Update makes of the offer that is shown.
LEMMA ShowsOffer ==
    ASSUME view \in Views, NEW e \in Numbered
    PROVE  Shown(e).offer = IF e.kind = "offer" THEN TRUE ELSE IF IsFail(e) THEN FALSE ELSE view.offer
BY DEF Shown, Views, Numbered, Kinds, IsFail

LEMMA UpdateKeeps ==
    ASSUME OrderInv, OfferInv, ~ cancelled, view \in Views, Update
    PROVE  OfferInv'
<1>1. UNCHANGED <<friend, accepted, inbound, listed, todo>>
  BY DEF Update, clientVars
<1>2. PICK e \in Numbered \cap Way : /\ Way' = Way \ {e} /\ view' = Shown(e)
                                     /\ \A y \in Way \ {e} : y.n > e.n
  BY WayUpdate
<1>3. view'.offer = IF e.kind = "offer" THEN TRUE ELSE IF IsFail(e) THEN FALSE ELSE view.offer
  BY <1>2, ShowsOffer
<1>4. Offers' = Offers \ {e} /\ Way \subseteq Numbered
  BY <1>2 DEF Offers, Way, OrderInv
<1>5. /\ Brings' = Brings /\ Failing' = Failing /\ Mine("ui")' = Mine("ui")
      /\ Unheard' => Unheard
  BY <1>1, <1>4 DEF Brings, Failing, Mine, Unheard
<1>6. ASSUME NEW y \in Offers'
      PROVE  \/ inbound = "offered"
             \/ inbound = "failed" /\ (Failing \/ \E f \in Way' : IsFail(f) /\ f.n > y.n)
  <2>1. y \in Way \ {e} /\ y \in Offers
    BY <1>2, <1>4, <1>6 DEF Offers
  <2>2. ASSUME NEW f \in Way, f.n > y.n PROVE f \in Way'
    <3>1. f.n \in Nat /\ y.n \in Nat /\ e.n \in Nat
      BY <1>2, <1>4, <2>1 DEF Numbered
    <3>2. y.n > e.n
      BY <1>2, <2>1
    <3>3. f # e
      BY <3>1, <3>2, <2>2
    <3> QED BY <3>3, <1>2
  <2> QED BY <2>1, <2>2 DEF OfferInv
<1>7. CASE e.kind = "offer"
  <2>1. e \in Offers /\ ~ IsFail(e)
    BY <1>2, <1>7 DEF Offers, IsFail
  <2>2. Offers' = {} /\ inbound # "none" /\ ~ Brings /\ ~ accepted
    BY <2>1, <1>4 DEF OfferInv, Unheard
  <2>3. inbound = "offered" \/ (inbound = "failed" /\ (Failing \/ \E f \in Way' : IsFail(f)))
    <3>1. \A f \in Way : IsFail(f) => f \in Way'
      BY <2>1, <1>2
    <3> QED BY <3>1, <2>1 DEF OfferInv
  <2>4. ~ Unheard'
    BY <2>2, <1>1, <1>5 DEF Unheard
  <2> QED BY <1>1, <1>5, <2>2, <2>3, <2>4 DEF OfferInv, IsFail
<1>8. CASE e.kind # "offer"
  <2>1. view'.offer => view.offer
    BY <1>3, <1>8
  <2>2. view'.offer /\ inbound = "failed" => Failing \/ \E f \in Way' : IsFail(f)
    BY <1>2, <1>3, <1>8, <2>1 DEF OfferInv
  <2>3. Offers' \subseteq Offers
    BY <1>4
  <2> QED BY <1>1, <1>5, <1>6, <2>1, <2>2, <2>3 DEF OfferInv, IsFail
<1> QED BY <1>7, <1>8

LEMMA OfferNext ==
    ASSUME TodoInv, ListInv, OrderInv, view \in Views, OfferInv, [Next]_vars
    PROVE  OfferInv'
<1>1. CASE cancelled
  <2>1. cancelled'
    BY <1>1 DEF Next, Step, Emit, EmitProgress, Write, SealAndSend, AbortInbound, Shutdown, Report, Cancel,
       Return, Reads, ReadFrame, ReadFails, TakeChunk, TakeEnd, Collect, FailOutbound, Writes, WriteFrame,
       WriterStops, Streams, StreamChunk, Fail, Finish, Commands, AcceptTransfer, Answered, Close, HangUp,
       Listen, Update, Press, Quit, ReceiveStall, ConnectionLost, vars, closeVars
  <2> QED BY <2>1 DEF OfferInv
<1>2. CASE ~ cancelled
  <2>1. CASE Listen \/ ConnectionLost \/ UNCHANGED vars
    <3>1. Way' = Way /\ Offers' = Offers
      <4>1. Way' = Way
        BY <2>1, WayListen, WaySame DEF ConnectionLost, vars, uiVars
      <4> QED BY <4>1 DEF Offers
    <3>2. UNCHANGED <<todo, friend, view, accepted, inbound, listed>>
      BY <2>1 DEF Listen, ConnectionLost, vars, uiVars, clientVars
    <3>3. Onward
      BY <3>1, <3>2 DEF Onward, Brings, Failing
    <3> QED BY <3>3, <1>2, OnwardKeeps
  <2> QED
    BY <1>2, <2>1, StepKeeps, ReadsKeep, LoopsOnward, PressOnward, CloseKeeps, AcceptKeeps, AnsweredKeeps,
       UpdateKeeps, OnwardKeeps DEF Next, Commands
<1> QED BY <1>1, <1>2

LEMMA OfferInit == Init => OfferInv
<1> SUFFICES ASSUME Init PROVE OfferInv
  OBVIOUS
<1>1. PICK s \in Starts : /\ inbound = (IF "in" \in s.going THEN "streaming" ELSE "none")
                            /\ accepted = ("in" \in s.going) /\ listed = ("in" \in s.going)
  BY DEF Init
<1>2. /\ todo = [g \in Goroutines |-> <<>>] /\ events = <<>> /\ held = {} /\ friend = TRUE
      /\ view.offer = FALSE
  BY DEF Init
<1>3. Way = {} /\ Offers = {}
  BY <1>2 DEF Way, Offers
<1>4. ~ Brings /\ todo["ui"] \in Seq(Mine("ui"))
  BY <1>2, ListsOf, Heads DEF Brings, Goroutines
<1> QED BY <1>1, <1>2, <1>3, <1>4 DEF OfferInv, Unheard

\* No answer, departure, silence or failed command leaves an offer in front
\* of the user that was accepted or has failed: whoever failed the transfer
\* has reported it or is about to, after the offer, and the command that
\* accepted is still under way.
THEOREM OffersLive == Spec => []OffersAreLive
<1>1. Init => ListInv /\ OfferInv
  BY ListInit, OfferInit
<1>2. TodoInv /\ OrderInv /\ view \in Views /\ ListInv /\ OfferInv /\ [Next]_vars => (ListInv /\ OfferInv)'
  BY ListNext, OfferNext
<1>3. OfferInv /\ TypeOK => OffersAreLive
  <2> SUFFICES ASSUME OfferInv, TypeOK, Quiet, view.offer
               PROVE  inbound = "offered" \/ (inbound = "streaming" /\ ~ listed)
    BY DEF OffersAreLive
  <2>1. /\ todo["reader"] = <<>> /\ todo["ui"] = <<>> /\ ~ cancelled /\ ~ Failing
        /\ Way = {}
    BY DEF Quiet, Goroutines, Failing, Way
  <2>2. <<>> \notin Accepts \cup Accepteds \cup Leaves
    BY Heads
  <2>3. inbound # "none"
    BY <2>1 DEF OfferInv, Unheard
  <2>4. inbound # "failed" /\ ~ accepted
    BY <2>1, <2>2 DEF OfferInv
  <2>5. inbound # "done"
    BY <2>1, <2>4 DEF OfferInv
  <2>6. listed => friend
    BY <2>1, <2>2 DEF OfferInv
  <2>7. ~ (inbound = "streaming" /\ listed)
    BY <2>1, <2>2, <2>6 DEF OfferInv
  <2> QED BY <2>3, <2>4, <2>5, <2>7 DEF TypeOK
<1> QED BY <1>1, <1>2, <1>3, Inductive, Reports, TypeCorrect, PTL DEF Spec
=============================================================================
