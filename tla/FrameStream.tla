----------------------------- MODULE FrameStream -----------------------------
(***************************************************************************)
(* What a connection of the portal promises to its subscriber: the text    *)
(* frames the relay sends after the welcome are heard once each and in the *)
(* order they were sent, with no gap, until the stream is over; and as     *)
(* long as it is not over they are heard.  This is the contract of         *)
(* RelayConnection.onMessage in relay/client.ts; Handshake implements it.  *)
(***************************************************************************)
EXTENDS Naturals, Sequences

CONSTANT Frames     \* text frames a relay may send

VARIABLES
    posted,     \* what the relay has sent after the welcome
    heard,      \* what the subscriber has been given
    over        \* nothing more will be given to it

streamVars == <<posted, heard, over>>

Init == posted = <<>> /\ heard = <<>> /\ ~ over

Post ==
    /\ \E f \in Frames : posted' = Append(posted, f)
    /\ UNCHANGED <<heard, over>>

\* The next frames, one or several at once.
Hear ==
    /\ ~ over
    /\ \E n \in (Len(heard) + 1)..Len(posted) : heard' = SubSeq(posted, 1, n)
    /\ UNCHANGED posted
    /\ over' \in {over, TRUE}

End ==
    /\ over' = TRUE
    /\ UNCHANGED <<posted, heard>>

Next == Post \/ Hear \/ End

Spec == Init /\ [][Next]_streamVars /\ WF_streamVars(Hear)
=============================================================================
