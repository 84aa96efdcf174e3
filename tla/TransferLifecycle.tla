-------------------------- MODULE TransferLifecycle --------------------------
(***************************************************************************)
(* What the portal promises its user of one transfer, on either side: the  *)
(* statuses the comment above the transfer state in App.tsx lists, in that *)
(* order only, a verdict that is final (Safe), and a stream that ends.     *)
(* PortalReceive implements it, and PortalSend does but for the end of a   *)
(* stream whose socket closed with a full buffer.                          *)
(***************************************************************************)
VARIABLE phase      \* what the transfer list shows of the transfer

Phases == {"new", "asked", "streaming", "done", "rejected", "aborted", "gone"}

Settled == {"done", "rejected", "aborted"}

Init == phase = "new"

\* The offer is made, or arrives.
Ask == phase = "new" /\ phase' = "asked"

\* An offer that is lost on its way is never heard of.
Lose == phase = "new" /\ phase' = "gone"

Begin == phase = "asked" /\ phase' = "streaming"

\* The receiver of a rejected offer keeps nothing of it.
Reject == phase = "asked" /\ phase' \in {"rejected", "gone"}

Finish == phase = "streaming" /\ phase' = "done"

Abort == phase \in {"asked", "streaming"} /\ phase' = "aborted"

\* The user dismisses a settled transfer; its id is never used again.
Forget == phase \in Settled /\ phase' = "gone"

Next == Ask \/ Lose \/ Begin \/ Reject \/ Finish \/ Abort \/ Forget

Safe == Init /\ [][Next]_phase

Spec == Safe /\ WF_phase(phase = "streaming" /\ (Finish \/ Abort))
=============================================================================
