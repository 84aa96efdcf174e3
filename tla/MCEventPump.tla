---------------------------- MODULE MCEventPump ----------------------------
(***************************************************************************)
(* Instances of EventPump for TLC.                                         *)
(***************************************************************************)
EXTENDS EventPump, TLC

Start(g, f, k) == [going |-> g, frames |-> f, keys |-> k]

\* An offer and every answer to it, a file coming in, a file going out.
Each == {Start({}, 2, {"accept", "reject", "quit"}),
         Start({"in"}, 1, {"befriend", "quit"}),
         Start({"in"}, 1, {"direct"}),
         Start({"out"}, 1, {}),
         Start({"out"}, 0, {"quit"})}

\* A file comes in, and the user accepts an invite.
Receiving == {Start({"in"}, 2, {"befriend"})}
=============================================================================
