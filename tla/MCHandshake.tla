----------------------------- MODULE MCHandshake -----------------------------
(***************************************************************************)
(* Instance of Handshake for TLC.                                          *)
(***************************************************************************)
EXTENDS Handshake, TLC
=============================================================================
