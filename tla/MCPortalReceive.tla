--------------------------- MODULE MCPortalReceive ---------------------------
(***************************************************************************)
(* Instances of PortalReceive for TLC.                                     *)
(***************************************************************************)
EXTENDS PortalReceive, TLC
=============================================================================
