---------------------------- MODULE MCPortalSend ----------------------------
(***************************************************************************)
(* Instances of PortalSend for TLC.                                        *)
(***************************************************************************)
EXTENDS PortalSend, TLC
=============================================================================
