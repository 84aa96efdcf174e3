---------------------------- MODULE MCDiscovery -----------------------------
(***************************************************************************)
(* Instance of Discovery for TLC.  Identities and connections are          *)
(* interchangeable, but the run checks a liveness property, for which      *)
(* symmetry is not sound.                                                  *)
(***************************************************************************)
EXTENDS Discovery, TLC
=============================================================================
