------------------------------ MODULE MCConsent ------------------------------
(***************************************************************************)
(* Instance of Consent for TLC.                                            *)
(***************************************************************************)
EXTENDS Consent, TLC
=============================================================================
