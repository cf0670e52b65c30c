--------------------------- MODULE MCVerifierHost ---------------------------
(***************************************************************************)
(* Processes for VerifierHost, chosen per run by the cfg files.            *)
(***************************************************************************)
EXTENDS VerifierHost

CONSTANTS child, helper, check
=============================================================================
