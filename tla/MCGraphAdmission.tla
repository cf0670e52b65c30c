-------------------------- MODULE MCGraphAdmission --------------------------
(***************************************************************************)
(* Which graphs TLC enumerates.                                            *)
(***************************************************************************)
EXTENDS GraphAdmission

(* At most one source of one proof port, and one target of one gate.       *)
OneProof == {{}} \cup {{<<N, s>>} : s \in {Outside, 1}}
OneGate == {{}} \cup {{<<2, t>>} : t \in Names}
=============================================================================
