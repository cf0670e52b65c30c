---------------------------- MODULE MCVerification ----------------------------
(* Values for TLC: one required check, and a content it does not pass on.  *)
EXTENDS Verification, TLC

MCRequired == <<"test">>
MCPasses == [c \in {"test"} |-> {"good"}]
MCSymmetry == Permutations(Procs)

(* Behaviours in which an edit was undone are what AcceptedPasses leaves   *)
(* out, so they are not followed.  Two attempts show what an edited and    *)
(* committed checkout does to a verification; the third, a repeated check, *)
(* is followed while checkout and HEAD keep the content they began with.   *)
Unedited == \E c \in Contents : past = {c}
Explored == ~returned /\ (Unedited \/ Len(attempts) <= 2)
=============================================================================
