---------------------------- MODULE NodeLifecycle ----------------------------
(***************************************************************************)
(* What the ledger promises about the nodes of all its runs, without its   *)
(* tables: work on a node starts only over accepted dependencies, an       *)
(* acceptance comes only from a verdict on finished work, accepted and     *)
(* cancelled are final, and attempts are only ever added.                  *)
(***************************************************************************)
EXTENDS Naturals

CONSTANTS Runs, Nodes, Deps

VARIABLES
    phase,   \* where each node of each run stands
    tries    \* attempts started

vars == <<phase, tries>>

Phases == {"open", "working", "checking", "stopped", "accepted", "cancelled"}

Init ==
    /\ phase = [r \in Runs |-> [n \in Nodes |-> "open"]]
    /\ tries = [r \in Runs |-> [n \in Nodes |-> 0]]

(* Some run accepted node d.                                               *)
Established(d) == \E s \in Runs : phase[s][d] = "accepted"

Move(r, n, from, to) ==
    /\ phase[r][n] \in from
    /\ phase' = [phase EXCEPT ![r][n] = to]

Start(r, n) ==
    /\ \A d \in Deps[n] : Established(d)
    /\ Move(r, n, {"open"}, "working")
    /\ tries' = [tries EXCEPT ![r][n] = tries[r][n] + 1]

Finish(r, n) ==
    /\ Move(r, n, {"working"}, "checking") \/ Move(r, n, {"working"}, "stopped")
    /\ UNCHANGED tries

Judge(r, n) ==
    /\ Move(r, n, {"checking"}, "accepted") \/ Move(r, n, {"checking"}, "stopped")
    /\ UNCHANGED tries

Reopen(r, n) == Move(r, n, {"stopped"}, "open") /\ UNCHANGED tries

Abandon(r, n) ==
    /\ Move(r, n, Phases \ {"accepted", "cancelled"}, "cancelled")
    /\ UNCHANGED tries

Next ==
    \E r \in Runs, n \in Nodes :
        \/ Start(r, n)
        \/ Finish(r, n)
        \/ Judge(r, n)
        \/ Reopen(r, n)
        \/ Abandon(r, n)

Spec == Init /\ [][Next]_vars
=============================================================================
