------------------------------ MODULE MCLedger ------------------------------
(***************************************************************************)
(* Values for the constants of Ledger, chosen per run by the cfg files.    *)
(***************************************************************************)
EXTENDS Ledger

CONSTANTS r1, r2, n1, n2, c1, res, noRun

Never == 9

(* x for n1 and y for every other node.                                    *)
ByNode(x, y) == [n \in Nodes |-> IF n = n1 THEN x ELSE y]

DocumentOrder == ByNode(1, 2)
Chain == ByNode({}, {n1})       \* n2 consumes what n1 produces
Independent == ByNode({}, {})

NoResource == ByNode({}, {})
OnlyN1 == ByNode({res}, {})
OnlyN2 == ByNode({}, {res})

OneAttempt == ByNode(1, 1)
TwoAttempts == ByNode(2, 1)
RetryableN1 == ByNode({"rejected", "infrastructure"}, {"rejected"})
NeverRetry == ByNode({}, {})
GateThenCancel == ByNode("gate", "cancel")
AlwaysCancel == ByNode("cancel", "cancel")

SoloLineage == [r \in Runs |-> noRun]
NoImports == [r \in Runs |-> {}]
TwoActive == [c \in Controllers |-> 2]

(* r2 spends r1's budget and imports the first receipt of r1's n1.         *)
ChildLineage == [r \in Runs |-> IF r = r2 THEN r1 ELSE noRun]
ChildImports ==
    [r \in Runs |->
        IF r = r2
        THEN {[node |-> n1, until |-> 2,
               receipt |-> [run |-> r1, node |-> n1, number |-> 1]]}
        ELSE {}]
=============================================================================
