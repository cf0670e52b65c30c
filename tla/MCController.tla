---------------------------- MODULE MCController ----------------------------
(***************************************************************************)
(* Values for the constants of Controller, chosen per run by the cfg files *)
(***************************************************************************)
EXTENDS Controller

CONSTANTS r1, n1, n2, c1, c2, noRun

Never == 9

(* x for n1 and y for every other node.                                    *)
ByNode(x, y) == [n \in Nodes |-> IF n = n1 THEN x ELSE y]

DocumentOrder == ByNode(1, 2)
Chain == ByNode({}, {n1})       \* n2 consumes what n1 produces
Independent == ByNode({}, {})
NoResource == ByNode({}, {})
PatchThenCheck == ByNode("patch", "check")

TwoThenOne == ByNode(2, 1)
RetryableN1 == ByNode({"rejected"}, {})
GateThenCancel == ByNode("gate", "cancel")

SoloLineage == [r \in Runs |-> noRun]
NoImports == [r \in Runs |-> {}]
OneActive == [c \in Controllers |-> 1]
=============================================================================
