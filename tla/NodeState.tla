------------------------------ MODULE NodeState ------------------------------
(***************************************************************************)
(* The reducer of src/src/state/mod.rs: what one ledger event does to one  *)
(* node.  The code's `apply` returns either the next state or an error;    *)
(* here Legal says when it returns a state and Apply says which.           *)
(*                                                                         *)
(* Receipts and packets are named by the attempt number they were issued   *)
(* for (the code's `rcpt-<node>-<number>` and `gate-<node>-<number>`), so  *)
(* None, the code's Option::None, is the number no attempt has.            *)
(***************************************************************************)
EXTENDS Naturals

None == 0

Statuses == {"open", "running", "accepted", "rejected", "failed", "gated",
             "cancelled"}

Outcomes  == {"completed", "failed", "timed_out", "cancelled"}
Verdicts  == {"accept", "reject", "undecidable"}
Decisions == {"retry", "approve_action", "deny_action", "record_assessment",
              "cancel", "revise"}

NodeStateType ==
    [status   : Statuses,
     current  : Nat,        \* current_attempt
     started  : Nat,        \* attempts_started
     checking : BOOLEAN,
     receipt  : Nat,
     gate     : Nat]        \* waiting_on_gate

OpenState == [status |-> "open", current |-> None, started |-> 0,
              checking |-> FALSE, receipt |-> None, gate |-> None]

(***************************************************************************)
(* Events, by the kinds the ledger stores.                                 *)
(***************************************************************************)
Dispatched(k)       == [kind |-> "attempt_dispatched", attempt |-> k]
Finished(k, o)      == [kind |-> "attempt_sealed", attempt |-> k, outcome |-> o]
Judged(k, v)        == [kind |-> "receipt_admitted", attempt |-> k, verdict |-> v]
RetryAllowed        == [kind |-> "retry_allowed"]
GateOpened(p)       == [kind |-> "gate_opened", packet |-> p]
Decided(p, d)       == [kind |-> "decision_admitted", packet |-> p, decision |-> d]
NodeCancelled       == [kind |-> "node_cancelled"]

CancelledIsTerminal(s) == s.status = "cancelled"

IsTerminal(s) == s.status \in {"accepted", "cancelled"}

(* Which events the reducer takes in state s.                              *)
Legal(s, e) ==
    \/ /\ e.kind = "attempt_dispatched"
       /\ s.status = "open"
       /\ e.attempt = s.started + 1
    \/ /\ e.kind = "attempt_sealed"
       /\ s.status = "running"
       /\ s.current = e.attempt
       /\ ~s.checking
    \/ /\ e.kind = "receipt_admitted"
       /\ s.status = "running"
       /\ s.current = e.attempt
       /\ s.checking
    \/ /\ e.kind = "retry_allowed"
       /\ s.status \in {"rejected", "failed"}
    \/ /\ e.kind = "gate_opened"
       /\ \/ s.status \in {"rejected", "failed"}
          \/ s.status = "gated" /\ s.gate = None
    \/ /\ e.kind = "decision_admitted"
       /\ s.status = "gated"
       /\ s.gate = e.packet
    \/ /\ e.kind = "node_cancelled"
       /\ ~IsTerminal(s)

(***************************************************************************)
(* The state after a legal event, by kind.                                 *)
(***************************************************************************)
AfterDispatch(s, k) ==
    [status |-> "running", current |-> k, started |-> s.started + 1,
     checking |-> FALSE, receipt |-> None, gate |-> None]

AfterExecution(s, o) ==
    CASE o = "completed" -> [s EXCEPT !.checking = TRUE]
      [] o \in {"failed", "timed_out"} -> [s EXCEPT !.status = "failed"]
      [] o = "cancelled" -> [s EXCEPT !.status = "cancelled"]

StillChecking(s, k, v) ==
    CASE v = "accept" -> [s EXCEPT !.checking = FALSE, !.status = "accepted", !.receipt = k]
      [] v = "reject" -> [s EXCEPT !.checking = FALSE, !.status = "rejected", !.receipt = k]
      [] v = "undecidable" -> [s EXCEPT !.status = "gated"]

AfterVerdict(s, k, v) ==
    CASE v = "accept" ->
           [s EXCEPT !.checking = FALSE, !.status = "accepted", !.receipt = k]
      [] v = "reject" ->
           [s EXCEPT !.checking = FALSE, !.status = "rejected", !.receipt = k]
      [] v = "undecidable" ->
           [s EXCEPT !.checking = FALSE, !.status = "gated", !.receipt = None,
                     !.gate = None]

RetryFromScratch(s) == OpenState

RetryKeepsReceipt(s) == [s EXCEPT !.status = "open", !.current = None]

AfterRetry(s) == [s EXCEPT !.status = "open", !.current = None, !.receipt = None]

AfterGate(s, p) ==
    [s EXCEPT !.status = "gated", !.gate = p,
              !.receipt = IF s.status = "gated" THEN s.receipt ELSE None]

DecisionKeepsGate(s, d) ==
    IF d \in {"cancel", "revise"}
    THEN [s EXCEPT !.status = "cancelled", !.receipt = None]
    ELSE [s EXCEPT !.status = "open", !.current = None, !.receipt = None]

AfterDecision(s, d) ==
    IF d \in {"cancel", "revise"}
    THEN [s EXCEPT !.status = "cancelled", !.gate = None, !.receipt = None]
    ELSE [s EXCEPT !.status = "open", !.current = None, !.gate = None,
                   !.receipt = None]

AfterCancel(s) ==
    [s EXCEPT !.status = "cancelled",
              !.checking = IF s.status = "running" THEN FALSE ELSE s.checking,
              !.gate = IF s.status \in {"open", "gated"} THEN None ELSE s.gate]

Apply(s, e) ==
    CASE e.kind = "attempt_dispatched" -> AfterDispatch(s, e.attempt)
      [] e.kind = "attempt_sealed"     -> AfterExecution(s, e.outcome)
      [] e.kind = "receipt_admitted"   -> AfterVerdict(s, e.attempt, e.verdict)
      [] e.kind = "retry_allowed"      -> AfterRetry(s)
      [] e.kind = "gate_opened"        -> AfterGate(s, e.packet)
      [] e.kind = "decision_admitted"  -> AfterDecision(s, e.decision)
      [] e.kind = "node_cancelled"     -> AfterCancel(s)

(***************************************************************************)
(* NodeView::check_bindings on the view of s: which statuses name a        *)
(* receipt, a current attempt and a gate.                                  *)
(***************************************************************************)
ViewValid(s) ==
    /\ s.receipt # None <=> s.status \in {"accepted", "rejected"}
    /\ s.status \in Statuses \ {"open", "cancelled"} => s.current # None
    /\ s.gate # None <=> s.status = "gated"
=============================================================================
