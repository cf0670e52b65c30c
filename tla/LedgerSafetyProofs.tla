------------------------- MODULE LedgerSafetyProofs -------------------------
(***************************************************************************)
(* Theorems about how the tables of Ledger agree with each other and with  *)
(* the event logs, for every value of its constants.                       *)
(*                                                                         *)
(* The first section says once what each transaction does to the node it   *)
(* names and to the tables; the proofs after it rest on those lemmas and   *)
(* not on the transactions.                                                *)
(***************************************************************************)
EXTENDS LedgerProofs, FiniteSetTheorems

(* A step moves node n of run r at most.                                   *)
OthersStay(r, n) ==
    \A s \in Runs, m \in Nodes : s # r \/ m # n => node'[s][m] = node[s][m]

(* The attempt a node is at.                                               *)
CurrentRef(r, n) == [run |-> r, node |-> n, number |-> node[r][n].current]

-----------------------------------------------------------------------------
(* What the transactions do.                                               *)

(* A verdict ends the checking, whatever it is.                            *)
LEMMA VerdictMoves ==
    ASSUME NEW s \in NodeStateType, NEW k, NEW v \in Verdicts
    PROVE  /\ AfterVerdict(s, k, v).started = s.started
           /\ AfterVerdict(s, k, v).current = s.current
           /\ ~AfterVerdict(s, k, v).checking
           /\ AfterVerdict(s, k, v).status \in {"accepted", "rejected", "gated"}
           /\ AfterVerdict(s, k, v).status = "accepted" <=> v = "accept"
           /\ AfterVerdict(s, k, v).status = "gated" <=> v = "undecidable"
           /\ v # "undecidable" =>
                 /\ AfterVerdict(s, k, v).receipt = k
                 /\ AfterVerdict(s, k, v).gate = s.gate
           /\ v = "undecidable" =>
                 /\ AfterVerdict(s, k, v).receipt = None
                 /\ AfterVerdict(s, k, v).gate = None
<1>1. CASE v = "accept"
  BY <1>1 DEF AfterVerdict, NodeStateType
<1>2. CASE v = "reject"
  BY <1>2 DEF AfterVerdict, NodeStateType
<1>3. CASE v = "undecidable"
  BY <1>3 DEF AfterVerdict, NodeStateType
<1>4. QED
  BY <1>1, <1>2, <1>3 DEF Verdicts

(* claim_next: an open node with no other active claim in conflict starts  *)
(* its next attempt, for which one row is added.                           *)
LEMMA ClaimStep ==
    ASSUME Typed, NEW r \in Runs, NEW c \in Controllers, NEW now \in Times,
           ClaimNext(r, c, now)
    PROVE  \E n \in Nodes, row \in ClaimType :
              /\ ~BudgetExhausted(r, now) /\ Ready(r, n, now)
              /\ node[r][n] \in NodeStateType
              /\ node[r][n].status = "open"
              /\ node'[r][n] = AfterDispatch(node[r][n], node[r][n].started + 1)
              /\ OthersStay(r, n)
              /\ row.run = r /\ row.node = n
              /\ row.number = node[r][n].started + 1
              /\ row.deps = Snapshot(r, n)
              /\ row.release = "held"
              /\ RefOf(row) \notin Keys(claims)
              /\ claims' = claims \cup {row}
              /\ UNCHANGED <<created, attempts, receipts, packets, decided,
                             revoked, broken>>
<1>1. PICK n \in Nodes :
         /\ Ready(r, n, now)
         /\ [run |-> r, node |-> n, number |-> node[r][n].started + 1]
               \notin Keys(claims)
         /\ AppendEvent(r, n, Dispatched(node[r][n].started + 1))
         /\ claims' = claims \cup
              {[run |-> r, node |-> n, number |-> node[r][n].started + 1,
                owner |-> c, fence |-> NextFence(r), deps |-> Snapshot(r, n),
                release |-> "held"]}
  BY DEF ClaimNext, IsNextReady
<1> DEFINE row == [run |-> r, node |-> n, number |-> node[r][n].started + 1,
                   owner |-> c, fence |-> NextFence(r), deps |-> Snapshot(r, n),
                   release |-> "held"]
<1>2. /\ node[r][n].started + 1 \in Nat \ {0}
      /\ Dispatched(node[r][n].started + 1) \in Events
  BY EventsOfTransactions DEF Typed, TypeOK, NodeStateType
<1>3. NextFence(r) \in Nat \ {0} /\ Snapshot(r, n) \in SUBSET Refs
  BY <1>1, NextFenceIsLargest, SnapshotIsAccepted DEF Typed
<1>4. row \in ClaimType
  BY <1>2, <1>3 DEF ClaimType
<1>5. /\ node[r][n] \in NodeStateType
      /\ Legal(node[r][n], Dispatched(node[r][n].started + 1))
      /\ node'[r][n] = Apply(node[r][n], Dispatched(node[r][n].started + 1))
      /\ OthersStay(r, n)
  BY <1>1, <1>2, AppendOne DEF Typed, OthersStay
<1>6. /\ node[r][n].status = "open"
      /\ node'[r][n] = AfterDispatch(node[r][n], node[r][n].started + 1)
  BY <1>5 DEF Legal, Apply, Dispatched
<1>7. ~BudgetExhausted(r, now) /\ UNCHANGED <<created, attempts, receipts,
         packets, decided, revoked, broken>>
  BY DEF ClaimNext, MayClaim
<1>8. RefOf(row) \notin Keys(claims) /\ claims' = claims \cup {row}
  BY <1>1 DEF RefOf
<1>9. QED
  BY <1>1, <1>4, <1>5, <1>6, <1>7, <1>8

(* complete and reclaim: the attempt under way ends, is sealed with the    *)
(* dependencies pinned at its claim, and its claim is released.            *)
LEMMA SealStep ==
    ASSUME Typed, NEW c \in claims, NEW o \in Outcomes,
           NEW how \in {"completed", "reclaimed"}, SealAndRelease(c, o, how)
    PROVE  /\ c \in ClaimType
           /\ node[c.run][c.node] \in NodeStateType
           /\ node[c.run][c.node].status = "running"
           /\ node[c.run][c.node].current = c.number
           /\ ~node[c.run][c.node].checking
           /\ node'[c.run][c.node] = AfterExecution(node[c.run][c.node], o)
           /\ OthersStay(c.run, c.node)
           /\ RefOf(c) \notin Keys(attempts)
           /\ \E a \in AttemptType :
                 /\ RefOf(a) = RefOf(c) /\ a.outcome = o /\ a.deps = c.deps
                 /\ attempts' = attempts \cup {a}
           /\ claims' = Release({c}, how)
           /\ UNCHANGED <<created, receipts, packets, decided, revoked, broken>>
<1>1. c \in ClaimType
  BY DEF Typed, TypeOK
<1>2. Finished(c.number, o) \in Events /\ c.run \in Runs /\ c.node \in Nodes
  BY <1>1, EventsOfTransactions DEF Typed, ClaimType
<1>3. AppendEvent(c.run, c.node, Finished(c.number, o))
  BY DEF SealAndRelease
<1>4. /\ node[c.run][c.node] \in NodeStateType
      /\ Legal(node[c.run][c.node], Finished(c.number, o))
      /\ node'[c.run][c.node] = Apply(node[c.run][c.node], Finished(c.number, o))
      /\ OthersStay(c.run, c.node)
  BY <1>2, <1>3, AppendOne DEF Typed, OthersStay
<1>5. /\ node[c.run][c.node].status = "running"
      /\ node[c.run][c.node].current = c.number
      /\ ~node[c.run][c.node].checking
      /\ node'[c.run][c.node] = AfterExecution(node[c.run][c.node], o)
  BY <1>4 DEF Legal, Apply, Finished
<1> DEFINE a == [run |-> c.run, node |-> c.node, number |-> c.number,
                 outcome |-> o, deps |-> c.deps]
<1>6. a \in AttemptType /\ RefOf(a) = RefOf(c) /\ attempts' = attempts \cup {a}
  BY <1>1 DEF SealAndRelease, Pinned, ClaimType, AttemptType, RefOf
<1>7. QED
  BY <1>1, <1>4, <1>5, <1>6 DEF SealAndRelease

(* cancel: a node that is not terminal ends, and its claims are released.  *)
LEMMA CancelStep ==
    ASSUME Typed, NEW r \in Runs, NEW n \in Nodes, Cancel(r, n)
    PROVE  /\ node[r][n] \in NodeStateType
           /\ ~IsTerminal(node[r][n])
           /\ node'[r][n] = AfterCancel(node[r][n])
           /\ OthersStay(r, n)
           /\ claims' = Release(ActiveOn(r, n), "cancelled")
           /\ UNCHANGED <<created, attempts, receipts, packets, decided,
                          revoked, broken>>
<1>1. NodeCancelled \in Events
  BY DEF Events
<1>2. /\ node[r][n] \in NodeStateType
      /\ Legal(node[r][n], NodeCancelled)
      /\ node'[r][n] = Apply(node[r][n], NodeCancelled)
      /\ OthersStay(r, n)
  BY <1>1, AppendOne DEF Cancel, Typed, OthersStay
<1>3. QED
  BY <1>2 DEF Cancel, Legal, Apply, NodeCancelled

(* receipts::admit: the verdict on the attempt being checked is recorded.  *)
LEMMA AdmitStep ==
    ASSUME Typed, NEW r \in Runs, NEW n \in Nodes, NEW v \in Verdicts,
           NEW until \in Validities, NEW now \in Times,
           AdmitReceipt(r, n, node[r][n].current, v, until, now)
    PROVE  /\ node[r][n] \in NodeStateType
           /\ node[r][n].status = "running" /\ node[r][n].checking
           /\ CurrentRef(r, n) \in Refs \ Keys(receipts)
           /\ r \notin broken
           /\ \E a \in attempts :
                 /\ RefOf(a) = CurrentRef(r, n) /\ a.outcome = "completed"
                 /\ v = "accept" => Recheck(n, a.deps, now)
           /\ node'[r][n] = AfterVerdict(node[r][n], node[r][n].current, v)
           /\ OthersStay(r, n)
           /\ \E q \in ReceiptType :
                 /\ RefOf(q) = CurrentRef(r, n) /\ q.verdict = v /\ q.until = until
                 /\ receipts' = receipts \cup {q}
           /\ UNCHANGED <<created, claims, attempts, packets, decided, revoked,
                          broken>>
<1> DEFINE k == node[r][n].current
           ref == CurrentRef(r, n)
           q == [run |-> r, node |-> n, number |-> k, verdict |-> v,
                 until |-> until]
<1>1. MayAdmit(r, n, k, v, until, now) /\ AppendEvent(r, n, Judged(k, v))
  BY DEF AdmitReceipt
<1>2. Judged(k, v) \in Events
  BY EventsOfTransactions DEF Typed
<1>3. /\ node[r][n] \in NodeStateType
      /\ Legal(node[r][n], Judged(k, v))
      /\ node'[r][n] = Apply(node[r][n], Judged(k, v))
      /\ OthersStay(r, n)
  BY <1>1, <1>2, AppendOne DEF Typed, OthersStay
<1>4. /\ node[r][n].status = "running" /\ node[r][n].checking
      /\ node'[r][n] = AfterVerdict(node[r][n], k, v)
  BY <1>3 DEF Legal, Apply, Judged
<1>5. /\ ref \notin Keys(receipts) /\ r \notin broken
      /\ \E a \in attempts : /\ RefOf(a) = ref /\ a.outcome = "completed"
                             /\ v = "accept" => Recheck(n, a.deps, now)
  BY <1>1 DEF MayAdmit, Replays, CurrentRef
<1>6. ref \in Refs
  BY <1>5, KeysAreRefs DEF Keys, Typed
<1>7. /\ q \in ReceiptType /\ RefOf(q) = ref /\ q.verdict = v /\ q.until = until
      /\ receipts' = receipts \cup {q}
  BY <1>6, CallerAssumption DEF AdmitReceipt, Refs, ReceiptType, RefOf, CurrentRef
<1>8. UNCHANGED <<created, claims, attempts, packets, decided, revoked, broken>>
  BY DEF AdmitReceipt
<1> HIDE DEF q
<1>9. QED
  BY <1>3, <1>4, <1>5, <1>6, <1>7, <1>8

(* apply_retry_policy: a rejected or failed node is reopened when attempts *)
(* are left, or ended.                                                     *)
LEMMA RetryStep ==
    ASSUME Typed, NEW r \in Runs, NEW n \in Nodes, NEW now \in Times,
           ApplyRetryPolicy(r, n, now)
    PROVE  /\ node[r][n] \in NodeStateType
           /\ node[r][n].status \in {"rejected", "failed"}
           /\ \/ /\ node[r][n].started < MaxAttempts[n]
                 /\ node'[r][n] = AfterRetry(node[r][n])
              \/ node'[r][n] = AfterCancel(node[r][n])
           /\ OthersStay(r, n)
           /\ UNCHANGED <<created, claims, attempts, receipts, packets,
                          decided, revoked, broken>>
<1>1. RetryAllowed \in Events /\ NodeCancelled \in Events
  BY DEF Events
<1>2. node[r][n] \in NodeStateType
  BY DEF Typed, TypeOK
<1>3. CASE RetryPermitted(r, n, now) /\ AppendEvent(r, n, RetryAllowed)
  <2>1. node'[r][n] = Apply(node[r][n], RetryAllowed) /\ OthersStay(r, n)
    BY <1>1, <1>3, AppendOne DEF Typed, OthersStay
  <2>2. node[r][n].started < MaxAttempts[n]
    BY <1>3 DEF RetryPermitted, NodeMayRetry
  <2>3. node'[r][n] = AfterRetry(node[r][n])
    BY <2>1 DEF Apply, RetryAllowed
  <2>4. QED
    BY <1>2, <2>1, <2>2, <2>3 DEF ApplyRetryPolicy
<1>4. CASE AppendEvent(r, n, NodeCancelled)
  <2>1. node'[r][n] = Apply(node[r][n], NodeCancelled) /\ OthersStay(r, n)
    BY <1>1, <1>4, AppendOne DEF Typed, OthersStay
  <2>2. node'[r][n] = AfterCancel(node[r][n])
    BY <2>1 DEF Apply, NodeCancelled
  <2>3. QED
    BY <1>2, <2>1, <2>2 DEF ApplyRetryPolicy
<1>5. QED
  BY <1>3, <1>4 DEF ApplyRetryPolicy

(* open_resolve_work: a stopped node waits on a new packet, which presents *)
(* its current attempt and shows the node's latest receipt.                *)
LEMMA GateStep ==
    ASSUME Typed, NEW r \in Runs, NEW n \in Nodes,
           NEW now \in Times, NEW expires \in Expiries,
           OpenResolveWork(r, n, now, expires)
    PROVE  /\ node[r][n] \in NodeStateType
           /\ \/ node[r][n].status \in {"rejected", "failed"}
              \/ node[r][n].status = "gated" /\ node[r][n].gate = None
           /\ node[r][n].current # None /\ r \notin broken
           /\ CurrentRef(r, n) \in Refs \ Keys(packets)
           /\ CurrentRef(r, n) \in Keys(attempts)
           /\ node'[r][n] = AfterGate(node[r][n], node[r][n].current)
           /\ OthersStay(r, n)
           /\ \E p \in PacketType :
                 /\ RefOf(p) = CurrentRef(r, n) /\ p.receipt = LastReceipt(r, n)
                 /\ packets' = packets \cup {p}
           /\ UNCHANGED <<created, claims, attempts, receipts, decided,
                          revoked, broken>>
<1> DEFINE k == node[r][n].current
           ref == CurrentRef(r, n)
           p == [run |-> r, node |-> n, number |-> k,
                 receipt |-> LastReceipt(r, n)]
<1>1. MayGate(r, n, now, expires) /\ AppendEvent(r, n, GateOpened(k))
  BY DEF OpenResolveWork
<1>2. GateOpened(k) \in Events
  BY EventsOfTransactions DEF Typed
<1>3. /\ node[r][n] \in NodeStateType
      /\ Legal(node[r][n], GateOpened(k))
      /\ node'[r][n] = Apply(node[r][n], GateOpened(k))
      /\ OthersStay(r, n)
  BY <1>1, <1>2, AppendOne DEF Typed, OthersStay
<1>4. /\ \/ node[r][n].status \in {"rejected", "failed"}
         \/ node[r][n].status = "gated" /\ node[r][n].gate = None
      /\ node'[r][n] = AfterGate(node[r][n], k)
  BY <1>3 DEF Legal, Apply, GateOpened
<1>5. /\ k # None /\ r \notin broken
      /\ ref \notin Keys(packets) /\ ref \in Keys(attempts)
  BY <1>1 DEF MayGate, Replays, CurrentRef
<1>6. ref \in Refs
  BY <1>5, KeysAreRefs DEF Typed
<1>7. /\ p \in PacketType /\ RefOf(p) = ref /\ p.receipt = LastReceipt(r, n)
      /\ packets' = packets \cup {p}
  BY <1>6, LastReceiptType DEF OpenResolveWork, Refs, PacketType, RefOf, CurrentRef,
     Typed
<1>8. UNCHANGED <<created, claims, attempts, receipts, decided, revoked, broken>>
  BY DEF OpenResolveWork
<1> HIDE DEF p
<1>9. QED
  BY <1>3, <1>4, <1>5, <1>6, <1>7, <1>8

(* admit_decision: the packet is decided; its node goes on when it waits   *)
(* on that packet, and otherwise the run's log is broken.                  *)
LEMMA DecisionStep ==
    ASSUME Typed, NEW p \in packets, NEW m \in Nodes, NEW d \in DecisionKinds,
           AdmitDecision(p, m, d)
    PROVE  /\ p \in PacketType
           /\ RefOf(p) \notin decided /\ decided' = decided \cup {RefOf(p)}
           /\ \/ node' = node /\ p.run \in broken'
              \/ /\ m = p.node /\ p.run \notin broken
                 /\ node[p.run][m] \in NodeStateType
                 /\ node[p.run][m].status = "gated"
                 /\ node[p.run][m].gate = p.number
                 /\ node'[p.run][m] = AfterDecision(node[p.run][m], d)
                 /\ OthersStay(p.run, m)
           /\ broken \subseteq broken'
           /\ UNCHANGED <<created, claims, attempts, receipts, packets, revoked>>
<1>1. p \in PacketType
  BY DEF Typed, TypeOK
<1>2. p.run \in Runs /\ Decided(p.number, d) \in Events
  BY <1>1, EventsOfTransactions DEF Typed, PacketType
<1>3. CASE p.run \in broken
  BY <1>1, <1>3 DEF AdmitDecision
<1>4. CASE /\ p.run \notin broken
           /\ m = p.node /\ Legal(node[p.run][m], Decided(p.number, d))
  <2>1. AppendEvent(p.run, m, Decided(p.number, d)) /\ broken' = broken
    BY <1>4 DEF AdmitDecision
  <2>2. /\ node[p.run][m] \in NodeStateType
        /\ Legal(node[p.run][m], Decided(p.number, d))
        /\ node'[p.run][m] = Apply(node[p.run][m], Decided(p.number, d))
        /\ OthersStay(p.run, m)
    BY <1>2, <2>1, AppendOne DEF Typed, OthersStay
  <2>3. /\ node[p.run][m].status = "gated"
        /\ node[p.run][m].gate = p.number
        /\ node'[p.run][m] = AfterDecision(node[p.run][m], d)
    BY <2>2 DEF Legal, Apply, Decided
  <2>4. QED
    BY <1>1, <1>4, <2>1, <2>2, <2>3 DEF AdmitDecision
<1>5. CASE /\ p.run \notin broken
           /\ ~(m = p.node /\ Legal(node[p.run][m], Decided(p.number, d)))
  BY <1>1, <1>5 DEF AdmitDecision
<1>6. QED
  BY <1>3, <1>4, <1>5

-----------------------------------------------------------------------------
(* The claims table and the event log agree.                               *)

(* ClaimsMatchLog said of one row at a time, which is the form the steps   *)
(* preserve.                                                               *)
HeldIsUnderWay ==
    \A c \in claims :
        c.release = "held" <=>
            /\ node[c.run][c.node].status = "running"
            /\ ~node[c.run][c.node].checking
            /\ c.number = node[c.run][c.node].current

RowPerAttempt ==
    \A r \in Runs, n \in Nodes, k \in Nat :
        k \in 1..node[r][n].started <=>
            \E c \in claims : c.run = r /\ c.node = n /\ c.number = k

(* An attempt is claimed once.                                             *)
OneClaimPerAttempt == \A c, d \in claims : RefOf(c) = RefOf(d) => c = d

(* What is running is the attempt started last.                            *)
CurrentIsLast ==
    \A r \in Runs, n \in Nodes :
        /\ node[r][n].current # None => node[r][n].current = node[r][n].started
        /\ node[r][n].status = "running" => node[r][n].current # None

ClaimInv ==
    HeldIsUnderWay /\ RowPerAttempt /\ OneClaimPerAttempt /\ CurrentIsLast

LEMMA ClaimInvMatches ==
    ASSUME Typed, ClaimInv
    PROVE  ClaimsMatchLog
<1> SUFFICES ASSUME NEW r \in Runs, NEW n \in Nodes
             PROVE  LET rows == {c \in claims : c.run = r /\ c.node = n} IN
                    /\ ActiveOn(r, n) =
                          {c \in rows : /\ node[r][n].status = "running"
                                        /\ ~node[r][n].checking
                                        /\ c.number = node[r][n].current}
                    /\ {c.number : c \in rows} = 1..node[r][n].started
  BY DEF ClaimsMatchLog
<1> DEFINE rows == {c \in claims : c.run = r /\ c.node = n}
<1>1. ActiveOn(r, n) = {c \in rows : /\ node[r][n].status = "running"
                                     /\ ~node[r][n].checking
                                     /\ c.number = node[r][n].current}
  BY DEF ClaimInv, HeldIsUnderWay, ActiveOn, Active
<1>2. \A c \in rows : c.number \in Nat
  BY DEF Typed, TypeOK, ClaimType
<1>3. 1..node[r][n].started \subseteq Nat
  BY DEF Typed, TypeOK, NodeStateType
<1>4. {c.number : c \in rows} = 1..node[r][n].started
  BY <1>2, <1>3 DEF ClaimInv, RowPerAttempt
<1>5. QED
  BY <1>1, <1>4

(* Releasing rows makes just those inactive and keeps every other column.  *)
LEMMA ReleaseDeactivates ==
    ASSUME Typed, NEW rows \in SUBSET claims,
           NEW how \in {"completed", "cancelled", "reclaimed"},
           claims' = Release(rows, how)
    PROVE  /\ \A c \in claims' :
                 \E d \in claims :
                    /\ RefOf(c) = RefOf(d) /\ c.deps = d.deps
                    /\ c.run = d.run /\ c.node = d.node /\ c.number = d.number
                    /\ c.release = IF d \in rows THEN how ELSE d.release
                    /\ d \notin rows => c = d
                    /\ c = Moved(d, rows, how)
           /\ \A d \in claims :
                 \E c \in claims' :
                    /\ RefOf(c) = RefOf(d) /\ c.deps = d.deps
                    /\ c.run = d.run /\ c.node = d.node /\ c.number = d.number
                    /\ c.release = IF d \in rows THEN how ELSE d.release
           /\ \A d \in claims \ rows : d \in claims'
<1>1. \A d \in claims : LET c == Moved(d, rows, how) IN
         /\ RefOf(c) = RefOf(d) /\ c.deps = d.deps
         /\ c.run = d.run /\ c.node = d.node /\ c.number = d.number
         /\ c.release = IF d \in rows THEN how ELSE d.release
         /\ d \notin rows => c = d
  BY DEF Moved, RefOf, Typed, TypeOK, ClaimType
<1>2. /\ \A c \in claims' : \E d \in claims : c = Moved(d, rows, how)
      /\ \A d \in claims : Moved(d, rows, how) \in claims'
  BY ReleaseMovesRows DEF Typed
<1> HIDE DEF Moved
<1>3. QED
  BY <1>1, <1>2

(* A step that neither dispatches nor touches the claims table.            *)
LEMMA ClaimInvElsewhere ==
    ASSUME Typed, ClaimInv, NEW r \in Runs, NEW n \in Nodes,
           OthersStay(r, n), claims' = claims,
           node'[r][n].started = node[r][n].started,
           node'[r][n].current \in {node[r][n].current, None},
           ~(node[r][n].status = "running" /\ ~node[r][n].checking),
           ~(node'[r][n].status = "running")
    PROVE  ClaimInv'
<1> USE DEF OthersStay
<1>1. \A c \in claims : c.run \in Runs /\ c.node \in Nodes
  BY DEF Typed, TypeOK, ClaimType
<1>2. HeldIsUnderWay'
  BY <1>1 DEF ClaimInv, HeldIsUnderWay
<1>3. \A s \in Runs, m \in Nodes : node'[s][m].started = node[s][m].started
  OBVIOUS
<1>4. RowPerAttempt'
  BY <1>3 DEF ClaimInv, RowPerAttempt
<1>5. OneClaimPerAttempt'
  BY DEF ClaimInv, OneClaimPerAttempt
<1>6. CurrentIsLast'
  BY DEF ClaimInv, CurrentIsLast
<1>7. QED
  BY <1>2, <1>4, <1>5, <1>6 DEF ClaimInv

(* A claim adds the row of the attempt it starts.                          *)
LEMMA ClaimInvClaim ==
    ASSUME Typed, ClaimInv, NEW r \in Runs, NEW c \in Controllers,
           NEW now \in Times, ClaimNext(r, c, now)
    PROVE  ClaimInv'
<1>1. PICK n \in Nodes, row \in ClaimType :
         /\ node[r][n] \in NodeStateType
         /\ node[r][n].status = "open"
         /\ node'[r][n] = AfterDispatch(node[r][n], node[r][n].started + 1)
         /\ OthersStay(r, n)
         /\ row.run = r /\ row.node = n
         /\ row.number = node[r][n].started + 1
         /\ row.release = "held"
         /\ RefOf(row) \notin Keys(claims)
         /\ claims' = claims \cup {row}
  BY ClaimStep
<1> DEFINE k == node[r][n].started + 1
<1>2. /\ node'[r][n].status = "running" /\ ~node'[r][n].checking
      /\ node'[r][n].current = k /\ node'[r][n].started = k
      /\ k \in Nat /\ k # None /\ node[r][n].started \in Nat
  BY <1>1 DEF AfterDispatch, NodeStateType, None
<1> HIDE DEF k
<1>3. \A d \in claims : /\ d.run \in Runs /\ d.node \in Nodes
                        /\ d.number \in Nat
  BY DEF Typed, TypeOK, ClaimType
<1>4. \A d \in claims : d.run = r /\ d.node = n => d.number # k /\ d.release # "held"
  <2>1. ASSUME NEW d \in claims, d.run = r, d.node = n PROVE d.number # k
    BY <1>1, <2>1 DEF Keys, RefOf, k
  <2>2. ASSUME NEW d \in claims, d.run = r, d.node = n PROVE d.release # "held"
    BY <1>1, <2>2 DEF ClaimInv, HeldIsUnderWay
  <2>3. QED
    BY <2>1, <2>2
<1>5. HeldIsUnderWay'
  <2>1. row.number = k
    BY <1>1 DEF k
  <2>2. ASSUME NEW d \in claims, ~(d.run = r /\ d.node = n)
        PROVE  node'[d.run][d.node] = node[d.run][d.node]
    BY <1>1, <1>3, <2>2 DEF OthersStay
  <2>3. QED
    BY <1>1, <1>2, <1>3, <1>4, <2>1, <2>2 DEF ClaimInv, HeldIsUnderWay
<1>6. RowPerAttempt'
  <2>1. ASSUME NEW s \in Runs, NEW m \in Nodes, NEW j \in Nat
        PROVE  j \in 1..node'[s][m].started <=>
                  \E d \in claims' : d.run = s /\ d.node = m /\ d.number = j
    <3>1. CASE s = r /\ m = n
      <4>1. j \in 1..k <=> j \in 1..node[r][n].started \/ j = k
        BY <1>2 DEF k
      <4>2. row.number = k
        BY <1>1 DEF k
      <4>3. QED
        BY <1>1, <1>2, <3>1, <4>1, <4>2 DEF ClaimInv, RowPerAttempt
    <3>2. CASE ~(s = r /\ m = n)
      BY <1>1, <3>2 DEF ClaimInv, RowPerAttempt, OthersStay
    <3>3. QED
      BY <3>1, <3>2
  <2>2. QED
    BY <2>1 DEF RowPerAttempt
<1>7. OneClaimPerAttempt'
  BY <1>1 DEF ClaimInv, OneClaimPerAttempt, Keys
<1>8. CurrentIsLast'
  BY <1>1, <1>2 DEF ClaimInv, CurrentIsLast, OthersStay
<1>9. QED
  BY <1>5, <1>6, <1>7, <1>8 DEF ClaimInv

(* The rows of released claims, under a node that stops working.           *)
LEMMA ClaimInvRelease ==
    ASSUME Typed, ClaimInv, NEW r \in Runs, NEW n \in Nodes,
           NEW how \in {"completed", "cancelled", "reclaimed"},
           OthersStay(r, n), claims' = Release(ActiveOn(r, n), how),
           node'[r][n].started = node[r][n].started,
           node'[r][n].current = node[r][n].current,
           ~(node'[r][n].status = "running" /\ ~node'[r][n].checking),
           node'[r][n].status = "running" => node[r][n].status = "running"
    PROVE  ClaimInv'
<1>1. ActiveOn(r, n) \in SUBSET claims
  BY DEF ActiveOn, Active
<1>2. \A d \in claims : d.run \in Runs /\ d.node \in Nodes
  BY DEF Typed, TypeOK, ClaimType
<1>3. \A c \in claims' : \E d \in claims :
         /\ RefOf(c) = RefOf(d)
         /\ c.run = d.run /\ c.node = d.node /\ c.number = d.number
         /\ c.release = IF d \in ActiveOn(r, n) THEN how ELSE d.release
         /\ c = Moved(d, ActiveOn(r, n), how)
  BY <1>1, ReleaseDeactivates
<1>4. \A d \in claims : \E c \in claims' :
         c.run = d.run /\ c.node = d.node /\ c.number = d.number
  BY <1>1, ReleaseDeactivates
<1>5. HeldIsUnderWay'
  <2>1. ASSUME NEW d \in claims, d.run = r, d.node = n
        PROVE  d \in ActiveOn(r, n) <=> d.release = "held"
    BY <2>1 DEF ActiveOn, Active
  <2>2. ASSUME NEW d \in claims, ~(d.run = r /\ d.node = n)
        PROVE  /\ d \notin ActiveOn(r, n)
               /\ node'[d.run][d.node] = node[d.run][d.node]
    BY <1>2, <2>2 DEF ActiveOn, Active, OthersStay
  <2>3. QED
    BY <1>3, <2>1, <2>2 DEF ClaimInv, HeldIsUnderWay
<1>6. \A s \in Runs, m \in Nodes : node'[s][m].started = node[s][m].started
  BY DEF OthersStay
<1>7. RowPerAttempt'
  BY <1>3, <1>4, <1>6 DEF ClaimInv, RowPerAttempt
<1>8. OneClaimPerAttempt'
  BY <1>3 DEF ClaimInv, OneClaimPerAttempt
<1>9. CurrentIsLast'
  BY DEF ClaimInv, CurrentIsLast, OthersStay
<1>10. QED
  BY <1>5, <1>7, <1>8, <1>9 DEF ClaimInv

(* The claim being completed or reclaimed is the only active one on its    *)
(* node.                                                                   *)
LEMMA HeldIsAlone ==
    ASSUME Typed, ClaimInv, NEW c \in claims, c.release = "held"
    PROVE  ActiveOn(c.run, c.node) = {c}
<1>1. ASSUME NEW d \in ActiveOn(c.run, c.node) PROVE d = c
  <2>1. d \in claims /\ d.release = "held" /\ d.run = c.run /\ d.node = c.node
    BY DEF ActiveOn, Active
  <2>2. d.number = c.number
    BY <2>1 DEF ClaimInv, HeldIsUnderWay
  <2>3. RefOf(d) = RefOf(c)
    BY <2>1, <2>2 DEF RefOf
  <2>4. QED
    BY <2>1, <2>3 DEF ClaimInv, OneClaimPerAttempt
<1>2. c \in ActiveOn(c.run, c.node)
  BY DEF ActiveOn, Active
<1>3. QED
  BY <1>1, <1>2

LEMMA ClaimInvSeal ==
    ASSUME Typed, ClaimInv, NEW c \in claims, NEW o \in Outcomes,
           NEW how \in {"completed", "reclaimed"}, c.release = "held",
           SealAndRelease(c, o, how)
    PROVE  ClaimInv'
<1>1. /\ c \in ClaimType
      /\ node[c.run][c.node] \in NodeStateType
      /\ node[c.run][c.node].status = "running"
      /\ node'[c.run][c.node] = AfterExecution(node[c.run][c.node], o)
      /\ OthersStay(c.run, c.node)
      /\ claims' = Release({c}, how)
  BY SealStep
<1>2. /\ node'[c.run][c.node].started = node[c.run][c.node].started
      /\ node'[c.run][c.node].current = node[c.run][c.node].current
      /\ ~(node'[c.run][c.node].status = "running" /\ ~node'[c.run][c.node].checking)
  BY <1>1 DEF AfterExecution, Outcomes, NodeStateType
<1>3. c.run \in Runs /\ c.node \in Nodes
  BY <1>1 DEF ClaimType
<1>4. QED
  BY <1>1, <1>2, <1>3, HeldIsAlone, ClaimInvRelease

(* Each transaction keeps the claims and the log in step.                  *)
LEMMA ClaimInvKept == Typed /\ ClaimInv /\ [Next]_vars => ClaimInv'
<1> SUFFICES ASSUME Typed, ClaimInv, [Next]_vars PROVE ClaimInv'
  OBVIOUS
<1>1. ASSUME claims' = claims, node' = node PROVE ClaimInv'
  BY <1>1 DEF ClaimInv, HeldIsUnderWay, RowPerAttempt, OneClaimPerAttempt,
              CurrentIsLast
<1>2. ASSUME NEW c \in claims, NEW o \in Outcomes, Complete(c, o)
      PROVE  ClaimInv'
  BY <1>2, ClaimInvSeal DEF Complete, Held
<1>3. ASSUME NEW r \in Runs, NEW n \in Nodes, Cancel(r, n)
      PROVE  ClaimInv'
  <2>1. /\ node[r][n] \in NodeStateType
        /\ node'[r][n] = AfterCancel(node[r][n])
        /\ OthersStay(r, n)
        /\ claims' = Release(ActiveOn(r, n), "cancelled")
    BY <1>3, CancelStep
  <2>2. /\ node'[r][n].started = node[r][n].started
        /\ node'[r][n].current = node[r][n].current
        /\ node'[r][n].status = "cancelled"
    BY <2>1 DEF AfterCancel, NodeStateType
  <2>3. QED
    BY <2>1, <2>2, ClaimInvRelease
<1>4. ASSUME NEW r \in Runs, NEW n \in Nodes, Reclaim(r, n)
      PROVE  ClaimInv'
  <2>1. PICK c \in ActiveOn(r, n) : SealAndRelease(c, "failed", "reclaimed")
    BY <1>4 DEF Reclaim
  <2>2. c \in claims /\ c.release = "held" /\ "failed" \in Outcomes
    BY DEF ActiveOn, Active, Outcomes
  <2>3. QED
    BY <2>1, <2>2, ClaimInvSeal
<1>5. ASSUME NEW r \in Runs, NEW n \in Nodes, NEW v \in Verdicts,
             NEW until \in Validities, NEW now \in Times,
             AdmitReceipt(r, n, node[r][n].current, v, until, now)
      PROVE  ClaimInv'
  <2>1. /\ node[r][n] \in NodeStateType /\ node[r][n].checking
        /\ node'[r][n] = AfterVerdict(node[r][n], node[r][n].current, v)
        /\ OthersStay(r, n) /\ claims' = claims
    BY <1>5, AdmitStep
  <2>2. /\ node'[r][n].started = node[r][n].started
        /\ node'[r][n].current = node[r][n].current
        /\ node'[r][n].status # "running"
    BY <2>1, VerdictMoves
  <2>3. QED
    BY <2>1, <2>2, ClaimInvElsewhere
<1>6. ASSUME NEW r \in Runs, NEW n \in Nodes, NEW now \in Times,
             ApplyRetryPolicy(r, n, now)
      PROVE  ClaimInv'
  <2>1. /\ node[r][n] \in NodeStateType
        /\ node[r][n].status \in {"rejected", "failed"}
        /\ \/ node'[r][n] = AfterRetry(node[r][n])
           \/ node'[r][n] = AfterCancel(node[r][n])
        /\ OthersStay(r, n) /\ claims' = claims
    BY <1>6, RetryStep
  <2>2. /\ node'[r][n].started = node[r][n].started
        /\ node'[r][n].current \in {node[r][n].current, None}
        /\ node'[r][n].status # "running"
    BY <2>1 DEF AfterRetry, AfterCancel, NodeStateType
  <2>3. QED
    BY <2>1, <2>2, ClaimInvElsewhere
<1>7. ASSUME NEW r \in Runs, NEW n \in Nodes,
             NEW now \in Times, NEW expires \in Expiries,
             OpenResolveWork(r, n, now, expires)
      PROVE  ClaimInv'
  <2>1. /\ node[r][n] \in NodeStateType
        /\ node[r][n].status # "running"
        /\ node'[r][n] = AfterGate(node[r][n], node[r][n].current)
        /\ OthersStay(r, n) /\ claims' = claims
    BY <1>7, GateStep
  <2>2. /\ node'[r][n].started = node[r][n].started
        /\ node'[r][n].current = node[r][n].current
        /\ node'[r][n].status # "running"
    BY <2>1 DEF AfterGate, NodeStateType
  <2>3. QED
    BY <2>1, <2>2, ClaimInvElsewhere
<1>8. ASSUME NEW p \in packets, NEW m \in Nodes, NEW d \in DecisionKinds,
             AdmitDecision(p, m, d)
      PROVE  ClaimInv'
  <2>1. claims' = claims /\ p.run \in Runs
    BY <1>8, DecisionStep DEF PacketType
  <2>2. CASE node' = node
    BY <1>1, <2>1, <2>2
  <2>3. CASE /\ node[p.run][m] \in NodeStateType
             /\ node[p.run][m].status = "gated"
             /\ node'[p.run][m] = AfterDecision(node[p.run][m], d)
             /\ OthersStay(p.run, m)
    <3>1. /\ node'[p.run][m].started = node[p.run][m].started
          /\ node'[p.run][m].current \in {node[p.run][m].current, None}
          /\ node'[p.run][m].status # "running"
      BY <2>3 DEF AfterDecision, NodeStateType
    <3>2. QED
      BY <2>1, <2>3, <3>1, ClaimInvElsewhere
  <2>4. QED
    BY <1>8, <2>2, <2>3, DecisionStep
<1>9. QED
  BY <1>1, <1>2, <1>3, <1>4, <1>5, <1>6, <1>7, <1>8, ClaimInvClaim
     DEF Next, CreateRun, RevokeReceipt, vars

LEMMA ClaimInvInit == Init => ClaimInv
BY DEF Init, ClaimInv, HeldIsUnderWay, RowPerAttempt, OneClaimPerAttempt,
       CurrentIsLast, OpenState, None

(* A node works unchecked exactly while one claim on its current attempt   *)
(* is active, and the rows that the budget counts are the attempts its log *)
(* started: no claim, completion, cancellation, reclaim or retry lets the  *)
(* two drift apart.                                                        *)
THEOREM ClaimsFollowTheLog == Spec => []ClaimsMatchLog
<1>1. Init => Typed /\ ClaimInv
  BY TypedHolds, ClaimInvInit
<1>2. Typed /\ ClaimInv /\ [Next]_vars => (Typed /\ ClaimInv)'
  BY TypedKept, ClaimInvKept
<1>3. Typed /\ ClaimInv => ClaimsMatchLog
  BY ClaimInvMatches
<1>4. QED
  BY <1>1, <1>2, <1>3, PTL DEF Spec

-----------------------------------------------------------------------------
(* Attempts are sealed under their claims.                                 *)

(* A step claims work, seals the attempt of a claim it holds, cancels a    *)
(* node, or leaves claims and attempts as they are.                        *)
LEMMA ClaimsAndAttempts ==
    ASSUME Typed, [Next]_vars
    PROVE  \/ UNCHANGED <<claims, attempts>>
           \/ \E r \in Runs, c \in Controllers, now \in Times : ClaimNext(r, c, now)
           \/ \E c \in claims, o \in Outcomes, how \in {"completed", "reclaimed"} :
                 c.release = "held" /\ SealAndRelease(c, o, how)
           \/ \E r \in Runs, n \in Nodes : Cancel(r, n)
<1>1. ASSUME NEW r \in Runs, NEW n \in Nodes, Reclaim(r, n)
      PROVE  \E c \in claims, o \in Outcomes :
                c.release = "held" /\ SealAndRelease(c, o, "reclaimed")
  BY <1>1 DEF Reclaim, ActiveOn, Active, Outcomes
<1>2. ASSUME NEW c \in claims, NEW o \in Outcomes, Complete(c, o)
      PROVE  c.release = "held" /\ SealAndRelease(c, o, "completed")
  BY <1>2 DEF Complete, Held
<1>3. QED
  BY <1>1, <1>2
     DEF Next, CreateRun, AdmitReceipt, ApplyRetryPolicy, OpenResolveWork,
         AdmitDecision, RevokeReceipt, vars

SealInv == ClaimInv /\ SealedUnderClaim

LEMMA SealedKept ==
    ASSUME Typed, SealInv, [Next]_vars
    PROVE  SealedUnderClaim'
<1> USE DEF SealInv
<1>1. \A c \in claims : RefOf(c).run = c.run /\ RefOf(c).node = c.node
  BY DEF RefOf
<1>2. CASE UNCHANGED <<claims, attempts>>
  BY <1>2 DEF SealedUnderClaim, Keys
<1>3. ASSUME NEW r \in Runs, NEW c \in Controllers, NEW now \in Times,
             ClaimNext(r, c, now)
      PROVE  SealedUnderClaim'
  <2>1. PICK row \in ClaimType :
           /\ row.release = "held" /\ RefOf(row) \notin Keys(claims)
           /\ claims' = claims \cup {row} /\ attempts' = attempts
    BY <1>3, ClaimStep
  <2>2. RefOf(row) \notin Keys(attempts)
    BY <2>1 DEF SealedUnderClaim, Keys
  <2>3. QED
    BY <2>1, <2>2 DEF SealedUnderClaim, Keys
<1>4. ASSUME NEW c \in claims, NEW o \in Outcomes,
             NEW how \in {"completed", "reclaimed"}, c.release = "held",
             SealAndRelease(c, o, how)
      PROVE  SealedUnderClaim'
  <2>1. PICK a \in AttemptType :
           /\ RefOf(a) = RefOf(c) /\ a.deps = c.deps
           /\ attempts' = attempts \cup {a}
    BY <1>4, SealStep
  <2>2. RefOf(c) \notin Keys(attempts) /\ claims' = Release({c}, how)
    BY <1>4, SealStep
  <2>3. Keys(attempts') = Keys(attempts) \cup {RefOf(c)}
    BY <2>1 DEF Keys
  <2>4. /\ \A x \in claims' : \E d \in claims :
              /\ RefOf(x) = RefOf(d)
              /\ x.release = IF d = c THEN how ELSE d.release
        /\ \A d \in claims : \E x \in claims' :
              RefOf(x) = RefOf(d) /\ x.deps = d.deps
    <3>1. PICK rows \in SUBSET claims : rows = {c}
      OBVIOUS
    <3>2. claims' = Release(rows, how)
      BY <2>2, <3>1
    <3>3. \A d \in claims : d \in rows <=> d = c
      BY <3>1
    <3>4. QED
      BY <3>2, <3>3, ReleaseDeactivates
  <2>5. \A d \in claims : RefOf(d) = RefOf(c) => d = c
    BY DEF ClaimInv, OneClaimPerAttempt
  <2>6. ASSUME NEW x \in claims'
        PROVE  x.release \in {"completed", "reclaimed"} <=> RefOf(x) \in Keys(attempts')
    <3>1. PICK d \in claims : /\ RefOf(x) = RefOf(d)
                              /\ x.release = IF d = c THEN how ELSE d.release
      BY <2>4
    <3>2. CASE d = c
      BY <2>3, <3>1, <3>2
    <3>3. CASE d # c
      BY <2>3, <2>5, <3>1, <3>3 DEF SealedUnderClaim
    <3>4. QED
      BY <3>2, <3>3
  <2>7. \A b \in attempts' : \E x \in claims' : RefOf(x) = RefOf(b) /\ x.deps = b.deps
    BY <2>1, <2>4 DEF SealedUnderClaim
  <2>8. \A b1, b2 \in attempts' : RefOf(b1) = RefOf(b2) => b1 = b2
    BY <2>1, <2>2 DEF SealedUnderClaim, Keys
  <2>9. QED
    BY <2>6, <2>7, <2>8 DEF SealedUnderClaim, Keys
<1>5. ASSUME NEW r \in Runs, NEW n \in Nodes, Cancel(r, n)
      PROVE  SealedUnderClaim'
  <2>1. ActiveOn(r, n) \in SUBSET claims /\ \A d \in ActiveOn(r, n) : d.release = "held"
    BY DEF ActiveOn, Active
  <2>2. attempts' = attempts /\ claims' = Release(ActiveOn(r, n), "cancelled")
    BY <1>5, CancelStep
  <2>3. /\ \A x \in claims' : \E d \in claims :
              /\ RefOf(x) = RefOf(d)
              /\ x.release = IF d \in ActiveOn(r, n) THEN "cancelled" ELSE d.release
        /\ \A d \in claims : \E x \in claims' :
              RefOf(x) = RefOf(d) /\ x.deps = d.deps
    BY <2>1, <2>2, ReleaseDeactivates
  <2>4. \A x \in claims' :
           x.release \in {"completed", "reclaimed"} <=> RefOf(x) \in Keys(attempts')
    BY <2>1, <2>2, <2>3 DEF SealedUnderClaim, Keys
  <2>5. QED
    BY <2>2, <2>3, <2>4 DEF SealedUnderClaim
<1>6. QED
  BY <1>2, <1>3, <1>4, <1>5, ClaimsAndAttempts

LEMMA SealInvKept == Typed /\ SealInv /\ [Next]_vars => SealInv'
BY ClaimInvKept, SealedKept DEF SealInv

LEMMA SealInvInit == Init => SealInv
BY ClaimInvInit DEF SealInv, Init, SealedUnderClaim, Keys

(* An attempt is sealed once, exactly when its claim was released by       *)
(* completing or being reclaimed, and with the receipts pinned when it was *)
(* claimed: a completion that arrives after a cancel or a reclaim writes   *)
(* nothing.                                                                *)
THEOREM SealedOnce == Spec => []SealedUnderClaim
<1>1. Init => Typed /\ SealInv
  BY TypedHolds, SealInvInit
<1>2. Typed /\ SealInv /\ [Next]_vars => (Typed /\ SealInv)'
  BY TypedKept, SealInvKept
<1>3. SealInv => SealedUnderClaim
  BY DEF SealInv
<1>4. QED
  BY <1>1, <1>2, <1>3, PTL DEF Spec

-----------------------------------------------------------------------------
(* Exclusive resources.                                                    *)

(* Two nodes are in each other's way, or neither is.                       *)
LEMMA ConflictIsMutual ==
    ASSUME NEW m \in Nodes, NEW n \in Nodes
    PROVE  Conflict(m, n) <=> Conflict(n, m)
BY DEF Conflict

LEMMA ExclusiveKept ==
    ASSUME Typed, ExclusiveAccess, [Next]_vars
    PROVE  ExclusiveAccess'
<1>1. ASSUME Active' \subseteq Active PROVE ExclusiveAccess'
  BY <1>1 DEF ExclusiveAccess
<1>2. ASSUME NEW rows \in SUBSET claims,
             NEW how \in {"completed", "cancelled", "reclaimed"},
             claims' = Release(rows, how)
      PROVE  Active' \subseteq Active
  <2>1. \A c \in claims' : \E d \in claims :
           /\ c.release = IF d \in rows THEN how ELSE d.release
           /\ d \notin rows => c = d
    BY <1>2, ReleaseDeactivates
  <2>2. QED
    BY <2>1 DEF Active
<1>3. CASE claims' = claims
  BY <1>1, <1>3 DEF Active
<1>4. ASSUME NEW r \in Runs, NEW c \in Controllers, NEW now \in Times,
             ClaimNext(r, c, now)
      PROVE  ExclusiveAccess'
  <2>1. PICK n \in Nodes, row \in ClaimType :
           Ready(r, n, now) /\ row.node = n /\ claims' = claims \cup {row}
    BY <1>4, ClaimStep
  <2>2. Active' \subseteq Active \cup {row}
    BY <2>1 DEF Active
  <2>3. \A d \in Active : ~Conflict(row.node, d.node)
    BY <2>1 DEF Ready
  <2>4. \A d \in Active : d.node \in Nodes
    BY DEF Active, Typed, TypeOK, ClaimType
  <2>5. \A d \in Active : ~Conflict(d.node, row.node)
    BY <2>1, <2>3, <2>4, ConflictIsMutual
  <2>6. QED
    BY <2>2, <2>3, <2>5 DEF ExclusiveAccess
<1>5. QED
  BY <1>1, <1>2, <1>3, <1>4, ClaimRowsPersist

(* Across all runs of the store, work in progress never shares a resource  *)
(* that one side needs for itself.                                         *)
THEOREM ResourcesExclusive == Spec => []ExclusiveAccess
<1>1. Init => Typed /\ ExclusiveAccess
  BY TypedHolds DEF Init, ExclusiveAccess, Active
<1>2. Typed /\ ExclusiveAccess /\ [Next]_vars => (Typed /\ ExclusiveAccess)'
  BY TypedKept, ExclusiveKept
<1>3. QED
  BY <1>1, <1>2, PTL DEF Spec

-----------------------------------------------------------------------------
(* Verdicts.                                                               *)

(* What is judged was sealed.                                              *)
JudgedAreSealed == Keys(receipts) \subseteq Keys(attempts)

VerdictInv == JudgedAreSealed /\ OneVerdictPerAttempt

LEMMA VerdictInvElsewhere ==
    ASSUME Typed, VerdictInv, NEW r \in Runs, NEW n \in Nodes, OthersStay(r, n),
           UNCHANGED <<attempts, receipts>>, ~node'[r][n].checking
    PROVE  VerdictInv'
<1>1. JudgedAreSealed'
  BY DEF VerdictInv, JudgedAreSealed, Keys
<1>2. ASSUME NEW s \in Runs, NEW m \in Nodes, node'[s][m].checking
      PROVE  node'[s][m] = node[s][m] /\ node[s][m].checking
  BY <1>2 DEF OthersStay
<1>3. OneVerdictPerAttempt'
  BY <1>2 DEF VerdictInv, OneVerdictPerAttempt, Keys
<1>4. QED
  BY <1>1, <1>3 DEF VerdictInv

(* Nothing is being checked on a node that is not running.                 *)
LEMMA CheckingRuns ==
    ASSUME VerdictInv, NEW r \in Runs, NEW n \in Nodes,
           node[r][n].status # "running", node[r][n] \in NodeStateType
    PROVE  ~node[r][n].checking
BY DEF VerdictInv, OneVerdictPerAttempt

LEMMA VerdictInvSeal ==
    ASSUME Typed, VerdictInv, NEW c \in claims, NEW o \in Outcomes,
           NEW how \in {"completed", "reclaimed"}, SealAndRelease(c, o, how)
    PROVE  VerdictInv'
<1>1. /\ c \in ClaimType
      /\ node[c.run][c.node] \in NodeStateType
      /\ node[c.run][c.node].status = "running"
      /\ node[c.run][c.node].current = c.number
      /\ ~node[c.run][c.node].checking
      /\ node'[c.run][c.node] = AfterExecution(node[c.run][c.node], o)
      /\ OthersStay(c.run, c.node)
      /\ RefOf(c) \notin Keys(attempts)
      /\ receipts' = receipts
  BY SealStep
<1>2. PICK a \in AttemptType :
         /\ RefOf(a) = RefOf(c) /\ a.outcome = o
         /\ attempts' = attempts \cup {a}
  BY SealStep
<1>3. c.run \in Runs /\ c.node \in Nodes
  BY <1>1 DEF ClaimType
<1>4. JudgedAreSealed'
  BY <1>1, <1>2 DEF VerdictInv, JudgedAreSealed, Keys
<1>5. ASSUME NEW r \in Runs, NEW n \in Nodes, node'[r][n].checking
      PROVE  /\ node'[r][n].status = "running"
             /\ \E b \in attempts' : RefOf(b) = CurrentRef(r, n)' /\ b.outcome = "completed"
             /\ CurrentRef(r, n)' \notin Keys(receipts')
  <2>1. CASE r = c.run /\ n = c.node
    <3>1. o = "completed" /\ node'[r][n] = [node[r][n] EXCEPT !.checking = TRUE]
      BY <1>1, <1>5, <2>1 DEF AfterExecution, Outcomes, NodeStateType
    <3>2. node'[r][n].status = "running" /\ node'[r][n].current = c.number
      BY <1>1, <2>1, <3>1 DEF NodeStateType
    <3>3. CurrentRef(r, n)' = RefOf(c)
      BY <2>1, <3>2 DEF CurrentRef, RefOf
    <3>4. RefOf(c) \notin Keys(receipts')
      BY <1>1 DEF VerdictInv, JudgedAreSealed
    <3>5. QED
      BY <1>2, <3>1, <3>2, <3>3, <3>4
  <2>2. CASE ~(r = c.run /\ n = c.node)
    <3>1. node'[r][n] = node[r][n]
      BY <1>1, <2>2 DEF OthersStay
    <3>2. CurrentRef(r, n)' = CurrentRef(r, n)
      BY <3>1 DEF CurrentRef
    <3>3. /\ node[r][n].status = "running"
          /\ \E b \in attempts : RefOf(b) = CurrentRef(r, n) /\ b.outcome = "completed"
          /\ CurrentRef(r, n) \notin Keys(receipts)
      BY <1>5, <3>1 DEF VerdictInv, OneVerdictPerAttempt, CurrentRef
    <3>4. QED
      BY <1>1, <1>2, <3>1, <3>2, <3>3
  <2>3. QED
    BY <2>1, <2>2
<1>6. OneVerdictPerAttempt'
  BY <1>1, <1>5 DEF VerdictInv, OneVerdictPerAttempt, CurrentRef
<1>7. QED
  BY <1>4, <1>6 DEF VerdictInv

LEMMA VerdictInvAdmit ==
    ASSUME Typed, VerdictInv, NEW r \in Runs, NEW n \in Nodes, NEW v \in Verdicts,
           NEW until \in Validities, NEW now \in Times,
           AdmitReceipt(r, n, node[r][n].current, v, until, now)
    PROVE  VerdictInv'
<1>1. /\ node[r][n] \in NodeStateType
      /\ CurrentRef(r, n) \in Refs \ Keys(receipts)
      /\ \E a \in attempts : RefOf(a) = CurrentRef(r, n)
      /\ node'[r][n] = AfterVerdict(node[r][n], node[r][n].current, v)
      /\ OthersStay(r, n) /\ attempts' = attempts
  BY AdmitStep
<1>2. PICK q \in ReceiptType :
         RefOf(q) = CurrentRef(r, n) /\ receipts' = receipts \cup {q}
  BY AdmitStep
<1>3. ~node'[r][n].checking
  BY <1>1, VerdictMoves
<1>4. Keys(receipts') = Keys(receipts) \cup {CurrentRef(r, n)}
  BY <1>2 DEF Keys
<1>5. JudgedAreSealed'
  BY <1>1, <1>4 DEF VerdictInv, JudgedAreSealed, Keys
<1>6. \A p1, p2 \in receipts' : RefOf(p1) = RefOf(p2) => p1 = p2
  BY <1>1, <1>2 DEF VerdictInv, OneVerdictPerAttempt, Keys
<1>7. ASSUME NEW s \in Runs, NEW m \in Nodes, node'[s][m].checking
      PROVE  /\ node'[s][m].status = "running"
             /\ \E b \in attempts' : RefOf(b) = CurrentRef(s, m)' /\ b.outcome = "completed"
             /\ CurrentRef(s, m)' \notin Keys(receipts')
  <2>1. ~(s = r /\ m = n)
    BY <1>3, <1>7
  <2>2. node'[s][m] = node[s][m]
    BY <1>1, <2>1 DEF OthersStay
  <2>3. CurrentRef(s, m)' = CurrentRef(s, m) /\ CurrentRef(s, m) # CurrentRef(r, n)
    BY <2>1, <2>2 DEF CurrentRef
  <2>4. /\ node[s][m].status = "running"
        /\ \E b \in attempts : RefOf(b) = CurrentRef(s, m) /\ b.outcome = "completed"
        /\ CurrentRef(s, m) \notin Keys(receipts)
    BY <1>7, <2>2 DEF VerdictInv, OneVerdictPerAttempt, CurrentRef
  <2>5. QED
    BY <1>1, <1>4, <2>2, <2>3, <2>4
<1>8. OneVerdictPerAttempt'
  BY <1>6, <1>7 DEF OneVerdictPerAttempt, CurrentRef
<1>9. QED
  BY <1>5, <1>8 DEF VerdictInv

LEMMA VerdictInvKept == Typed /\ VerdictInv /\ [Next]_vars => VerdictInv'
<1> SUFFICES ASSUME Typed, VerdictInv, [Next]_vars PROVE VerdictInv'
  OBVIOUS
<1>1. ASSUME UNCHANGED <<node, attempts, receipts>> PROVE VerdictInv'
  BY <1>1 DEF VerdictInv, JudgedAreSealed, OneVerdictPerAttempt, Keys
<1>2. ASSUME NEW r \in Runs, NEW c \in Controllers, NEW now \in Times,
             ClaimNext(r, c, now)
      PROVE  VerdictInv'
  <2>1. PICK n \in Nodes :
           /\ node'[r][n] = AfterDispatch(node[r][n], node[r][n].started + 1)
           /\ OthersStay(r, n) /\ UNCHANGED <<attempts, receipts>>
    BY <1>2, ClaimStep
  <2>2. ~node'[r][n].checking
    BY <2>1 DEF AfterDispatch
  <2>3. QED
    BY <2>1, <2>2, VerdictInvElsewhere
<1>3. ASSUME NEW r \in Runs, NEW n \in Nodes, Cancel(r, n)
      PROVE  VerdictInv'
  <2>1. /\ node[r][n] \in NodeStateType
        /\ node'[r][n] = AfterCancel(node[r][n])
        /\ OthersStay(r, n) /\ UNCHANGED <<attempts, receipts>>
    BY <1>3, CancelStep
  <2>2. ~node'[r][n].checking
    BY <2>1, CheckingRuns DEF AfterCancel, NodeStateType
  <2>3. QED
    BY <2>1, <2>2, VerdictInvElsewhere
<1>4. ASSUME NEW r \in Runs, NEW n \in Nodes, NEW now \in Times,
             ApplyRetryPolicy(r, n, now)
      PROVE  VerdictInv'
  <2>1. /\ node[r][n] \in NodeStateType
        /\ node[r][n].status \in {"rejected", "failed"}
        /\ \/ node'[r][n] = AfterRetry(node[r][n])
           \/ node'[r][n] = AfterCancel(node[r][n])
        /\ OthersStay(r, n) /\ UNCHANGED <<attempts, receipts>>
    BY <1>4, RetryStep
  <2>2. ~node'[r][n].checking
    BY <2>1, CheckingRuns DEF AfterRetry, AfterCancel, NodeStateType
  <2>3. QED
    BY <2>1, <2>2, VerdictInvElsewhere
<1>5. ASSUME NEW r \in Runs, NEW n \in Nodes,
             NEW now \in Times, NEW expires \in Expiries,
             OpenResolveWork(r, n, now, expires)
      PROVE  VerdictInv'
  <2>1. /\ node[r][n] \in NodeStateType
        /\ node[r][n].status # "running"
        /\ node'[r][n] = AfterGate(node[r][n], node[r][n].current)
        /\ OthersStay(r, n) /\ UNCHANGED <<attempts, receipts>>
    BY <1>5, GateStep
  <2>2. ~node'[r][n].checking
    BY <2>1, CheckingRuns DEF AfterGate, NodeStateType
  <2>3. QED
    BY <2>1, <2>2, VerdictInvElsewhere
<1>6. ASSUME NEW p \in packets, NEW m \in Nodes, NEW d \in DecisionKinds,
             AdmitDecision(p, m, d)
      PROVE  VerdictInv'
  <2>1. p.run \in Runs /\ UNCHANGED <<attempts, receipts>>
    BY <1>6, DecisionStep DEF PacketType
  <2>2. CASE node' = node
    BY <1>1, <2>1, <2>2
  <2>3. CASE /\ node[p.run][m] \in NodeStateType
             /\ node[p.run][m].status = "gated"
             /\ node'[p.run][m] = AfterDecision(node[p.run][m], d)
             /\ OthersStay(p.run, m)
    <3>1. ~node'[p.run][m].checking
      BY <2>1, <2>3, CheckingRuns DEF AfterDecision, NodeStateType
    <3>2. QED
      BY <2>1, <2>3, <3>1, VerdictInvElsewhere
  <2>4. QED
    BY <1>6, <2>2, <2>3, DecisionStep
<1>7. ASSUME NEW r \in Runs, NEW n \in Nodes, Reclaim(r, n)
      PROVE  VerdictInv'
  <2>1. PICK c \in claims : SealAndRelease(c, "failed", "reclaimed")
    BY <1>7 DEF Reclaim, ActiveOn, Active
  <2>2. QED
    BY <2>1, VerdictInvSeal DEF Outcomes
<1>8. QED
  BY <1>1, <1>2, <1>3, <1>4, <1>5, <1>6, <1>7, VerdictInvSeal, VerdictInvAdmit
     DEF Next, Complete, CreateRun, RevokeReceipt, vars

LEMMA VerdictInvInit == Init => VerdictInv
BY DEF Init, VerdictInv, JudgedAreSealed, OneVerdictPerAttempt, Keys, OpenState

(* An attempt gets one verdict, and what is being checked is the completed *)
(* attempt that has none yet: a verdict on an attempt already judged, left *)
(* behind or replaced is refused whoever delivers it.                      *)
THEOREM OneVerdict == Spec => []OneVerdictPerAttempt
<1>1. Init => Typed /\ VerdictInv
  BY TypedHolds, VerdictInvInit
<1>2. Typed /\ VerdictInv /\ [Next]_vars => (Typed /\ VerdictInv)'
  BY TypedKept, VerdictInvKept
<1>3. VerdictInv => OneVerdictPerAttempt
  BY DEF VerdictInv
<1>4. QED
  BY <1>1, <1>2, <1>3, PTL DEF Spec

-----------------------------------------------------------------------------
(* What an acceptance rests on.                                            *)

(* Rows of attempts and receipts are never deleted or rewritten.           *)
LEMMA TablesGrow ==
    ASSUME [Next]_vars
    PROVE  attempts \subseteq attempts' /\ receipts \subseteq receipts'
BY DEF Next, CreateRun, ClaimNext, Complete, Cancel, Reclaim, SealAndRelease,
       AdmitReceipt, ApplyRetryPolicy, OpenResolveWork, AdmitDecision,
       RevokeReceipt, vars

(* A node becomes accepted only when an accept verdict on it is admitted.  *)
LEMMA OnlyAdmitAccepts ==
    ASSUME Typed, [Next]_vars, NEW r \in Runs, NEW n \in Nodes,
           node[r][n].status # "accepted", node'[r][n].status = "accepted"
    PROVE  \E until \in Validities, now \in Times :
              AdmitReceipt(r, n, node[r][n].current, "accept", until, now)
<1>1. ASSUME NEW s \in Runs, NEW m \in Nodes, OthersStay(s, m)
      PROVE  s = r /\ m = n
  BY <1>1 DEF OthersStay
<1>2. ASSUME NEW s \in Runs, NEW c \in Controllers, NEW now \in Times,
             ClaimNext(s, c, now)
      PROVE  FALSE
  <2>1. PICK m \in Nodes :
           /\ node'[s][m] = AfterDispatch(node[s][m], node[s][m].started + 1)
           /\ OthersStay(s, m)
    BY <1>2, ClaimStep
  <2>2. s = r /\ m = n
    BY <1>1, <2>1
  <2>3. QED
    BY <2>1, <2>2 DEF AfterDispatch
<1>3. ASSUME NEW c \in claims, NEW o \in Outcomes,
             NEW how \in {"completed", "reclaimed"}, SealAndRelease(c, o, how)
      PROVE  FALSE
  <2>1. /\ c \in ClaimType
        /\ node[c.run][c.node] \in NodeStateType
        /\ node[c.run][c.node].status = "running"
        /\ node'[c.run][c.node] = AfterExecution(node[c.run][c.node], o)
        /\ OthersStay(c.run, c.node)
    BY <1>3, SealStep
  <2>2. c.run = r /\ c.node = n
    BY <1>1, <2>1 DEF ClaimType
  <2>3. QED
    BY <2>1, <2>2 DEF AfterExecution, Outcomes, NodeStateType
<1>4. ASSUME NEW s \in Runs, NEW m \in Nodes, Cancel(s, m)
      PROVE  FALSE
  <2>1. /\ node[s][m] \in NodeStateType
        /\ node'[s][m] = AfterCancel(node[s][m])
        /\ OthersStay(s, m)
    BY <1>4, CancelStep
  <2>2. s = r /\ m = n
    BY <1>1, <2>1
  <2>3. QED
    BY <2>1, <2>2 DEF AfterCancel, NodeStateType
<1>5. ASSUME NEW s \in Runs, NEW m \in Nodes, NEW v \in Verdicts,
             NEW until \in Validities, NEW now \in Times,
             AdmitReceipt(s, m, node[s][m].current, v, until, now)
      PROVE  s = r /\ m = n /\ v = "accept"
  <2>1. /\ node[s][m] \in NodeStateType
        /\ node'[s][m] = AfterVerdict(node[s][m], node[s][m].current, v)
        /\ OthersStay(s, m)
    BY <1>5, AdmitStep
  <2>2. QED
    BY <1>1, <2>1, VerdictMoves
<1>6. ASSUME NEW s \in Runs, NEW m \in Nodes, NEW now \in Times,
             ApplyRetryPolicy(s, m, now)
      PROVE  FALSE
  <2>1. /\ node[s][m] \in NodeStateType
        /\ \/ node'[s][m] = AfterRetry(node[s][m])
           \/ node'[s][m] = AfterCancel(node[s][m])
        /\ OthersStay(s, m)
    BY <1>6, RetryStep
  <2>2. s = r /\ m = n
    BY <1>1, <2>1
  <2>3. QED
    BY <2>1, <2>2 DEF AfterRetry, AfterCancel, NodeStateType
<1>7. ASSUME NEW s \in Runs, NEW m \in Nodes,
             NEW now \in Times, NEW expires \in Expiries,
             OpenResolveWork(s, m, now, expires)
      PROVE  FALSE
  <2>1. /\ node[s][m] \in NodeStateType
        /\ node'[s][m] = AfterGate(node[s][m], node[s][m].current)
        /\ OthersStay(s, m)
    BY <1>7, GateStep
  <2>2. s = r /\ m = n
    BY <1>1, <2>1
  <2>3. QED
    BY <2>1, <2>2 DEF AfterGate, NodeStateType
<1>8. ASSUME NEW p \in packets, NEW m \in Nodes, NEW d \in DecisionKinds,
             AdmitDecision(p, m, d)
      PROVE  FALSE
  <2>1. /\ p.run \in Runs
        /\ \/ node' = node
           \/ /\ node[p.run][m] \in NodeStateType
              /\ node'[p.run][m] = AfterDecision(node[p.run][m], d)
              /\ OthersStay(p.run, m)
    BY <1>8, DecisionStep DEF PacketType
  <2>2. p.run = r /\ m = n
    BY <1>1, <2>1
  <2>3. QED
    BY <2>1, <2>2 DEF AfterDecision, NodeStateType
<1>9. ASSUME NEW s \in Runs, NEW m \in Nodes, Reclaim(s, m)
      PROVE  FALSE
  <2>1. PICK c \in claims : SealAndRelease(c, "failed", "reclaimed")
    BY <1>9 DEF Reclaim, ActiveOn, Active
  <2>2. QED
    BY <1>3, <2>1 DEF Outcomes
<1>10. node' # node
  OBVIOUS
<1>11. QED
  BY <1>2, <1>3, <1>4, <1>5, <1>6, <1>7, <1>8, <1>9, <1>10
     DEF Next, Complete, CreateRun, RevokeReceipt, vars

(* A receipt that new work may rest on made its node accepted.             *)
LEMMA AdmissibleIsAccepted ==
    ASSUME Typed, AcceptIsFinal, NEW p, NEW d, NEW now, Admissible(p, d, now)
    PROVE  /\ p.node = d
           /\ node[p.run][d].status = "accepted"
           /\ node[p.run][d].receipt = p.number
<1>1. PICK q \in receipts : RefOf(q) = p /\ q.verdict = "accept"
  BY DEF Admissible, ReceiptAt
<1>2. p.run = q.run /\ p.node = q.node /\ p.number = q.number
  BY <1>1 DEF RefOf
<1>3. QED
  BY <1>1, <1>2 DEF AcceptIsFinal, Admissible

(* AcceptanceGrounded of one node.                                         *)
Grounded(r, n) ==
    LET ref == [run |-> r, node |-> n, number |-> node[r][n].receipt] IN
    /\ \E q \in ReceiptAt(ref) : q.verdict = "accept"
    /\ \E a \in attempts :
         /\ RefOf(a) = ref
         /\ a.outcome = "completed"
         /\ \A d \in Deps[n] : \E p \in a.deps :
               /\ p.node = d
               /\ node[p.run][d].status = "accepted"
               /\ node[p.run][d].receipt = p.number

GroundInv == AcceptIsFinal /\ AcceptanceGrounded

LEMMA GroundedKept ==
    ASSUME Typed, GroundInv, [Next]_vars
    PROVE  AcceptanceGrounded'
<1> USE DEF GroundInv
<1>1. ASSUME NEW s \in Runs, NEW m \in Nodes, node[s][m].status = "accepted"
      PROVE  node'[s][m] = node[s][m]
  BY <1>1, AcceptedNodeStays
<1>2. \A a \in attempts : \A p \in a.deps : p.run \in Runs /\ p.node \in Nodes
  BY DEF Typed, TypeOK, AttemptType, Refs
<1>3. \A m \in Nodes : \A d \in Deps[m] : d \in Nodes
  BY GraphAssumption
<1>4. ASSUME NEW r \in Runs, NEW n \in Nodes, node[r][n].status = "accepted"
      PROVE  Grounded(r, n)'
  <2>1. node'[r][n].receipt = node[r][n].receipt
    BY <1>1, <1>4
  <2> DEFINE ref == [run |-> r, node |-> n, number |-> node[r][n].receipt]
  <2>2. PICK q \in receipts : RefOf(q) = ref /\ q.verdict = "accept"
    BY <1>4 DEF AcceptanceGrounded, ReceiptAt
  <2>3. PICK a \in attempts :
           /\ RefOf(a) = ref /\ a.outcome = "completed"
           /\ \A d \in Deps[n] : \E p \in a.deps :
                 /\ p.node = d
                 /\ node[p.run][d].status = "accepted"
                 /\ node[p.run][d].receipt = p.number
    BY <1>4 DEF AcceptanceGrounded
  <2>4. \A d \in Deps[n] : \E p \in a.deps :
                 /\ p.node = d
                 /\ node'[p.run][d].status = "accepted"
                 /\ node'[p.run][d].receipt = p.number
    BY <1>1, <1>2, <2>3
  <2>5. ref' = ref
    BY <2>1
  <2>6. q \in receipts' /\ a \in attempts'
    BY TablesGrow
  <2> HIDE DEF ref
  <2>7. (ref' = ref) /\ (\E x \in receipts' : RefOf(x) = ref /\ x.verdict = "accept")
        /\ \E x \in attempts' :
              /\ RefOf(x) = ref /\ x.outcome = "completed"
              /\ \A d \in Deps[n] : \E p \in x.deps :
                    /\ p.node = d
                    /\ node'[p.run][d].status = "accepted"
                    /\ node'[p.run][d].receipt = p.number
    BY <2>2, <2>3, <2>4, <2>5, <2>6
  <2>8. QED
    BY <2>7 DEF Grounded, ReceiptAt, ref
<1>5. ASSUME NEW r \in Runs, NEW n \in Nodes, node[r][n].status # "accepted",
             node'[r][n].status = "accepted"
      PROVE  Grounded(r, n)'
  <2>1. PICK until \in Validities, now \in Times :
           AdmitReceipt(r, n, node[r][n].current, "accept", until, now)
    BY <1>5, OnlyAdmitAccepts
  <2>2. "accept" \in Verdicts
    BY DEF Verdicts
  <2>3. PICK a \in attempts :
           /\ RefOf(a) = CurrentRef(r, n) /\ a.outcome = "completed"
           /\ Recheck(n, a.deps, now)
    BY <2>1, <2>2, AdmitStep
  <2>4. PICK q \in receipts' : RefOf(q) = CurrentRef(r, n) /\ q.verdict = "accept"
    BY <2>1, <2>2, AdmitStep
  <2>5. node'[r][n].receipt = node[r][n].current
    <3>1. /\ node[r][n] \in NodeStateType
          /\ node'[r][n] = AfterVerdict(node[r][n], node[r][n].current, "accept")
      BY <2>1, <2>2, AdmitStep
    <3>2. QED
      BY <2>2, <3>1, VerdictMoves
  <2>6. \A d \in Deps[n] : \E p \in a.deps :
           /\ p.node = d
           /\ node[p.run][d].status = "accepted"
           /\ node[p.run][d].receipt = p.number
    BY <2>3, AdmissibleIsAccepted DEF Recheck
  <2>7. \A d \in Deps[n] : \E p \in a.deps :
           /\ p.node = d
           /\ node'[p.run][d].status = "accepted"
           /\ node'[p.run][d].receipt = p.number
    BY <1>1, <1>2, <1>3, <2>6
  <2>8. a \in attempts'
    BY TablesGrow
  <2>9. CurrentRef(r, n) = [run |-> r, node |-> n, number |-> node'[r][n].receipt]
    BY <2>5 DEF CurrentRef
  <2>10. QED
    BY <2>3, <2>4, <2>7, <2>8, <2>9 DEF Grounded, ReceiptAt
<1>6. QED
  BY <1>4, <1>5 DEF AcceptanceGrounded, Grounded

LEMMA GroundInvKept == Typed /\ GroundInv /\ [Next]_vars => GroundInv'
BY AcceptIsFinalKept, GroundedKept DEF GroundInv

(* An accepted node rests on its completed attempt and that attempt on     *)
(* accepted receipts, one for each declared dependency: neither a retry    *)
(* nor a revocation nor a later run ever takes a receipt's node away from  *)
(* under the work that pinned it.                                          *)
THEOREM AcceptancesGrounded == Spec => []AcceptanceGrounded
<1>1. Init => Typed /\ GroundInv
  BY TypedHolds DEF Init, GroundInv, AcceptIsFinal, AcceptanceGrounded, OpenState
<1>2. Typed /\ GroundInv /\ [Next]_vars => (Typed /\ GroundInv)'
  BY TypedKept, GroundInvKept
<1>3. GroundInv => AcceptanceGrounded
  BY DEF GroundInv
<1>4. QED
  BY <1>1, <1>2, <1>3, PTL DEF Spec

(* A claim pins one receipt for each dependency.                           *)
OnePinPerNode ==
    \A c \in claims : \A p1, p2 \in c.deps : p1.node = p2.node => p1 = p2

PinInv == SealInv /\ OnePinPerNode

LEMMA PinsKept ==
    ASSUME Typed, OnePinPerNode, [Next]_vars
    PROVE  OnePinPerNode'
<1>1. ASSUME NEW rows \in SUBSET claims,
             NEW how \in {"completed", "cancelled", "reclaimed"},
             claims' = Release(rows, how)
      PROVE  OnePinPerNode'
  <2>1. \A c \in claims' : \E d \in claims : c.deps = d.deps
    BY <1>1, ReleaseDeactivates
  <2>2. QED
    BY <2>1 DEF OnePinPerNode
<1>2. CASE claims' = claims
  BY <1>2 DEF OnePinPerNode
<1>3. ASSUME NEW r \in Runs, NEW c \in Controllers, NEW now \in Times,
             ClaimNext(r, c, now)
      PROVE  OnePinPerNode'
  <2>1. PICK n \in Nodes, row \in ClaimType :
           /\ Ready(r, n, now) /\ row.deps = Snapshot(r, n)
           /\ claims' = claims \cup {row}
    BY <1>3, ClaimStep
  <2>2. \A d \in Deps[n] : Source(r, d).node = d
    BY <2>1 DEF Ready, Resolves, Admissible
  <2>3. \A p1, p2 \in row.deps : p1.node = p2.node => p1 = p2
    BY <2>1, <2>2 DEF Snapshot
  <2>4. QED
    BY <2>1, <2>3 DEF OnePinPerNode
<1>4. QED
  BY <1>1, <1>2, <1>3, ClaimRowsPersist

LEMMA PinInvKept == Typed /\ PinInv /\ [Next]_vars => PinInv'
BY SealInvKept, PinsKept DEF PinInv

(* The step property of AcceptsOnLiveEvidence.                             *)
AcceptOnLive ==
    \A r \in Runs, n \in Nodes :
        node[r][n].status # "accepted" /\ node'[r][n].status = "accepted" =>
            /\ \E until \in Validities, now \in Times :
                  AdmitReceipt(r, n, node[r][n].current, "accept", until, now)
            /\ \A until \in Validities, now \in Times :
                  AdmitReceipt(r, n, node[r][n].current, "accept", until, now) =>
                     \A c \in claims :
                        RefOf(c) = CurrentRef(r, n) =>
                            \A p \in c.deps : LiveAt(p, now)

LEMMA LiveStep ==
    ASSUME Typed, PinInv, [Next]_vars
    PROVE  AcceptOnLive
<1> SUFFICES ASSUME NEW r \in Runs, NEW n \in Nodes,
                    node[r][n].status # "accepted",
                    node'[r][n].status = "accepted"
             PROVE  /\ \E until \in Validities, now \in Times :
                          AdmitReceipt(r, n, node[r][n].current, "accept",
                                       until, now)
                    /\ \A until \in Validities, now \in Times :
                          AdmitReceipt(r, n, node[r][n].current, "accept",
                                       until, now) =>
                             \A c \in claims :
                                RefOf(c) = CurrentRef(r, n) =>
                                    \A p \in c.deps : LiveAt(p, now)
  BY DEF AcceptOnLive
<1>1. \E until \in Validities, now \in Times :
         AdmitReceipt(r, n, node[r][n].current, "accept", until, now)
  BY OnlyAdmitAccepts
<1>2. ASSUME NEW until \in Validities, NEW now \in Times,
             AdmitReceipt(r, n, node[r][n].current, "accept", until, now),
             NEW c \in claims, RefOf(c) = CurrentRef(r, n),
             NEW p \in c.deps
      PROVE  LiveAt(p, now)
  <2>1. PICK a \in attempts :
           RefOf(a) = CurrentRef(r, n) /\ Recheck(n, a.deps, now)
    BY <1>2, AdmitStep DEF Verdicts
  <2>2. PICK d \in claims : RefOf(d) = RefOf(a) /\ d.deps = a.deps
    BY DEF PinInv, SealInv, SealedUnderClaim
  <2>3. d = c
    BY <1>2, <2>1, <2>2 DEF PinInv, SealInv, ClaimInv, OneClaimPerAttempt
  <2>4. PICK p1 \in a.deps : Admissible(p1, p.node, now)
    BY <1>2, <2>1, <2>2, <2>3 DEF Recheck
  <2>5. p1.node = p.node
    BY <2>4 DEF Admissible
  <2>6. p1 = p
    BY <1>2, <2>2, <2>3, <2>5 DEF PinInv, OnePinPerNode
  <2>7. QED
    BY <2>4, <2>6 DEF Admissible, LiveAt
<1>3. QED
  BY <1>1, <1>2

LEMMA PinInvInit == Init => PinInv
BY SealInvInit DEF PinInv, Init, OnePinPerNode

(* A node becomes accepted only by an admitting call, and for whatever its *)
(* clock shows, every receipt the node's claim pinned is accepting and     *)
(* neither revoked nor expired by that clock: the recheck looks at one pin *)
(* per dependency, the sealed attempt names the pins of the one claim on   *)
(* it, and there is no other pin.                                          *)
THEOREM AcceptsLive == Spec => AcceptsOnLiveEvidence
<1>1. Init => Typed /\ PinInv
  BY TypedHolds, PinInvInit
<1>2. Typed /\ PinInv /\ [Next]_vars => (Typed /\ PinInv)'
  BY TypedKept, PinInvKept
<1>3. Typed /\ PinInv /\ [Next]_vars => [AcceptOnLive]_vars
  BY LiveStep
<1>4. Spec => [][AcceptOnLive]_vars
  BY <1>1, <1>2, <1>3, PTL DEF Spec
<1>5. QED
  BY <1>4 DEF AcceptsOnLiveEvidence, AcceptOnLive, CurrentRef

-----------------------------------------------------------------------------
(* Views.                                                                  *)

(* LiveViewsValid of one state, in the form the reducer preserves: it also *)
(* says what a gated node without a packet shows.                          *)
Viewable(s) ==
    s.status # "cancelled" =>
        /\ s.receipt # None <=> s.status \in {"accepted", "rejected"}
        /\ s.status # "open" => s.current # None
        /\ s.gate # None => s.status = "gated"

ViewInv == \A r \in Runs, n \in Nodes : Viewable(node[r][n])

LEMMA ViewInvElsewhere ==
    ASSUME ViewInv, NEW r \in Runs, NEW n \in Nodes, OthersStay(r, n),
           Viewable(node'[r][n])
    PROVE  ViewInv'
BY DEF ViewInv, OthersStay

LEMMA ViewInvKept == Typed /\ ViewInv /\ [Next]_vars => ViewInv'
<1> SUFFICES ASSUME Typed, ViewInv, [Next]_vars PROVE ViewInv'
  OBVIOUS
<1> USE DEF Viewable
<1>1. ASSUME node' = node PROVE ViewInv'
  BY <1>1 DEF ViewInv
<1>2. ASSUME NEW r \in Runs, NEW c \in Controllers, NEW now \in Times,
             ClaimNext(r, c, now)
      PROVE  ViewInv'
  <2>1. PICK n \in Nodes :
           /\ node[r][n] \in NodeStateType
           /\ node'[r][n] = AfterDispatch(node[r][n], node[r][n].started + 1)
           /\ OthersStay(r, n)
    BY <1>2, ClaimStep
  <2>2. Viewable(node'[r][n])
    BY <2>1 DEF AfterDispatch, None, NodeStateType
  <2>3. QED
    BY <2>1, <2>2, ViewInvElsewhere
<1>3. ASSUME NEW c \in claims, NEW o \in Outcomes,
             NEW how \in {"completed", "reclaimed"}, SealAndRelease(c, o, how)
      PROVE  ViewInv'
  <2>1. /\ c.run \in Runs /\ c.node \in Nodes
        /\ node[c.run][c.node] \in NodeStateType
        /\ node[c.run][c.node].status = "running"
        /\ node'[c.run][c.node] = AfterExecution(node[c.run][c.node], o)
        /\ OthersStay(c.run, c.node)
    BY <1>3, SealStep DEF ClaimType
  <2>2. Viewable(node[c.run][c.node])
    BY <2>1 DEF ViewInv
  <2>3. Viewable(node'[c.run][c.node])
    BY <2>1, <2>2 DEF AfterExecution, Outcomes, NodeStateType
  <2>4. QED
    BY <2>1, <2>3, ViewInvElsewhere
<1>4. ASSUME NEW r \in Runs, NEW n \in Nodes, Cancel(r, n)
      PROVE  ViewInv'
  <2>1. /\ node[r][n] \in NodeStateType
        /\ node'[r][n] = AfterCancel(node[r][n])
        /\ OthersStay(r, n)
    BY <1>4, CancelStep
  <2>2. Viewable(node'[r][n])
    BY <2>1 DEF AfterCancel, NodeStateType
  <2>3. QED
    BY <2>1, <2>2, ViewInvElsewhere
<1>5. ASSUME NEW r \in Runs, NEW n \in Nodes, NEW v \in Verdicts,
             NEW until \in Validities, NEW now \in Times,
             AdmitReceipt(r, n, node[r][n].current, v, until, now)
      PROVE  ViewInv'
  <2>1. /\ node[r][n] \in NodeStateType
        /\ node[r][n].status = "running"
        /\ node'[r][n] = AfterVerdict(node[r][n], node[r][n].current, v)
        /\ OthersStay(r, n)
    BY <1>5, AdmitStep
  <2>2. node[r][n].current # None /\ node[r][n].gate = None
    BY <2>1 DEF ViewInv
  <2>3. Viewable(node'[r][n])
    <3> DEFINE t == AfterVerdict(node[r][n], node[r][n].current, v)
    <3>1. /\ t.current = node[r][n].current
          /\ t.status \in {"accepted", "rejected", "gated"}
          /\ v # "undecidable" => /\ t.receipt = node[r][n].current
                                  /\ t.gate = node[r][n].gate
                                  /\ t.status # "gated"
          /\ v = "undecidable" => /\ t.receipt = None /\ t.gate = None
                                  /\ t.status = "gated"
      BY <2>1, VerdictMoves
    <3> HIDE DEF t
    <3>2. Viewable(t)
      BY <2>2, <3>1
    <3>3. QED
      BY <2>1, <3>2 DEF t
  <2>4. QED
    BY <2>1, <2>3, ViewInvElsewhere
<1>6. ASSUME NEW r \in Runs, NEW n \in Nodes, NEW now \in Times,
             ApplyRetryPolicy(r, n, now)
      PROVE  ViewInv'
  <2>1. /\ node[r][n] \in NodeStateType
        /\ node[r][n].status \in {"rejected", "failed"}
        /\ \/ node'[r][n] = AfterRetry(node[r][n])
           \/ node'[r][n] = AfterCancel(node[r][n])
        /\ OthersStay(r, n)
    BY <1>6, RetryStep
  <2>2. node[r][n].gate = None
    BY <2>1 DEF ViewInv
  <2>3. Viewable(node'[r][n])
    BY <2>1, <2>2 DEF AfterRetry, AfterCancel, NodeStateType
  <2>4. QED
    BY <2>1, <2>3, ViewInvElsewhere
<1>7. ASSUME NEW r \in Runs, NEW n \in Nodes,
             NEW now \in Times, NEW expires \in Expiries,
             OpenResolveWork(r, n, now, expires)
      PROVE  ViewInv'
  <2>1. /\ node[r][n] \in NodeStateType
        /\ node[r][n].status \in {"rejected", "failed", "gated"}
        /\ node[r][n].current # None
        /\ node'[r][n] = AfterGate(node[r][n], node[r][n].current)
        /\ OthersStay(r, n)
    BY <1>7, GateStep
  <2>2. node[r][n].status = "gated" => node[r][n].receipt = None
    BY <2>1 DEF ViewInv
  <2>3. Viewable(node'[r][n])
    BY <2>1, <2>2 DEF AfterGate, NodeStateType
  <2>4. QED
    BY <2>1, <2>3, ViewInvElsewhere
<1>8. ASSUME NEW p \in packets, NEW m \in Nodes, NEW d \in DecisionKinds,
             AdmitDecision(p, m, d)
      PROVE  ViewInv'
  <2>1. p.run \in Runs
    BY <1>8, DecisionStep DEF PacketType
  <2>2. CASE node' = node
    BY <1>1, <2>2
  <2>3. CASE /\ node[p.run][m] \in NodeStateType
             /\ node[p.run][m].status = "gated"
             /\ node'[p.run][m] = AfterDecision(node[p.run][m], d)
             /\ OthersStay(p.run, m)
    <3>1. Viewable(node'[p.run][m])
      BY <2>3 DEF AfterDecision, NodeStateType
    <3>2. QED
      BY <2>1, <2>3, <3>1, ViewInvElsewhere
  <2>4. QED
    BY <1>8, <2>2, <2>3, DecisionStep
<1>9. ASSUME NEW r \in Runs, NEW n \in Nodes, Reclaim(r, n)
      PROVE  ViewInv'
  BY <1>3, <1>9 DEF Reclaim, ActiveOn, Active, Outcomes
<1>10. QED
  BY <1>1, <1>2, <1>3, <1>4, <1>5, <1>6, <1>7, <1>8, <1>9
     DEF Next, Complete, CreateRun, RevokeReceipt, vars

(* Whatever transactions run, a node that is not cancelled has a view its  *)
(* own contract accepts, unless it is undecidable work whose packet is not *)
(* open yet.                                                               *)
THEOREM ViewsStayValid == Spec => []LiveViewsValid
<1>1. Init => Typed /\ ViewInv
  BY TypedHolds DEF Init, ViewInv, Viewable, OpenState
<1>2. Typed /\ ViewInv /\ [Next]_vars => (Typed /\ ViewInv)'
  BY TypedKept, ViewInvKept
<1>3. Typed /\ ViewInv => LiveViewsValid
  BY DEF Typed, TypeOK, NodeStateType, ViewInv, Viewable, LiveViewsValid, ViewValid
<1>4. QED
  BY <1>1, <1>2, <1>3, PTL DEF Spec

-----------------------------------------------------------------------------
(* Packets.                                                                *)

(* Packets present sealed attempts, decisions are about packets, and the   *)
(* attempt that is running is in no packet.                                *)
PresentedAreSealed == Keys(packets) \subseteq Keys(attempts)

DecidedArePresented == decided \subseteq Keys(packets)

RunningUnpresented ==
    \A r \in Runs, n \in Nodes :
        node[r][n].status = "running" => CurrentRef(r, n) \notin Keys(packets)

Undecided(r, n) ==
    {p \in packets : p.run = r /\ p.node = n /\ RefOf(p) \notin decided}

(* The first half of WaitsOnOpenPacket, of one node.                       *)
Waits(r, n) ==
    IF node[r][n].gate # None
    THEN /\ node[r][n].status = "gated"
         /\ {p.number : p \in Undecided(r, n)} = {node[r][n].gate}
    ELSE Undecided(r, n) # {} => node[r][n].status = "cancelled"

LiveRunsWait == \A r \in Runs \ broken, n \in Nodes : Waits(r, n)

(* The second half.                                                        *)
ShowsVerdict ==
    \A p \in packets : RefOf(p) \in Keys(receipts) => p.receipt = p.number

PacketInv ==
    /\ PresentedAreSealed /\ DecidedArePresented /\ RunningUnpresented
    /\ LiveRunsWait /\ ShowsVerdict

TablesInv == SealInv /\ VerdictInv /\ PacketInv

(* Attempts, and with them receipts and packets, are numbered up to the    *)
(* count of started attempts.                                              *)
LEMMA SealedWereStarted ==
    ASSUME Typed, SealInv, NEW ref \in Keys(attempts)
    PROVE  /\ ref.run \in Runs /\ ref.node \in Nodes /\ ref.number \in Nat
           /\ ref.number <= node[ref.run][ref.node].started
<1>1. PICK a \in attempts : RefOf(a) = ref
  BY DEF Keys
<1>2. PICK c \in claims : RefOf(c) = ref
  BY <1>1 DEF SealInv, SealedUnderClaim
<1>3. /\ c.run = ref.run /\ c.node = ref.node /\ c.number = ref.number
      /\ c.run \in Runs /\ c.node \in Nodes /\ c.number \in Nat
  BY <1>2 DEF RefOf, Typed, TypeOK, ClaimType
<1>4. c.number \in 1..node[c.run][c.node].started
  BY <1>3 DEF SealInv, ClaimInv, RowPerAttempt
<1>5. node[c.run][c.node].started \in Nat
  BY <1>3 DEF Typed, TypeOK, NodeStateType
<1>6. QED
  BY <1>3, <1>4, <1>5

(* A packet opened on an attempt that has a verdict shows that verdict:    *)
(* the latest receipt of the node is the one of its current attempt.       *)
LEMMA LatestIsCurrent ==
    ASSUME Typed, SealInv, JudgedAreSealed, NEW r \in Runs, NEW n \in Nodes,
           node[r][n].current # None, CurrentRef(r, n) \in Keys(receipts)
    PROVE  LastReceipt(r, n) = node[r][n].current
<1> DEFINE k == node[r][n].current
<1>1. k = node[r][n].started /\ k \in Nat
  BY DEF SealInv, ClaimInv, CurrentIsLast, Typed, TypeOK, NodeStateType
<1>2. \A j \in Numbers(r, n) : j \in Nat /\ j <= k
  <2>1. ASSUME NEW q \in receipts, q.run = r, q.node = n
        PROVE  q.number \in Nat /\ q.number <= k
    <3>1. RefOf(q) \in Keys(attempts)
      BY DEF JudgedAreSealed, Keys
    <3>2. RefOf(q).run = r /\ RefOf(q).node = n /\ RefOf(q).number = q.number
      BY <2>1 DEF RefOf
    <3>3. QED
      BY <1>1, <3>1, <3>2, SealedWereStarted
  <2>2. QED
    BY <2>1 DEF Numbers
<1>3. k \in Numbers(r, n)
  <2>1. PICK q \in receipts : RefOf(q) = CurrentRef(r, n)
    BY DEF Keys
  <2>2. q.run = r /\ q.node = n /\ q.number = k
    BY <2>1 DEF RefOf, CurrentRef
  <2>3. QED
    BY <2>2 DEF Numbers
<1> DEFINE top == CHOOSE j \in Numbers(r, n) : \A i \in Numbers(r, n) : i <= j
<1>4. LastReceipt(r, n) = top
  BY <1>3 DEF LastReceipt, Numbers
<1>5. top \in Numbers(r, n) /\ \A i \in Numbers(r, n) : i <= top
  BY <1>2, <1>3
<1> HIDE DEF top, k
<1>6. top = k
  BY <1>2, <1>3, <1>5
<1>7. QED
  BY <1>4, <1>6 DEF k

(* A transaction that opens no packet and decides none: the node it moves  *)
(* did not wait on a packet, or is cancelled by it.                        *)
LEMMA PacketInvElsewhere ==
    ASSUME Typed, PacketInv, [Next]_vars, NEW r \in Runs, NEW n \in Nodes,
           OthersStay(r, n), UNCHANGED <<packets, decided, broken>>,
           r \notin broken =>
              /\ node'[r][n].gate = None
              /\ \/ node[r][n].gate = None /\ node[r][n].status # "cancelled"
                 \/ node'[r][n].status = "cancelled",
           node'[r][n].status = "running" => CurrentRef(r, n)' \notin Keys(packets),
           \A p \in packets : RefOf(p) \in Keys(receipts') => RefOf(p) \in Keys(receipts)
    PROVE  PacketInv'
<1>1. PresentedAreSealed'
  BY TablesGrow DEF PacketInv, PresentedAreSealed, Keys
<1>2. DecidedArePresented'
  BY DEF PacketInv, DecidedArePresented, Keys
<1>3. RunningUnpresented'
  <2>1. ASSUME NEW s \in Runs, NEW m \in Nodes, ~(s = r /\ m = n)
        PROVE  node'[s][m] = node[s][m] /\ CurrentRef(s, m)' = CurrentRef(s, m)
    BY <2>1 DEF OthersStay, CurrentRef
  <2>2. Keys(packets') = Keys(packets)
    OBVIOUS
  <2>3. QED
    BY <2>1, <2>2 DEF PacketInv, RunningUnpresented
<1>4. LiveRunsWait'
  <2>1. \A s \in Runs, m \in Nodes : Undecided(s, m)' = Undecided(s, m)
    BY DEF Undecided
  <2>2. ASSUME NEW s \in Runs \ broken, NEW m \in Nodes PROVE Waits(s, m)'
    <3>1. CASE s = r /\ m = n
      BY <2>1, <2>2, <3>1 DEF PacketInv, LiveRunsWait, Waits
    <3>2. CASE ~(s = r /\ m = n)
      BY <2>1, <2>2, <3>2 DEF PacketInv, LiveRunsWait, Waits, OthersStay
    <3>3. QED
      BY <3>1, <3>2
  <2>3. QED
    BY <2>2 DEF LiveRunsWait
<1>5. ShowsVerdict'
  BY DEF PacketInv, ShowsVerdict
<1>6. QED
  BY <1>1, <1>2, <1>3, <1>4, <1>5 DEF PacketInv

LEMMA OnlyGatedWait ==
    ASSUME PacketInv, NEW r \in Runs, NEW n \in Nodes, r \notin broken,
           node[r][n].status # "gated"
    PROVE  node[r][n].gate = None
BY DEF PacketInv, LiveRunsWait, Waits

LEMMA PacketInvClaim ==
    ASSUME Typed, TablesInv, [Next]_vars, NEW r \in Runs, NEW c \in Controllers,
           NEW now \in Times, ClaimNext(r, c, now)
    PROVE  PacketInv'
<1>1. PICK n \in Nodes :
         /\ node[r][n] \in NodeStateType
         /\ node[r][n].status = "open"
         /\ node'[r][n] = AfterDispatch(node[r][n], node[r][n].started + 1)
         /\ OthersStay(r, n)
         /\ UNCHANGED <<attempts, receipts, packets, decided, broken>>
  BY ClaimStep
<1>2. /\ node'[r][n].gate = None
      /\ node'[r][n].current = node[r][n].started + 1
      /\ node[r][n].started \in Nat
  BY <1>1 DEF AfterDispatch, NodeStateType
<1>3. CurrentRef(r, n)' \notin Keys(packets)
  <2>1. /\ CurrentRef(r, n)'.run = r /\ CurrentRef(r, n)'.node = n
        /\ CurrentRef(r, n)'.number = node[r][n].started + 1
    BY <1>2 DEF CurrentRef
  <2>2. CurrentRef(r, n)' \notin Keys(attempts)
    BY <1>2, <2>1, SealedWereStarted DEF TablesInv
  <2>3. QED
    BY <2>2 DEF TablesInv, PacketInv, PresentedAreSealed
<1>4. r \notin broken => node[r][n].gate = None
  BY <1>1, OnlyGatedWait DEF TablesInv
<1>5. QED
  BY <1>1, <1>2, <1>3, <1>4, PacketInvElsewhere DEF TablesInv

LEMMA PacketInvSeal ==
    ASSUME Typed, TablesInv, [Next]_vars, NEW c \in claims, NEW o \in Outcomes,
           NEW how \in {"completed", "reclaimed"}, SealAndRelease(c, o, how)
    PROVE  PacketInv'
<1>1. /\ c.run \in Runs /\ c.node \in Nodes
      /\ node[c.run][c.node] \in NodeStateType
      /\ node[c.run][c.node].status = "running"
      /\ node'[c.run][c.node] = AfterExecution(node[c.run][c.node], o)
      /\ OthersStay(c.run, c.node)
      /\ UNCHANGED <<receipts, packets, decided, broken>>
  BY SealStep DEF ClaimType
<1>2. /\ node'[c.run][c.node].gate = node[c.run][c.node].gate
      /\ node'[c.run][c.node].current = node[c.run][c.node].current
  BY <1>1 DEF AfterExecution, Outcomes, NodeStateType
<1>3. c.run \notin broken => node[c.run][c.node].gate = None
  BY <1>1, OnlyGatedWait DEF TablesInv
<1>4. CurrentRef(c.run, c.node)' \notin Keys(packets)
  BY <1>1, <1>2 DEF TablesInv, PacketInv, RunningUnpresented, CurrentRef
<1>5. QED
  BY <1>1, <1>2, <1>3, <1>4, PacketInvElsewhere DEF TablesInv

LEMMA PacketInvCancel ==
    ASSUME Typed, TablesInv, [Next]_vars, NEW r \in Runs, NEW n \in Nodes,
           Cancel(r, n)
    PROVE  PacketInv'
<1>1. /\ node[r][n] \in NodeStateType
      /\ node'[r][n] = AfterCancel(node[r][n])
      /\ OthersStay(r, n)
      /\ UNCHANGED <<receipts, packets, decided, broken>>
  BY CancelStep
<1>2. r \notin broken => node[r][n].status = "gated" \/ node[r][n].gate = None
  BY OnlyGatedWait DEF TablesInv
<1>3. /\ node'[r][n].status = "cancelled"
      /\ r \notin broken => node'[r][n].gate = None
  BY <1>1, <1>2 DEF AfterCancel, NodeStateType
<1>4. QED
  BY <1>1, <1>3, PacketInvElsewhere DEF TablesInv

LEMMA PacketInvAdmit ==
    ASSUME Typed, TablesInv, [Next]_vars, NEW r \in Runs, NEW n \in Nodes,
           NEW v \in Verdicts, NEW until \in Validities, NEW now \in Times,
           AdmitReceipt(r, n, node[r][n].current, v, until, now)
    PROVE  PacketInv'
<1>1. /\ node[r][n] \in NodeStateType
      /\ node[r][n].status = "running"
      /\ node'[r][n] = AfterVerdict(node[r][n], node[r][n].current, v)
      /\ OthersStay(r, n)
      /\ UNCHANGED <<packets, decided, broken>>
      /\ r \notin broken
  BY AdmitStep
<1>2. PICK q \in ReceiptType :
         RefOf(q) = CurrentRef(r, n) /\ receipts' = receipts \cup {q}
  BY AdmitStep
<1>3. node[r][n].gate = None
  BY <1>1, OnlyGatedWait DEF TablesInv
<1>4. node'[r][n].status # "running" /\ node'[r][n].gate = None
  BY <1>1, <1>3, VerdictMoves
<1>5. CurrentRef(r, n) \notin Keys(packets)
  BY <1>1 DEF TablesInv, PacketInv, RunningUnpresented
<1>6. \A p \in packets : RefOf(p) \in Keys(receipts') => RefOf(p) \in Keys(receipts)
  BY <1>2, <1>5 DEF Keys
<1>7. QED
  BY <1>1, <1>3, <1>4, <1>6, PacketInvElsewhere DEF TablesInv

LEMMA PacketInvRetry ==
    ASSUME Typed, TablesInv, [Next]_vars, NEW r \in Runs, NEW n \in Nodes,
           NEW now \in Times, ApplyRetryPolicy(r, n, now)
    PROVE  PacketInv'
<1>1. /\ node[r][n] \in NodeStateType
      /\ node[r][n].status \in {"rejected", "failed"}
      /\ \/ node'[r][n] = AfterRetry(node[r][n])
         \/ node'[r][n] = AfterCancel(node[r][n])
      /\ OthersStay(r, n)
      /\ UNCHANGED <<receipts, packets, decided, broken>>
  BY RetryStep
<1>2. r \notin broken => node[r][n].gate = None
  BY <1>1, OnlyGatedWait DEF TablesInv
<1>3. /\ node'[r][n].status # "running"
      /\ node'[r][n].gate = node[r][n].gate
  BY <1>1 DEF AfterRetry, AfterCancel, NodeStateType
<1>4. QED
  BY <1>1, <1>2, <1>3, PacketInvElsewhere DEF TablesInv

(* The new packet is the only undecided one of its node.                   *)
LEMMA PacketInvGate ==
    ASSUME Typed, TablesInv, [Next]_vars, NEW r \in Runs, NEW n \in Nodes,
           NEW now \in Times, NEW expires \in Expiries,
           OpenResolveWork(r, n, now, expires)
    PROVE  PacketInv'
<1> DEFINE k == node[r][n].current
<1>1. /\ node[r][n] \in NodeStateType
      /\ \/ node[r][n].status \in {"rejected", "failed"}
         \/ node[r][n].status = "gated" /\ node[r][n].gate = None
      /\ k # None /\ r \notin broken
      /\ CurrentRef(r, n) \in Refs \ Keys(packets)
      /\ CurrentRef(r, n) \in Keys(attempts)
      /\ node'[r][n] = AfterGate(node[r][n], k)
      /\ OthersStay(r, n)
      /\ UNCHANGED <<attempts, receipts, decided, broken>>
  BY GateStep
<1>2. PICK p \in PacketType :
         /\ RefOf(p) = CurrentRef(r, n) /\ p.receipt = LastReceipt(r, n)
         /\ packets' = packets \cup {p}
  BY GateStep
<1>3. p.run = r /\ p.node = n /\ p.number = k
  BY <1>2 DEF RefOf, CurrentRef
<1>4. node'[r][n].status = "gated" /\ node'[r][n].gate = k
  BY <1>1 DEF AfterGate, NodeStateType
<1>5. Keys(packets') = Keys(packets) \cup {CurrentRef(r, n)}
  BY <1>2 DEF Keys
<1>6. PresentedAreSealed' /\ DecidedArePresented'
  BY <1>1, <1>5 DEF TablesInv, PacketInv, PresentedAreSealed,
                    DecidedArePresented, Keys
<1>7. RunningUnpresented'
  <2>1. ASSUME NEW s \in Runs, NEW m \in Nodes, node'[s][m].status = "running"
        PROVE  CurrentRef(s, m)' \notin Keys(packets')
    <3>1. ~(s = r /\ m = n)
      BY <1>4, <2>1
    <3>2. node'[s][m] = node[s][m]
      BY <1>1, <3>1 DEF OthersStay
    <3>3. CurrentRef(s, m)' = CurrentRef(s, m) /\ CurrentRef(s, m) # CurrentRef(r, n)
      BY <3>1, <3>2 DEF CurrentRef
    <3>4. CurrentRef(s, m) \notin Keys(packets)
      BY <2>1, <3>2 DEF TablesInv, PacketInv, RunningUnpresented
    <3>5. QED
      BY <1>5, <3>3, <3>4
  <2>2. QED
    BY <2>1 DEF RunningUnpresented
<1>8. LiveRunsWait'
  <2>1. Undecided(r, n) = {}
    <3>1. node[r][n].gate = None
      BY <1>1, OnlyGatedWait DEF TablesInv
    <3>2. Waits(r, n)
      BY <1>1 DEF TablesInv, PacketInv, LiveRunsWait
    <3>3. QED
      BY <1>1, <3>1, <3>2 DEF Waits
  <2>2. RefOf(p) \notin decided
    BY <1>1, <1>2 DEF TablesInv, PacketInv, DecidedArePresented
  <2>3. Undecided(r, n)' = {p}
    BY <1>1, <1>2, <1>3, <2>1, <2>2 DEF Undecided
  <2>4. Waits(r, n)'
    BY <1>1, <1>3, <1>4, <2>3 DEF Waits
  <2>5. ASSUME NEW s \in Runs \ broken, NEW m \in Nodes, ~(s = r /\ m = n)
        PROVE  Waits(s, m)'
    <3>1. Undecided(s, m)' = Undecided(s, m)
      BY <1>1, <1>2, <1>3, <2>5 DEF Undecided
    <3>2. node'[s][m] = node[s][m]
      BY <1>1, <2>5 DEF OthersStay
    <3>3. QED
      BY <3>1, <3>2 DEF TablesInv, PacketInv, LiveRunsWait, Waits
  <2>6. QED
    BY <1>1, <2>4, <2>5 DEF LiveRunsWait
<1>9. ShowsVerdict'
  <2>1. CurrentRef(r, n) \in Keys(receipts) => p.receipt = p.number
    BY <1>1, <1>2, <1>3, LatestIsCurrent DEF TablesInv, VerdictInv
  <2>2. receipts' = receipts
    BY <1>1
  <2>3. QED
    BY <1>2, <2>1, <2>2 DEF TablesInv, PacketInv, ShowsVerdict, Keys
<1>10. QED
  BY <1>6, <1>7, <1>8, <1>9 DEF PacketInv

(* A decided packet leaves its node waiting on none.                       *)
LEMMA PacketInvDecision ==
    ASSUME Typed, TablesInv, [Next]_vars, NEW p \in packets, NEW m \in Nodes,
           NEW d \in DecisionKinds, AdmitDecision(p, m, d)
    PROVE  PacketInv'
<1>1. /\ p.run \in Runs /\ p.node \in Nodes
      /\ RefOf(p) \notin decided /\ decided' = decided \cup {RefOf(p)}
      /\ broken \subseteq broken'
      /\ UNCHANGED <<attempts, receipts, packets>>
  BY DecisionStep DEF PacketType
<1>2. PresentedAreSealed' /\ DecidedArePresented' /\ ShowsVerdict'
  BY <1>1 DEF TablesInv, PacketInv, PresentedAreSealed, DecidedArePresented,
              ShowsVerdict, Keys
<1>3. \A s \in Runs, l \in Nodes :
         s # p.run \/ l # p.node => Undecided(s, l)' = Undecided(s, l)
  BY <1>1 DEF Undecided, RefOf
<1>4. CASE node' = node /\ p.run \in broken'
  <2>1. RunningUnpresented'
    BY <1>1, <1>4 DEF TablesInv, PacketInv, RunningUnpresented, CurrentRef
  <2>2. ASSUME NEW s \in Runs \ broken', NEW l \in Nodes PROVE Waits(s, l)'
    <3>1. s # p.run /\ s \notin broken
      BY <1>1, <1>4
    <3>2. Undecided(s, l)' = Undecided(s, l)
      BY <1>3, <3>1
    <3>3. QED
      BY <1>4, <3>1, <3>2 DEF TablesInv, PacketInv, LiveRunsWait, Waits
  <2>3. QED
    BY <1>2, <2>1, <2>2 DEF PacketInv, LiveRunsWait
<1>5. CASE /\ m = p.node /\ p.run \notin broken
           /\ node[p.run][m] \in NodeStateType
           /\ node[p.run][m].status = "gated"
           /\ node[p.run][m].gate = p.number
           /\ node'[p.run][m] = AfterDecision(node[p.run][m], d)
           /\ OthersStay(p.run, m)
  <2>1. node'[p.run][m].status \in {"open", "cancelled"} /\ node'[p.run][m].gate = None
    BY <1>5 DEF AfterDecision, NodeStateType
  <2>2. RunningUnpresented'
    <3>1. ASSUME NEW s \in Runs, NEW l \in Nodes, node'[s][l].status = "running"
          PROVE  node'[s][l] = node[s][l] /\ CurrentRef(s, l)' = CurrentRef(s, l)
      BY <1>5, <2>1, <3>1 DEF OthersStay, CurrentRef
    <3>2. QED
      BY <1>1, <3>1 DEF TablesInv, PacketInv, RunningUnpresented
  <2>3. Waits(p.run, m)'
    <3>1. p.number # None
      BY DecisionStep DEF PacketType, None
    <3>2. \A x \in Undecided(p.run, m) : x.number = p.number
      BY <1>1, <1>5, <3>1 DEF TablesInv, PacketInv, LiveRunsWait, Waits
    <3>3. \A x \in Undecided(p.run, m) : RefOf(x) = RefOf(p)
      BY <1>5, <3>2 DEF Undecided, RefOf
    <3>4. Undecided(p.run, m)' = {}
      BY <1>1, <3>3 DEF Undecided
    <3>5. QED
      BY <2>1, <3>4 DEF Waits
  <2>4. ASSUME NEW s \in Runs \ broken', NEW l \in Nodes, ~(s = p.run /\ l = m)
        PROVE  Waits(s, l)'
    <3>1. node'[s][l] = node[s][l] /\ Undecided(s, l)' = Undecided(s, l)
      BY <1>3, <1>5, <2>4 DEF OthersStay
    <3>2. s \in Runs \ broken
      BY <1>1
    <3>3. QED
      BY <3>1, <3>2 DEF TablesInv, PacketInv, LiveRunsWait, Waits
  <2>5. QED
    BY <1>2, <2>2, <2>3, <2>4 DEF PacketInv, LiveRunsWait
<1>6. QED
  BY <1>4, <1>5, DecisionStep

LEMMA PacketInvKept ==
    ASSUME Typed, TablesInv, [Next]_vars
    PROVE  PacketInv'
<1>1. ASSUME UNCHANGED <<node, attempts, receipts, packets, decided, broken>>
      PROVE  PacketInv'
  <2>1. /\ PresentedAreSealed' /\ DecidedArePresented' /\ ShowsVerdict'
        /\ RunningUnpresented'
    BY <1>1 DEF TablesInv, PacketInv, PresentedAreSealed, DecidedArePresented,
                ShowsVerdict, RunningUnpresented, CurrentRef, Keys
  <2>2. LiveRunsWait'
    BY <1>1 DEF TablesInv, PacketInv, LiveRunsWait, Waits, Undecided
  <2>3. QED
    BY <2>1, <2>2 DEF PacketInv
<1>2. ASSUME NEW r \in Runs, NEW n \in Nodes, Reclaim(r, n)
      PROVE  PacketInv'
  <2>1. PICK c \in claims : SealAndRelease(c, "failed", "reclaimed")
    BY <1>2 DEF Reclaim, ActiveOn, Active
  <2>2. QED
    BY <2>1, PacketInvSeal DEF Outcomes
<1>3. QED
  BY <1>1, <1>2, PacketInvClaim, PacketInvSeal, PacketInvCancel, PacketInvAdmit,
     PacketInvRetry, PacketInvGate, PacketInvDecision
     DEF Next, Complete, CreateRun, RevokeReceipt, vars

LEMMA TablesInvKept == Typed /\ TablesInv /\ [Next]_vars => TablesInv'
BY SealInvKept, VerdictInvKept, PacketInvKept DEF TablesInv

LEMMA TablesInvInit == Init => TablesInv
<1> SUFFICES ASSUME Init PROVE PacketInv
  BY SealInvInit, VerdictInvInit DEF TablesInv
<1>1. /\ PresentedAreSealed /\ DecidedArePresented /\ RunningUnpresented
      /\ ShowsVerdict
  BY DEF Init, PresentedAreSealed, DecidedArePresented, RunningUnpresented,
         ShowsVerdict, Keys, OpenState
<1>2. LiveRunsWait
  BY DEF Init, LiveRunsWait, Waits, Undecided, OpenState
<1>3. QED
  BY <1>1, <1>2 DEF PacketInv

(* In a run that replays, a node waits on its one undecided packet, a      *)
(* packet left undecided belongs to a cancelled node, and a packet on an   *)
(* attempt with a verdict shows that verdict.                              *)
THEOREM WaitsOnItsPacket == Spec => []WaitsOnOpenPacket
<1>1. Init => Typed /\ TablesInv
  BY TypedHolds, TablesInvInit
<1>2. Typed /\ TablesInv /\ [Next]_vars => (Typed /\ TablesInv)'
  BY TypedKept, TablesInvKept
<1>3. TablesInv => WaitsOnOpenPacket
  BY DEF TablesInv, PacketInv, LiveRunsWait, Waits, Undecided, ShowsVerdict,
         WaitsOnOpenPacket
<1>4. QED
  BY <1>1, <1>2, <1>3, PTL DEF Spec

-----------------------------------------------------------------------------
(* Attempts.                                                               *)

(* The decisions operators took on a node.                                 *)
DecidedOn(r, n) == {ref \in decided : ref.run = r /\ ref.node = n}

(* An open node has an attempt left.                                       *)
AttemptLeft ==
    \A r \in Runs, n \in Nodes :
        node[r][n].status = "open" =>
            node[r][n].started < MaxAttempts[n] + Cardinality(DecidedOn(r, n))

RetryInv == IsFiniteSet(decided) /\ AttemptLeft /\ RetriesBounded

LEMMA DecidedOnFinite ==
    ASSUME RetryInv, NEW r, NEW n
    PROVE  IsFiniteSet(DecidedOn(r, n)) /\ Cardinality(DecidedOn(r, n)) \in Nat
<1>1. DecidedOn(r, n) \in SUBSET decided
  BY DEF DecidedOn
<1>2. QED
  BY <1>1, FS_Subset, FS_CardinalityType DEF RetryInv

LEMMA MaxAttemptsType == \A n \in Nodes : MaxAttempts[n] \in Nat /\ MaxAttempts[n] > 0
BY GraphAssumption

(* A step that decides nothing, at whose node no attempt is started beyond *)
(* the bound.                                                              *)
LEMMA RetryInvElsewhere ==
    ASSUME Typed, RetryInv, NEW r \in Runs, NEW n \in Nodes,
           OthersStay(r, n), decided' = decided,
           node'[r][n].started <= MaxAttempts[n] + Cardinality(DecidedOn(r, n)),
           node'[r][n].status = "open" =>
              node'[r][n].started < MaxAttempts[n] + Cardinality(DecidedOn(r, n))
    PROVE  RetryInv'
<1>1. \A s \in Runs, m \in Nodes : DecidedOn(s, m)' = DecidedOn(s, m)
  BY DEF DecidedOn
<1>2. AttemptLeft'
  BY <1>1 DEF RetryInv, AttemptLeft, OthersStay
<1>3. RetriesBounded'
  BY <1>1 DEF RetryInv, RetriesBounded, OthersStay, DecidedOn
<1>4. QED
  BY <1>2, <1>3 DEF RetryInv

LEMMA RetryInvKept == Typed /\ RetryInv /\ [Next]_vars => RetryInv'
<1> SUFFICES ASSUME Typed, RetryInv, [Next]_vars PROVE RetryInv'
  OBVIOUS
<1>0. \A r \in Runs, n \in Nodes :
         /\ node[r][n].started \in Nat /\ MaxAttempts[n] \in Nat
         /\ Cardinality(DecidedOn(r, n)) \in Nat
         /\ node[r][n].started <= MaxAttempts[n] + Cardinality(DecidedOn(r, n))
  <2>1. ASSUME NEW r \in Runs, NEW n \in Nodes
        PROVE  node[r][n].started \in Nat /\ MaxAttempts[n] \in Nat
    BY MaxAttemptsType DEF Typed, TypeOK, NodeStateType
  <2>2. ASSUME NEW r \in Runs, NEW n \in Nodes
        PROVE  Cardinality(DecidedOn(r, n)) \in Nat
    BY DecidedOnFinite
  <2>3. ASSUME NEW r \in Runs, NEW n \in Nodes
        PROVE  node[r][n].started <= MaxAttempts[n] + Cardinality(DecidedOn(r, n))
    BY DEF RetryInv, RetriesBounded, DecidedOn
  <2>4. QED
    BY <2>1, <2>2, <2>3
<1>1. ASSUME node' = node, decided' = decided PROVE RetryInv'
  BY <1>1 DEF RetryInv, AttemptLeft, RetriesBounded, DecidedOn
<1>2. ASSUME NEW r \in Runs, NEW c \in Controllers, NEW now \in Times,
             ClaimNext(r, c, now)
      PROVE  RetryInv'
  <2>1. PICK n \in Nodes :
           /\ node[r][n].status = "open"
           /\ node'[r][n] = AfterDispatch(node[r][n], node[r][n].started + 1)
           /\ OthersStay(r, n) /\ decided' = decided
    BY <1>2, ClaimStep
  <2>2. /\ node'[r][n].started = node[r][n].started + 1
        /\ node'[r][n].status = "running"
    BY <2>1 DEF AfterDispatch
  <2>3. node[r][n].started < MaxAttempts[n] + Cardinality(DecidedOn(r, n))
    BY <2>1 DEF RetryInv, AttemptLeft
  <2>4. QED
    BY <1>0, <2>1, <2>2, <2>3, RetryInvElsewhere
<1>3. ASSUME NEW c \in claims, NEW o \in Outcomes,
             NEW how \in {"completed", "reclaimed"}, SealAndRelease(c, o, how)
      PROVE  RetryInv'
  <2>1. /\ c.run \in Runs /\ c.node \in Nodes
        /\ node[c.run][c.node] \in NodeStateType
        /\ node[c.run][c.node].status = "running"
        /\ node'[c.run][c.node] = AfterExecution(node[c.run][c.node], o)
        /\ OthersStay(c.run, c.node) /\ decided' = decided
    BY <1>3, SealStep DEF ClaimType
  <2>2. /\ node'[c.run][c.node].started = node[c.run][c.node].started
        /\ node'[c.run][c.node].status # "open"
    BY <2>1 DEF AfterExecution, Outcomes, NodeStateType
  <2>3. QED
    BY <1>0, <2>1, <2>2, RetryInvElsewhere
<1>4. ASSUME NEW r \in Runs, NEW n \in Nodes, Cancel(r, n)
      PROVE  RetryInv'
  <2>1. /\ node[r][n] \in NodeStateType
        /\ node'[r][n] = AfterCancel(node[r][n])
        /\ OthersStay(r, n) /\ decided' = decided
    BY <1>4, CancelStep
  <2>2. /\ node'[r][n].started = node[r][n].started
        /\ node'[r][n].status # "open"
    BY <2>1 DEF AfterCancel, NodeStateType
  <2>3. QED
    BY <1>0, <2>1, <2>2, RetryInvElsewhere
<1>5. ASSUME NEW r \in Runs, NEW n \in Nodes, NEW v \in Verdicts,
             NEW until \in Validities, NEW now \in Times,
             AdmitReceipt(r, n, node[r][n].current, v, until, now)
      PROVE  RetryInv'
  <2>1. /\ node[r][n] \in NodeStateType
        /\ node'[r][n] = AfterVerdict(node[r][n], node[r][n].current, v)
        /\ OthersStay(r, n) /\ decided' = decided
    BY <1>5, AdmitStep
  <2>2. /\ node'[r][n].started = node[r][n].started
        /\ node'[r][n].status # "open"
    BY <2>1, VerdictMoves
  <2>3. QED
    BY <1>0, <2>1, <2>2, RetryInvElsewhere
<1>6. ASSUME NEW r \in Runs, NEW n \in Nodes, NEW now \in Times,
             ApplyRetryPolicy(r, n, now)
      PROVE  RetryInv'
  <2>1. /\ node[r][n] \in NodeStateType
        /\ \/ /\ node[r][n].started < MaxAttempts[n]
              /\ node'[r][n] = AfterRetry(node[r][n])
           \/ node'[r][n] = AfterCancel(node[r][n])
        /\ OthersStay(r, n) /\ decided' = decided
    BY <1>6, RetryStep
  <2>2. /\ node'[r][n].started = node[r][n].started
        /\ node'[r][n].status = "open" => node[r][n].started < MaxAttempts[n]
    BY <2>1 DEF AfterRetry, AfterCancel, NodeStateType
  <2>3. QED
    BY <1>0, <2>1, <2>2, RetryInvElsewhere
<1>7. ASSUME NEW r \in Runs, NEW n \in Nodes,
             NEW now \in Times, NEW expires \in Expiries,
             OpenResolveWork(r, n, now, expires)
      PROVE  RetryInv'
  <2>1. /\ node[r][n] \in NodeStateType
        /\ node'[r][n] = AfterGate(node[r][n], node[r][n].current)
        /\ OthersStay(r, n) /\ decided' = decided
    BY <1>7, GateStep
  <2>2. /\ node'[r][n].started = node[r][n].started
        /\ node'[r][n].status # "open"
    BY <2>1 DEF AfterGate, NodeStateType
  <2>3. QED
    BY <1>0, <2>1, <2>2, RetryInvElsewhere
<1>8. ASSUME NEW p \in packets, NEW m \in Nodes, NEW d \in DecisionKinds,
             AdmitDecision(p, m, d)
      PROVE  RetryInv'
  <2>1. /\ p.run \in Runs /\ p.node \in Nodes
        /\ RefOf(p) \notin decided /\ decided' = decided \cup {RefOf(p)}
    BY <1>8, DecisionStep DEF PacketType
  <2>2. IsFiniteSet(decided')
    BY <2>1, FS_AddElement DEF RetryInv
  <2>3. ASSUME NEW s \in Runs, NEW l \in Nodes, ~(s = p.run /\ l = p.node)
        PROVE  DecidedOn(s, l)' = DecidedOn(s, l)
    BY <2>1, <2>3 DEF DecidedOn, RefOf
  <2>4. Cardinality(DecidedOn(p.run, p.node)') = Cardinality(DecidedOn(p.run, p.node)) + 1
    <3>1. /\ DecidedOn(p.run, p.node)' = DecidedOn(p.run, p.node) \cup {RefOf(p)}
          /\ RefOf(p) \notin DecidedOn(p.run, p.node)
      BY <2>1 DEF DecidedOn, RefOf
    <3>2. QED
      BY <3>1, DecidedOnFinite, FS_AddElement
  <2>5. ASSUME NEW s \in Runs, NEW l \in Nodes
        PROVE  /\ node'[s][l].started = node[s][l].started
               /\ \/ node'[s][l] = node[s][l]
                  \/ s = p.run /\ l = p.node
    <3>1. CASE node' = node
      BY <3>1
    <3>2. CASE /\ m = p.node
               /\ node[p.run][m] \in NodeStateType
               /\ node'[p.run][m] = AfterDecision(node[p.run][m], d)
               /\ OthersStay(p.run, m)
      <4>1. node'[p.run][m].started = node[p.run][m].started
        BY <3>2 DEF AfterDecision, NodeStateType
      <4>2. QED
        BY <3>2, <4>1 DEF OthersStay
    <3>3. QED
      BY <1>8, <3>1, <3>2, DecisionStep
  <2>6. ASSUME NEW s \in Runs, NEW l \in Nodes
        PROVE  /\ node'[s][l].started
                     <= MaxAttempts[l] + Cardinality(DecidedOn(s, l)')
               /\ node'[s][l].status = "open" => node'[s][l].started
                     < MaxAttempts[l] + Cardinality(DecidedOn(s, l)')
    <3>1. CASE s = p.run /\ l = p.node
      BY <1>0, <2>4, <2>5, <3>1
    <3>2. CASE ~(s = p.run /\ l = p.node)
      BY <1>0, <2>3, <2>5, <3>2 DEF RetryInv, AttemptLeft
    <3>3. QED
      BY <3>1, <3>2
  <2>7. QED
    BY <2>2, <2>6 DEF RetryInv, AttemptLeft, RetriesBounded, DecidedOn
<1>9. ASSUME NEW r \in Runs, NEW n \in Nodes, Reclaim(r, n)
      PROVE  RetryInv'
  <2>1. PICK c \in ActiveOn(r, n) : SealAndRelease(c, "failed", "reclaimed")
    BY <1>9 DEF Reclaim
  <2>2. c \in claims /\ "failed" \in Outcomes
    BY DEF ActiveOn, Active, Outcomes
  <2>3. QED
    BY <1>3, <2>1, <2>2
<1>10. QED
  BY <1>1, <1>2, <1>3, <1>4, <1>5, <1>6, <1>7, <1>8, <1>9
     DEF Next, Complete, CreateRun, RevokeReceipt, vars

LEMMA RetryInvInit == Init => RetryInv
<1> SUFFICES ASSUME Init PROVE RetryInv
  OBVIOUS
<1>1. IsFiniteSet(decided) /\ \A r \in Runs, n \in Nodes : DecidedOn(r, n) = {}
  BY FS_EmptySet DEF Init, DecidedOn
<1>2. \A r \in Runs, n \in Nodes : Cardinality(DecidedOn(r, n)) = 0
  BY <1>1, FS_EmptySet
<1>3. \A r \in Runs, n \in Nodes : node[r][n].started = 0
  BY DEF Init, OpenState
<1>4. QED
  BY <1>1, <1>2, <1>3, MaxAttemptsType
     DEF RetryInv, AttemptLeft, RetriesBounded, DecidedOn

(* A node starts at most max_attempts attempts and one more for each       *)
(* decision an operator took at its gate, however retries, reclaims and    *)
(* cancellations are interleaved.                                          *)
THEOREM RetriesStayBounded == Spec => []RetriesBounded
<1>1. Init => Typed /\ RetryInv
  BY TypedHolds, RetryInvInit
<1>2. Typed /\ RetryInv /\ [Next]_vars => (Typed /\ RetryInv)'
  BY TypedKept, RetryInvKept
<1>3. RetryInv => RetriesBounded
  BY DEF RetryInv
<1>4. QED
  BY <1>1, <1>2, <1>3, PTL DEF Spec

-----------------------------------------------------------------------------
(* A run's own attempts stay within the graph-wide budget.                 *)

(* The claim rows budget_status counts for one run.                        *)
RowsOf(r) == {c \in claims : c.run = r}

BudgetInv == IsFiniteSet(claims) /\ RunBudget

(* Counting over a lineage counts the run's own attempts among others.     *)
LEMMA OwnRowsAreConsumed ==
    ASSUME IsFiniteSet(claims), NEW r \in Runs
    PROVE  /\ IsFiniteSet(RowsOf(r)) /\ Cardinality(RowsOf(r)) \in Nat
           /\ Consumed(r) \in Nat /\ Cardinality(RowsOf(r)) <= Consumed(r)
<1> DEFINE all == {c \in claims : c.run \in {r} \cup Ancestors(r)}
<1>1. all \in SUBSET claims /\ RowsOf(r) \in SUBSET all
  BY DEF RowsOf
<1>2. IsFiniteSet(all) /\ Cardinality(all) \in Nat
  BY <1>1, FS_Subset, FS_CardinalityType
<1>3. /\ IsFiniteSet(RowsOf(r)) /\ Cardinality(RowsOf(r)) \in Nat
      /\ Cardinality(RowsOf(r)) <= Cardinality(all)
  BY <1>1, <1>2, FS_Subset, FS_CardinalityType
<1>4. QED
  BY <1>2, <1>3 DEF Consumed

(* Releasing claims adds no attempt to any run's count.                    *)
LEMMA ReleaseKeepsCount ==
    ASSUME Typed, BudgetInv, NEW rows \in SUBSET claims,
           NEW how \in {"completed", "cancelled", "reclaimed"},
           claims' = Release(rows, how)
    PROVE  BudgetInv'
<1>1. ASSUME NEW S \in SUBSET claims, NEW T,
             \A c \in T : \E d \in S : c = Moved(d, rows, how),
             \A d \in S : Moved(d, rows, how) \in T
      PROVE  IsFiniteSet(T) /\ Cardinality(T) <= Cardinality(S)
  <2> DEFINE f == [d \in S |-> Moved(d, rows, how)]
  <2> HIDE DEF Moved
  <2>1. f \in Surjection(S, T)
    BY <1>1 DEF Surjection
  <2>2. IsFiniteSet(S)
    BY FS_Subset DEF BudgetInv
  <2>3. QED
    BY <2>1, <2>2, FS_Surjection
<1>2. /\ \A c \in claims' : \E d \in claims :
            c = Moved(d, rows, how) /\ c.run = d.run
      /\ \A d \in claims : /\ Moved(d, rows, how) \in claims'
                           /\ Moved(d, rows, how).run = d.run
  BY ReleaseMovesRows DEF Typed
<1> HIDE DEF Moved
<1>3. IsFiniteSet(claims')
  BY <1>1, <1>2
<1>4. ASSUME NEW r \in Runs PROVE Cardinality(RowsOf(r)') <= TotalAttempts
  <2>1. RowsOf(r) \in SUBSET claims
    BY DEF RowsOf
  <2>2. /\ \A c \in RowsOf(r)' : \E d \in RowsOf(r) : c = Moved(d, rows, how)
        /\ \A d \in RowsOf(r) : Moved(d, rows, how) \in RowsOf(r)'
    BY <1>2 DEF RowsOf
  <2>3. IsFiniteSet(RowsOf(r)') /\ Cardinality(RowsOf(r)') <= Cardinality(RowsOf(r))
    BY <1>1, <2>1, <2>2
  <2>4. /\ Cardinality(RowsOf(r)') \in Nat /\ Cardinality(RowsOf(r)) \in Nat
        /\ Cardinality(RowsOf(r)) <= TotalAttempts /\ TotalAttempts \in Nat
    BY <2>3, FS_CardinalityType, OwnRowsAreConsumed, GraphAssumption
       DEF BudgetInv, RunBudget, DispatchCount, RowsOf
  <2>5. QED
    BY <2>3, <2>4
<1>5. QED
  BY <1>3, <1>4 DEF BudgetInv, RunBudget, DispatchCount, RowsOf

LEMMA BudgetInvKept == Typed /\ BudgetInv /\ [Next]_vars => BudgetInv'
<1> SUFFICES ASSUME Typed, BudgetInv, [Next]_vars PROVE BudgetInv'
  OBVIOUS
<1>1. CASE UNCHANGED <<claims, attempts>>
  BY <1>1 DEF BudgetInv, RunBudget, DispatchCount
<1>2. ASSUME NEW r \in Runs, NEW c \in Controllers, NEW now \in Times,
             ClaimNext(r, c, now)
      PROVE  BudgetInv'
  <2>1. PICK row \in ClaimType :
           /\ ~BudgetExhausted(r, now) /\ row.run = r
           /\ claims' = claims \cup {row}
    BY <1>2, ClaimStep
  <2>2. IsFiniteSet(claims')
    BY <2>1, FS_AddElement DEF BudgetInv
  <2>3. ASSUME NEW s \in Runs PROVE Cardinality(RowsOf(s)') <= TotalAttempts
    <3>1. /\ IsFiniteSet(RowsOf(s)) /\ Cardinality(RowsOf(s)) \in Nat
          /\ Cardinality(RowsOf(s)) <= TotalAttempts /\ TotalAttempts \in Nat
      BY OwnRowsAreConsumed, GraphAssumption
         DEF BudgetInv, RunBudget, DispatchCount, RowsOf
    <3>2. CASE s # r
      <4>1. RowsOf(s)' = RowsOf(s)
        BY <2>1, <3>2 DEF RowsOf
      <4>2. QED
        BY <3>1, <4>1
    <3>3. CASE s = r
      <4>1. RowsOf(r)' = RowsOf(r) \cup {row}
        BY <2>1 DEF RowsOf
      <4>2. /\ IsFiniteSet(RowsOf(r) \cup {row})
            /\ Cardinality(RowsOf(r) \cup {row}) =
                  IF row \in RowsOf(r) THEN Cardinality(RowsOf(r))
                  ELSE Cardinality(RowsOf(r)) + 1
        BY <3>1, <3>3, FS_AddElement
      <4>3. Consumed(r) \in Nat /\ Cardinality(RowsOf(r)) <= Consumed(r)
        BY OwnRowsAreConsumed DEF BudgetInv
      <4>4. Cardinality(RowsOf(r)) < TotalAttempts
        BY <2>1, <3>1, <3>3, <4>3 DEF BudgetExhausted
      <4>5. Cardinality(RowsOf(r) \cup {row}) <= TotalAttempts
        BY <3>1, <3>3, <4>2, <4>4
      <4>6. QED
        BY <3>3, <4>1, <4>5
    <3>4. QED
      BY <3>2, <3>3
  <2>4. QED
    BY <2>2, <2>3 DEF BudgetInv, RunBudget, DispatchCount, RowsOf
<1>3. ASSUME NEW c \in claims, NEW o \in Outcomes,
             NEW how \in {"completed", "reclaimed"}, SealAndRelease(c, o, how)
      PROVE  BudgetInv'
  <2>1. PICK rows \in SUBSET claims : rows = {c}
    OBVIOUS
  <2>2. claims' = Release(rows, how)
    BY <1>3, <2>1, SealStep
  <2>3. QED
    BY <2>2, ReleaseKeepsCount
<1>4. ASSUME NEW r \in Runs, NEW n \in Nodes, Cancel(r, n)
      PROVE  BudgetInv'
  <2>1. ActiveOn(r, n) \in SUBSET claims
    BY DEF ActiveOn, Active
  <2>2. claims' = Release(ActiveOn(r, n), "cancelled")
    BY <1>4, CancelStep
  <2>3. QED
    BY <2>1, <2>2, ReleaseKeepsCount
<1>5. QED
  BY <1>1, <1>2, <1>3, <1>4, ClaimsAndAttempts

LEMMA BudgetInvInit == Init => BudgetInv
<1> SUFFICES ASSUME Init PROVE BudgetInv
  OBVIOUS
<1>1. IsFiniteSet(claims) /\ \A r \in Runs : RowsOf(r) = {}
  BY FS_EmptySet DEF Init, RowsOf
<1>2. \A r \in Runs : Cardinality(RowsOf(r)) = 0
  BY <1>1, FS_EmptySet
<1>3. QED
  BY <1>1, <1>2, GraphAssumption DEF BudgetInv, RunBudget, DispatchCount, RowsOf

(* However its nodes retry, are reclaimed, reopened by decisions or        *)
(* cancelled, a run never starts more attempts than the graph's total: the *)
(* budget is read in the transaction that inserts the claim.               *)
THEOREM BudgetHolds == Spec => []RunBudget
<1>1. Init => Typed /\ BudgetInv
  BY TypedHolds, BudgetInvInit
<1>2. Typed /\ BudgetInv /\ [Next]_vars => (Typed /\ BudgetInv)'
  BY TypedKept, BudgetInvKept
<1>3. BudgetInv => RunBudget
  BY DEF BudgetInv
<1>4. QED
  BY <1>1, <1>2, <1>3, PTL DEF Spec
=============================================================================
