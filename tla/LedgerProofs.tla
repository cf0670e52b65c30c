---------------------------- MODULE LedgerProofs ----------------------------
(***************************************************************************)
(* Theorems about NodeState and Ledger, for every value of the constants.  *)
(***************************************************************************)
EXTENDS Ledger, TLAPS

-----------------------------------------------------------------------------
(* What the reducer does to one node, for every state and every event.     *)

Events ==
    {Dispatched(k) : k \in Nat}
    \cup {Finished(k, o) : k \in Nat, o \in Outcomes}
    \cup {Judged(k, v) : k \in Nat, v \in Verdicts}
    \cup {RetryAllowed, NodeCancelled}
    \cup {GateOpened(p) : p \in Nat}
    \cup {Decided(p, d) : p \in Nat, d \in Decisions}

(* `apply` of an event it takes, spelled out by kind: the branch of the    *)
(* match the event's kind selects.                                         *)
LEMMA ApplyByKind ==
    ASSUME NEW s, NEW e \in Events
    PROVE  \/ \E k \in Nat : e = Dispatched(k) /\ Apply(s, e) = AfterDispatch(s, k)
           \/ \E k \in Nat, o \in Outcomes :
                 e = Finished(k, o) /\ Apply(s, e) = AfterExecution(s, o)
           \/ \E k \in Nat, v \in Verdicts :
                 e = Judged(k, v) /\ Apply(s, e) = AfterVerdict(s, k, v)
           \/ e = RetryAllowed /\ Apply(s, e) = AfterRetry(s)
           \/ \E p \in Nat : e = GateOpened(p) /\ Apply(s, e) = AfterGate(s, p)
           \/ \E p \in Nat, d \in Decisions :
                 e = Decided(p, d) /\ Apply(s, e) = AfterDecision(s, d)
           \/ e = NodeCancelled /\ Apply(s, e) = AfterCancel(s)
<1>1. CASE \E k \in Nat : e = Dispatched(k)
  BY <1>1 DEF Dispatched, Apply
<1>2. CASE \E k \in Nat, o \in Outcomes : e = Finished(k, o)
  BY <1>2 DEF Finished, Apply
<1>3. CASE \E k \in Nat, v \in Verdicts : e = Judged(k, v)
  BY <1>3 DEF Judged, Apply
<1>4. CASE e = RetryAllowed
  BY <1>4 DEF RetryAllowed, Apply
<1>5. CASE \E p \in Nat : e = GateOpened(p)
  BY <1>5 DEF GateOpened, Apply
<1>6. CASE \E p \in Nat, d \in Decisions : e = Decided(p, d)
  BY <1>6 DEF Decided, Apply
<1>7. CASE e = NodeCancelled
  BY <1>7 DEF NodeCancelled, Apply
<1>8. QED
  BY <1>1, <1>2, <1>3, <1>4, <1>5, <1>6, <1>7 DEF Events

(* The reducer maps states to states.                                      *)
LEMMA ReducerType ==
    ASSUME NEW s \in NodeStateType, NEW e \in Events, Legal(s, e)
    PROVE  Apply(s, e) \in NodeStateType
<1> USE DEF NodeStateType, Statuses, None
<1>1. ASSUME NEW k \in Nat PROVE AfterDispatch(s, k) \in NodeStateType
  BY <1>1 DEF AfterDispatch
<1>2. ASSUME NEW o \in Outcomes PROVE AfterExecution(s, o) \in NodeStateType
  BY <1>2 DEF AfterExecution, Outcomes
<1>3. ASSUME NEW k \in Nat, NEW v \in Verdicts
      PROVE  AfterVerdict(s, k, v) \in NodeStateType
  BY <1>3 DEF AfterVerdict, Verdicts
<1>4. AfterRetry(s) \in NodeStateType
  BY DEF AfterRetry
<1>5. ASSUME NEW p \in Nat PROVE AfterGate(s, p) \in NodeStateType
  BY <1>5 DEF AfterGate
<1>6. ASSUME NEW d \in Decisions PROVE AfterDecision(s, d) \in NodeStateType
  BY <1>6 DEF AfterDecision
<1>7. AfterCancel(s) \in NodeStateType
  BY DEF AfterCancel
<1> HIDE DEF NodeStateType, Statuses, None
<1>8. QED
  BY <1>1, <1>2, <1>3, <1>4, <1>5, <1>6, <1>7, ApplyByKind

(* No event moves an accepted or cancelled node.                           *)
LEMMA TerminalIsFinal ==
    ASSUME NEW s \in NodeStateType, NEW e \in Events, Legal(s, e)
    PROVE  ~IsTerminal(s)
BY DEF Legal, IsTerminal

(* Only an accept verdict accepts, and the node then names its receipt.    *)
LEMMA OnlyVerdictAccepts ==
    ASSUME NEW s \in NodeStateType, NEW e \in Events, Legal(s, e),
           Apply(s, e).status = "accepted"
    PROVE  \E k \in Nat : e = Judged(k, "accept") /\ Apply(s, e).receipt = k
<1> USE DEF NodeStateType
<1> s.status # "accepted"
  BY TerminalIsFinal DEF IsTerminal
<1>1. ASSUME NEW k \in Nat PROVE AfterDispatch(s, k).status # "accepted"
  BY DEF AfterDispatch
<1>2. ASSUME NEW o \in Outcomes PROVE AfterExecution(s, o).status # "accepted"
  BY <1>2 DEF AfterExecution, Outcomes
<1>3. ASSUME NEW k \in Nat, NEW v \in Verdicts,
             AfterVerdict(s, k, v).status = "accepted"
      PROVE  v = "accept" /\ AfterVerdict(s, k, v).receipt = k
  BY <1>3 DEF AfterVerdict, Verdicts
<1>4. AfterRetry(s).status # "accepted"
  BY DEF AfterRetry
<1>5. ASSUME NEW p \in Nat PROVE AfterGate(s, p).status # "accepted"
  BY DEF AfterGate
<1>6. ASSUME NEW d \in Decisions PROVE AfterDecision(s, d).status # "accepted"
  BY DEF AfterDecision
<1>7. AfterCancel(s).status # "accepted"
  BY DEF AfterCancel
<1>8. QED
  BY <1>1, <1>2, <1>3, <1>4, <1>5, <1>6, <1>7, ApplyByKind

(* Only a dispatch counts as a started attempt, and it counts one.         *)
LEMMA OnlyDispatchStarts ==
    ASSUME NEW s \in NodeStateType, NEW e \in Events, Legal(s, e)
    PROVE  \/ /\ e = Dispatched(s.started + 1)
              /\ s.status = "open"
              /\ Apply(s, e).started = s.started + 1
              /\ Apply(s, e).status = "running" /\ ~Apply(s, e).checking
           \/ Apply(s, e).started = s.started /\ e.kind # "attempt_dispatched"
<1> USE DEF NodeStateType
<1>1. ASSUME NEW k \in Nat, e = Dispatched(k)
      PROVE  /\ k = s.started + 1 /\ s.status = "open"
             /\ AfterDispatch(s, k).started = s.started + 1
             /\ AfterDispatch(s, k).status = "running"
             /\ ~AfterDispatch(s, k).checking
  BY <1>1 DEF AfterDispatch, Dispatched, Legal
<1>2. ASSUME NEW o \in Outcomes PROVE AfterExecution(s, o).started = s.started
  BY <1>2 DEF AfterExecution, Outcomes
<1>3. ASSUME NEW k \in Nat, NEW v \in Verdicts
      PROVE  AfterVerdict(s, k, v).started = s.started
  BY <1>3 DEF AfterVerdict, Verdicts
<1>4. AfterRetry(s).started = s.started
  BY DEF AfterRetry
<1>5. ASSUME NEW p \in Nat PROVE AfterGate(s, p).started = s.started
  BY DEF AfterGate
<1>6. ASSUME NEW d \in Decisions PROVE AfterDecision(s, d).started = s.started
  BY DEF AfterDecision
<1>7. AfterCancel(s).started = s.started
  BY DEF AfterCancel
<1>8. \/ \E k \in Nat : e = Dispatched(k)
      \/ e.kind # "attempt_dispatched"
  BY DEF Events, Finished, Judged, RetryAllowed, GateOpened, Decided, NodeCancelled
<1>9. CASE \E k \in Nat : e = Dispatched(k)
  <2>1. PICK k \in Nat : e = Dispatched(k)
    BY <1>9
  <2>2. Apply(s, e) = AfterDispatch(s, k)
    BY <2>1 DEF Apply, Dispatched
  <2>3. QED
    BY <1>1, <2>1, <2>2
<1>10. CASE e.kind # "attempt_dispatched"
  <2>1. \A k \in Nat : e # Dispatched(k)
    BY <1>10 DEF Dispatched
  <2> HIDE DEF NodeStateType
  <2>2. QED
    BY <1>2, <1>3, <1>4, <1>5, <1>6, <1>7, <1>10, <2>1, ApplyByKind
<1>11. QED
  BY <1>8, <1>9, <1>10

-----------------------------------------------------------------------------

(***************************************************************************)
(* NextFence and LastReceipt choose the largest element of a set, so typing *)
(* them needs one to exist: the claims of a run have a largest token, and  *)
(* the receipts of a node a largest number.  Releasing a claim keeps its   *)
(* token; claiming and admitting add one element.                          *)
(***************************************************************************)
Issued(r) == {c.fence : c \in {x \in claims : x.run = r}}

HasTop(S) == S = {} \/ \E f \in S : \A g \in S : g <= f

FencesHaveTop == \A r \in Runs : HasTop(Issued(r))

Numbers(r, n) == {q.number : q \in {x \in receipts : x.run = r /\ x.node = n}}

ReceiptsHaveTop == \A r \in Runs, n \in Nodes : HasTop(Numbers(r, n))

(* One more number leaves a set with a largest element.                    *)
LEMMA AddKeepsTop ==
    ASSUME NEW S, S \subseteq Nat, HasTop(S), NEW k \in Nat
    PROVE  HasTop(S \cup {k})
<1>1. CASE S = {}
  BY <1>1 DEF HasTop
<1>2. CASE S # {}
  <2>1. PICK f \in S : \A g \in S : g <= f
    BY <1>2 DEF HasTop
  <2>2. CASE k <= f
    BY <2>1, <2>2 DEF HasTop
  <2>3. CASE ~(k <= f)
    <3>1. \A g \in S \cup {k} : g <= k
      BY <2>1, <2>3
    <3>2. QED
      BY <3>1 DEF HasTop
  <2>4. QED
    BY <2>2, <2>3
<1>3. QED
  BY <1>1, <1>2

-----------------------------------------------------------------------------
(* Rows of the tables name attempts.                                       *)
LEMMA KeysAreRefs ==
    ASSUME TypeOK
    PROVE  /\ Keys(claims) \subseteq Refs
           /\ Keys(attempts) \subseteq Refs
           /\ Keys(receipts) \subseteq Refs
           /\ Keys(packets) \subseteq Refs
BY DEF TypeOK, Keys, RefOf, Refs, ClaimType, AttemptType, ReceiptType, PacketType

(* Appending an event moves one node by the reducer and no other.          *)
LEMMA AppendOne ==
    ASSUME TypeOK, NEW r \in Runs, NEW n \in Nodes, NEW e \in Events,
           AppendEvent(r, n, e)
    PROVE  /\ node[r][n] \in NodeStateType
           /\ Legal(node[r][n], e)
           /\ node' \in [Runs -> [Nodes -> NodeStateType]]
           /\ node'[r][n] = Apply(node[r][n], e)
           /\ \A s \in Runs, m \in Nodes :
                 s # r \/ m # n => node'[s][m] = node[s][m]
<1>1. node[r][n] \in NodeStateType
  BY DEF TypeOK
<1>2. Apply(node[r][n], e) \in NodeStateType
  BY <1>1, ReducerType DEF AppendEvent
<1>3. QED
  BY <1>1, <1>2 DEF AppendEvent, TypeOK

(* The row a claim becomes when the claims in rows are released.           *)
Moved(c, rows, how) == IF c \in rows THEN [c EXCEPT !.release = how] ELSE c

(* Releasing rewrites the release column of some rows and nothing else.    *)
LEMMA ReleaseMovesRows ==
    ASSUME TypeOK, NEW rows \in SUBSET claims,
           NEW how \in {"completed", "cancelled", "reclaimed"}
    PROVE  /\ Release(rows, how) \subseteq ClaimType
           /\ \A c \in Release(rows, how) :
                 \E d \in claims : c = Moved(d, rows, how)
           /\ \A d \in claims : Moved(d, rows, how) \in Release(rows, how)
           /\ \A d \in claims : LET c == Moved(d, rows, how) IN
                 /\ c.run = d.run /\ c.node = d.node /\ c.number = d.number
                 /\ c.fence = d.fence /\ c.deps = d.deps /\ c.owner = d.owner
<1>1. claims \subseteq ClaimType
  BY DEF TypeOK
<1>2. \A d \in claims : [d EXCEPT !.release = how] \in ClaimType
  BY <1>1 DEF ClaimType
<1>3. QED
  BY <1>1, <1>2 DEF Release, Moved, ClaimType

(* A released table has the tokens it had.                                 *)
LEMMA ReleaseKeepsTokens ==
    ASSUME TypeOK, FencesHaveTop, NEW rows \in SUBSET claims,
           NEW how \in {"completed", "cancelled", "reclaimed"},
           claims' = Release(rows, how)
    PROVE  FencesHaveTop'
<1>1. SUFFICES ASSUME NEW r \in Runs PROVE Issued(r)' = Issued(r)
  BY <1>1 DEF FencesHaveTop, HasTop
<1>2. ASSUME NEW c \in claims', c.run = r PROVE c.fence \in Issued(r)
  BY <1>2, ReleaseMovesRows DEF Issued
<1>3. ASSUME NEW d \in claims, d.run = r PROVE d.fence \in Issued(r)'
  BY <1>3, ReleaseMovesRows DEF Issued
<1>4. QED
  BY <1>2, <1>3 DEF Issued

(* The token a claim gets is larger than every token of its run.           *)
LEMMA NextFenceIsLargest ==
    ASSUME TypeOK, FencesHaveTop, NEW r \in Runs
    PROVE  /\ NextFence(r) \in Nat \ {0}
           /\ \A c \in claims : c.run = r => c.fence < NextFence(r)
<1>1. Issued(r) \subseteq Nat
  BY DEF Issued, TypeOK, ClaimType
<1>2. CASE Issued(r) = {}
  BY <1>2 DEF NextFence, Issued
<1>3. CASE Issued(r) # {}
  <2> DEFINE top == CHOOSE f \in Issued(r) : \A g \in Issued(r) : g <= f
  <2>1. top \in Issued(r) /\ \A g \in Issued(r) : g <= top
    BY <1>3 DEF FencesHaveTop, HasTop
  <2>2. NextFence(r) = 1 + top
    BY <1>3 DEF NextFence, Issued
  <2>3. \A c \in claims : c.run = r => c.fence \in Issued(r)
    BY DEF Issued
  <2> HIDE DEF top
  <2>4. QED
    BY <1>1, <2>1, <2>2, <2>3
<1>4. QED
  BY <1>2, <1>3

(* A new claim pins receipts in the table, an accepting one of each        *)
(* dependency's node.                                                      *)
LEMMA SnapshotIsAccepted ==
    ASSUME TypeOK, NEW r \in Runs, NEW n \in Nodes, NEW now \in Times,
           Ready(r, n, now)
    PROVE  /\ Snapshot(r, n) \subseteq Refs
           /\ \A d \in Deps[n] :
                 \E q \in receipts : q.node = d /\ q.verdict = "accept"
<1>1. \A d \in Deps[n] :
         \E q \in receipts : /\ RefOf(q) = Source(r, d) /\ q.verdict = "accept"
                            /\ Source(r, d).node = d
  BY DEF Ready, Resolves, Admissible, ReceiptAt
<1>2. \A q \in receipts : RefOf(q) \in Refs /\ RefOf(q).node = q.node
  BY KeysAreRefs DEF Keys, RefOf
<1>3. QED
  BY <1>1, <1>2 DEF Snapshot

-----------------------------------------------------------------------------
(* Type correctness.  Each transaction is one step: the node it moves, and *)
(* the rows it writes.                                                     *)

LEMMA InitType == Init => TypeOK /\ FencesHaveTop /\ ReceiptsHaveTop
<1> SUFFICES ASSUME Init PROVE TypeOK /\ FencesHaveTop /\ ReceiptsHaveTop
  OBVIOUS
<1>1. OpenState \in NodeStateType
  BY DEF OpenState, NodeStateType, Statuses, None
<1>2. TypeOK
  BY <1>1 DEF Init, TypeOK
<1>3. FencesHaveTop
  BY DEF Init, FencesHaveTop, HasTop, Issued
<1>4. ReceiptsHaveTop
  BY DEF Init, ReceiptsHaveTop, HasTop, Numbers
<1>5. QED
  BY <1>2, <1>3, <1>4

(* The events transactions append are events of the reducer.               *)
LEMMA EventsOfTransactions ==
    ASSUME TypeOK
    PROVE  /\ \A r \in Runs, n \in Nodes :
                 Dispatched(node[r][n].started + 1) \in Events
           /\ \A r \in Runs, n \in Nodes, v \in Verdicts :
                 Judged(node[r][n].current, v) \in Events
           /\ \A r \in Runs, n \in Nodes : GateOpened(node[r][n].current) \in Events
           /\ \A c \in claims, o \in Outcomes : Finished(c.number, o) \in Events
           /\ \A p \in packets, d \in DecisionKinds : Decided(p.number, d) \in Events
<1>1. \A r \in Runs, n \in Nodes :
         node[r][n].started \in Nat /\ node[r][n].current \in Nat
  BY DEF TypeOK, NodeStateType
<1>2. \A c \in claims : c.number \in Nat
  BY DEF TypeOK, ClaimType
<1>3. \A p \in packets : p.number \in Nat
  BY DEF TypeOK, PacketType
<1>4. \A r \in Runs, n \in Nodes : node[r][n].started + 1 \in Nat
  BY <1>1
<1>5. DecisionKinds \subseteq Decisions
  BY CallerAssumption
<1>6. QED
  BY <1>1, <1>2, <1>3, <1>4, <1>5 DEF Events

(* What claim_next writes: one row, for the next attempt of a ready node,  *)
(* under the next token.                                                   *)
LEMMA ClaimNextWrites ==
    ASSUME TypeOK, FencesHaveTop, NEW r \in Runs, NEW c \in Controllers,
           NEW now \in Times, ClaimNext(r, c, now)
    PROVE  \E n \in Nodes, row \in ClaimType :
              /\ Ready(r, n, now)
              /\ AppendEvent(r, n, Dispatched(node[r][n].started + 1))
              /\ row.run = r /\ row.node = n
              /\ row.number = node[r][n].started + 1
              /\ row.fence = NextFence(r)
              /\ claims' = claims \cup {row}
<1>1. PICK n \in Nodes :
         /\ Ready(r, n, now)
         /\ AppendEvent(r, n, Dispatched(node[r][n].started + 1))
         /\ claims' = claims \cup
              {[run |-> r, node |-> n, number |-> node[r][n].started + 1,
                owner |-> c, fence |-> NextFence(r), deps |-> Snapshot(r, n),
                release |-> "held"]}
  BY DEF ClaimNext, IsNextReady
<1> DEFINE row == [run |-> r, node |-> n, number |-> node[r][n].started + 1,
                   owner |-> c, fence |-> NextFence(r), deps |-> Snapshot(r, n),
                   release |-> "held"]
<1>2. node[r][n].started + 1 \in Nat \ {0}
  BY DEF TypeOK, NodeStateType
<1>3. NextFence(r) \in Nat \ {0}
  BY NextFenceIsLargest
<1>4. Snapshot(r, n) \in SUBSET Refs
  BY <1>1, SnapshotIsAccepted
<1>5. row \in ClaimType
  BY <1>2, <1>3, <1>4 DEF ClaimType
<1>6. QED
  BY <1>1, <1>5

(* A transaction either leaves every node alone or appends one event.      *)
LEMMA OneEventAtATime ==
    ASSUME TypeOK, FencesHaveTop, [Next]_vars
    PROVE  \/ node' = node
           \/ \E r \in Runs, n \in Nodes, e \in Events : AppendEvent(r, n, e)
<1> USE EventsOfTransactions
<1>1. ASSUME NEW r \in Runs, NEW c \in Controllers, NEW now \in Times,
             ClaimNext(r, c, now)
      PROVE  \E n \in Nodes, e \in Events : AppendEvent(r, n, e)
  BY <1>1, ClaimNextWrites
<1>2. ASSUME NEW c \in claims, NEW o \in Outcomes, NEW how, SealAndRelease(c, o, how)
      PROVE  \E r \in Runs, n \in Nodes, e \in Events : AppendEvent(r, n, e)
  <2>1. c.run \in Runs /\ c.node \in Nodes
    BY DEF TypeOK, ClaimType
  <2>2. QED
    BY <1>2, <2>1 DEF SealAndRelease
<1>3. ASSUME NEW r \in Runs, NEW n \in Nodes, Cancel(r, n) \/ Reclaim(r, n)
                \/ \E now \in Times, expires \in Expiries :
                      OpenResolveWork(r, n, now, expires)
      PROVE  \E s \in Runs, m \in Nodes, e \in Events : AppendEvent(s, m, e)
  <2>1. NodeCancelled \in Events
    BY DEF Events
  <2>2. ActiveOn(r, n) \subseteq claims
    BY DEF ActiveOn, Active
  <2>3. CASE Reclaim(r, n)
    BY <1>2, <2>2, <2>3 DEF Reclaim, Outcomes
  <2>4. QED
    BY <1>3, <2>1, <2>3 DEF Cancel, OpenResolveWork
<1>4. ASSUME NEW r \in Runs, NEW n \in Nodes, NEW now \in Times,
             ApplyRetryPolicy(r, n, now)
      PROVE  \E e \in Events : AppendEvent(r, n, e)
  <2>1. RetryAllowed \in Events /\ NodeCancelled \in Events
    BY DEF Events
  <2>2. QED
    BY <1>4, <2>1 DEF ApplyRetryPolicy
<1>5. ASSUME NEW p \in packets, NEW m \in Nodes, NEW d \in DecisionKinds,
             AdmitDecision(p, m, d), node' # node
      PROVE  \E r \in Runs, e \in Events : AppendEvent(r, m, e)
  <2>1. p.run \in Runs
    BY DEF TypeOK, PacketType
  <2>2. QED
    BY <1>5, <2>1 DEF AdmitDecision
<1>6. CASE UNCHANGED vars
  BY <1>6 DEF vars
<1>7. QED
  BY <1>1, <1>2, <1>3, <1>4, <1>5, <1>6
     DEF Next, CreateRun, Complete, AdmitReceipt, RevokeReceipt

(* What the node table becomes in any step.                                *)
LEMMA NodeTableType ==
    ASSUME TypeOK, FencesHaveTop, [Next]_vars
    PROVE  node' \in [Runs -> [Nodes -> NodeStateType]]
<1>1. node \in [Runs -> [Nodes -> NodeStateType]]
  BY DEF TypeOK
<1>2. QED
  BY <1>1, OneEventAtATime, AppendOne

(* Sealing writes an attempt row and releases its claim.                   *)
LEMMA SealWrites ==
    ASSUME TypeOK, NEW c \in claims, NEW o \in Outcomes,
           NEW how \in {"completed", "cancelled", "reclaimed"},
           SealAndRelease(c, o, how)
    PROVE  /\ attempts' \subseteq AttemptType
           /\ claims' = Release({c}, how)
           /\ claims' \subseteq ClaimType
<1>1. c \in ClaimType
  BY DEF TypeOK
<1>2. attempts' \subseteq AttemptType
  BY <1>1 DEF SealAndRelease, Pinned, AttemptType, ClaimType, TypeOK
<1>3. Release({c}, how) \subseteq ClaimType
  BY ReleaseMovesRows
<1>4. QED
  BY <1>2, <1>3 DEF SealAndRelease

(* The receipt a packet presents is one of the node's, or none.            *)
LEMMA LastReceiptType ==
    ASSUME TypeOK, ReceiptsHaveTop, NEW r \in Runs, NEW n \in Nodes
    PROVE  LastReceipt(r, n) \in Nat
<1>1. Numbers(r, n) \subseteq Nat
  BY DEF Numbers, TypeOK, ReceiptType
<1>2. CASE Numbers(r, n) = {}
  BY <1>2 DEF LastReceipt, Numbers, None
<1>3. CASE Numbers(r, n) # {}
  <2> DEFINE top == CHOOSE k \in Numbers(r, n) : \A j \in Numbers(r, n) : j <= k
  <2>1. top \in Numbers(r, n)
    BY <1>3 DEF ReceiptsHaveTop, HasTop
  <2>2. LastReceipt(r, n) = top
    BY <1>3 DEF LastReceipt, Numbers
  <2> HIDE DEF top
  <2>3. QED
    BY <1>1, <2>1, <2>2
<1>4. QED
  BY <1>2, <1>3

(* A node keeps a latest receipt: admitting is the one write to receipts.  *)
LEMMA NextReceiptsTop ==
    ASSUME TypeOK, ReceiptsHaveTop, [Next]_vars
    PROVE  ReceiptsHaveTop'
<1>1. CASE UNCHANGED receipts
  BY <1>1 DEF ReceiptsHaveTop, Numbers, HasTop
<1>2. ASSUME NEW r \in Runs, NEW n \in Nodes, NEW v \in Verdicts,
             NEW until \in Validities, NEW now \in Times,
             AdmitReceipt(r, n, node[r][n].current, v, until, now)
      PROVE  ReceiptsHaveTop'
  <2> DEFINE k == node[r][n].current
             new == [run |-> r, node |-> n, number |-> k,
                     verdict |-> v, until |-> until]
  <2>1. receipts' = receipts \cup {new}
    BY <1>2 DEF AdmitReceipt
  <2>2. k \in Nat
    BY DEF TypeOK, NodeStateType
  <2>3. ASSUME NEW s \in Runs, NEW m \in Nodes PROVE HasTop(Numbers(s, m)')
    <3>1. Numbers(s, m) \subseteq Nat /\ HasTop(Numbers(s, m))
      BY DEF Numbers, TypeOK, ReceiptType, ReceiptsHaveTop
    <3>2. Numbers(s, m)' = Numbers(s, m) \/ Numbers(s, m)' = Numbers(s, m) \cup {k}
      <4>1. CASE s = r /\ m = n
        BY <2>1, <4>1 DEF Numbers
      <4>2. CASE ~(s = r /\ m = n)
        BY <2>1, <4>2 DEF Numbers
      <4>3. QED
        BY <4>1, <4>2
    <3>3. QED
      BY <2>2, <3>1, <3>2, AddKeepsTop
  <2>4. QED
    BY <2>3 DEF ReceiptsHaveTop, HasTop
<1>3. QED
  BY <1>1, <1>2
     DEF Next, CreateRun, ClaimNext, Complete, Cancel, Reclaim, SealAndRelease,
         ApplyRetryPolicy, OpenResolveWork, AdmitDecision, RevokeReceipt, vars

(* The tables keep their types, and every run keeps a largest token.       *)
LEMMA NextType ==
    ASSUME TypeOK, FencesHaveTop, ReceiptsHaveTop, [Next]_vars
    PROVE  TypeOK' /\ FencesHaveTop'
<1>1. node' \in [Runs -> [Nodes -> NodeStateType]]
  BY NodeTableType
<1>2. ASSUME UNCHANGED claims PROVE FencesHaveTop'
  BY <1>2 DEF FencesHaveTop, Issued, HasTop
<1>3. CASE \E r \in Runs : CreateRun(r)
  BY <1>1, <1>2, <1>3 DEF CreateRun, TypeOK
<1>4. ASSUME NEW r \in Runs, NEW c \in Controllers, NEW now \in Times,
             ClaimNext(r, c, now)
      PROVE  TypeOK' /\ FencesHaveTop'
  <2>1. PICK row \in ClaimType : /\ row.run = r /\ row.fence = NextFence(r)
                                 /\ claims' = claims \cup {row}
    BY <1>4, ClaimNextWrites
  <2>2. TypeOK'
    BY <1>1, <1>4, <2>1 DEF ClaimNext, TypeOK
  <2>3. ASSUME NEW s \in Runs, s # r PROVE HasTop(Issued(s))'
    <3>1. Issued(s)' = Issued(s)
      BY <2>1, <2>3 DEF Issued
    <3>2. QED
      BY <3>1 DEF FencesHaveTop, HasTop
  <2>4. HasTop(Issued(r))'
    <3>1. \A g \in Issued(r)' : g = NextFence(r) \/ \E c2 \in claims : c2.run = r /\ c2.fence = g
      BY <2>1 DEF Issued
    <3>2. NextFence(r) \in Issued(r)'
      BY <2>1 DEF Issued
    <3>3. \A c2 \in claims : c2.fence \in Nat
      BY DEF TypeOK, ClaimType
    <3>4. \A g \in Issued(r)' : g <= NextFence(r)
      BY <3>1, <3>3, NextFenceIsLargest
    <3>5. QED
      BY <3>2, <3>4 DEF HasTop
  <2>5. QED
    BY <2>2, <2>3, <2>4 DEF FencesHaveTop
<1>5. ASSUME NEW c \in claims, NEW o \in Outcomes,
             NEW how \in {"completed", "reclaimed"}, SealAndRelease(c, o, how)
      PROVE  TypeOK' /\ FencesHaveTop'
  <2>1. FencesHaveTop'
    BY <1>5, SealWrites, ReleaseKeepsTokens
  <2>2. TypeOK'
    BY <1>1, <1>5, SealWrites DEF SealAndRelease, TypeOK
  <2>3. QED
    BY <2>1, <2>2
<1>6. CASE \E c \in claims, o \in Outcomes : Complete(c, o)
  BY <1>5, <1>6 DEF Complete
<1>7. ASSUME NEW r \in Runs, NEW n \in Nodes, Cancel(r, n)
      PROVE  TypeOK' /\ FencesHaveTop'
  <2>1. ActiveOn(r, n) \in SUBSET claims
    BY DEF ActiveOn, Active
  <2>2. claims' = Release(ActiveOn(r, n), "cancelled")
    BY <1>7 DEF Cancel
  <2>3. claims' \subseteq ClaimType
    BY <2>1, <2>2, ReleaseMovesRows
  <2>4. FencesHaveTop'
    BY <2>1, <2>2, ReleaseKeepsTokens
  <2>5. QED
    BY <1>1, <1>7, <2>3, <2>4 DEF Cancel, TypeOK
<1>8. CASE \E r \in Runs, n \in Nodes : Reclaim(r, n)
  <2>1. \A r \in Runs, n \in Nodes : ActiveOn(r, n) \subseteq claims
    BY DEF ActiveOn, Active
  <2>2. QED
    BY <1>5, <1>8, <2>1 DEF Reclaim, Outcomes
<1>9. ASSUME NEW r \in Runs, NEW n \in Nodes, NEW v \in Verdicts,
             NEW until \in Validities, NEW now \in Times,
             AdmitReceipt(r, n, node[r][n].current, v, until, now)
      PROVE  TypeOK' /\ FencesHaveTop'
  <2>1. [run |-> r, node |-> n, number |-> node[r][n].current] \in Refs
    BY <1>9, KeysAreRefs DEF AdmitReceipt, MayAdmit, Keys
  <2>2. until \in Nat
    BY CallerAssumption
  <2>3. [run |-> r, node |-> n, number |-> node[r][n].current,
         verdict |-> v, until |-> until] \in ReceiptType
    BY <2>1, <2>2 DEF Refs, ReceiptType
  <2>4. QED
    BY <1>1, <1>2, <1>9, <2>3 DEF AdmitReceipt, TypeOK
<1>10. CASE \E r \in Runs, n \in Nodes, now \in Times : ApplyRetryPolicy(r, n, now)
  BY <1>1, <1>2, <1>10 DEF ApplyRetryPolicy, TypeOK
<1>11. ASSUME NEW r \in Runs, NEW n \in Nodes,
             NEW now \in Times, NEW expires \in Expiries,
             OpenResolveWork(r, n, now, expires)
       PROVE  TypeOK' /\ FencesHaveTop'
  <2>1. [run |-> r, node |-> n, number |-> node[r][n].current] \in Refs
    BY <1>11, KeysAreRefs DEF OpenResolveWork, MayGate
  <2>2. LastReceipt(r, n) \in Nat
    BY <1>11, LastReceiptType DEF OpenResolveWork
  <2>3. [run |-> r, node |-> n, number |-> node[r][n].current,
         receipt |-> LastReceipt(r, n)] \in PacketType
    BY <2>1, <2>2 DEF Refs, PacketType
  <2>4. QED
    BY <1>1, <1>2, <1>11, <2>3 DEF OpenResolveWork, TypeOK
<1>12. ASSUME NEW p \in packets, NEW m \in Nodes, NEW d \in DecisionKinds,
              AdmitDecision(p, m, d)
       PROVE  TypeOK' /\ FencesHaveTop'
  <2>1. RefOf(p) \in Refs /\ p.run \in Runs
    BY KeysAreRefs DEF Keys, TypeOK, PacketType
  <2>2. broken' \subseteq Runs /\ decided' \subseteq Refs
    BY <1>12, <2>1 DEF AdmitDecision, TypeOK
  <2>3. UNCHANGED <<created, claims, attempts, receipts, packets, revoked>>
    BY <1>12 DEF AdmitDecision
  <2>4. QED
    BY <1>1, <1>2, <2>2, <2>3 DEF TypeOK
<1>13. CASE \E q \in receipts : RevokeReceipt(q)
  <2>1. \A q \in receipts : RefOf(q) \in Refs
    BY KeysAreRefs DEF Keys
  <2>2. QED
    BY <1>1, <1>2, <1>13, <2>1 DEF RevokeReceipt, TypeOK
<1>14. CASE UNCHANGED vars
  BY <1>1, <1>2, <1>14 DEF vars, TypeOK
<1>15. QED
  BY <1>3, <1>4, <1>6, <1>7, <1>8, <1>9, <1>10, <1>11, <1>12, <1>13, <1>14 DEF Next

(* The ledger's tables and node states hold what their types allow, in     *)
(* every reachable state.                                                  *)
THEOREM TypeCorrect == Spec => []TypeOK
<1> DEFINE Typed == TypeOK /\ FencesHaveTop /\ ReceiptsHaveTop
<1>1. Init => Typed
  BY InitType
<1>2. Typed /\ [Next]_vars => Typed'
  BY NextType, NextReceiptsTop
<1>3. Typed => TypeOK
  OBVIOUS
<1> HIDE DEF Typed
<1>4. QED
  BY <1>1, <1>2, <1>3, PTL DEF Spec

-----------------------------------------------------------------------------
(* Acceptance is final.                                                    *)

Typed == TypeOK /\ FencesHaveTop /\ ReceiptsHaveTop

LEMMA TypedHolds == Init => Typed
BY InitType DEF Typed

LEMMA TypedKept == Typed /\ [Next]_vars => Typed'
BY NextType, NextReceiptsTop DEF Typed

(* No transaction touches a node that has been accepted.                   *)
LEMMA AcceptedNodeStays ==
    ASSUME Typed, [Next]_vars, NEW r \in Runs, NEW n \in Nodes,
           node[r][n].status = "accepted"
    PROVE  node'[r][n] = node[r][n]
<1>1. TypeOK /\ FencesHaveTop
  BY DEF Typed
<1>2. ASSUME NEW e \in Events, AppendEvent(r, n, e) PROVE FALSE
  BY <1>1, <1>2, AppendOne, TerminalIsFinal DEF IsTerminal
<1>3. ASSUME NEW s \in Runs, NEW m \in Nodes, NEW e \in Events,
             AppendEvent(s, m, e), s # r \/ m # n
      PROVE  node'[r][n] = node[r][n]
  BY <1>1, <1>3, AppendOne
<1>4. QED
  BY <1>1, <1>2, <1>3, OneEventAtATime

LEMMA AcceptIsFinalKept ==
    ASSUME Typed, AcceptIsFinal, [Next]_vars
    PROVE  AcceptIsFinal'
<1>1. \A q \in receipts : q.run \in Runs /\ q.node \in Nodes
  BY DEF Typed, TypeOK, ReceiptType
<1>2. CASE UNCHANGED receipts
  BY <1>1, <1>2, AcceptedNodeStays DEF AcceptIsFinal
<1>3. ASSUME NEW r \in Runs, NEW n \in Nodes, NEW v \in Verdicts,
             NEW until \in Validities, NEW now \in Times,
             AdmitReceipt(r, n, node[r][n].current, v, until, now)
      PROVE  AcceptIsFinal'
  <2> DEFINE k == node[r][n].current
             new == [run |-> r, node |-> n, number |-> k,
                     verdict |-> v, until |-> until]
  <2>1. receipts' = receipts \cup {new}
    BY <1>3 DEF AdmitReceipt
  <2>2. ASSUME v = "accept"
        PROVE  node'[r][n].status = "accepted" /\ node'[r][n].receipt = k
    <3>1. Judged(k, v) \in Events /\ AppendEvent(r, n, Judged(k, v))
      BY <1>3, EventsOfTransactions DEF AdmitReceipt, Typed
    <3>2. /\ node[r][n] \in NodeStateType
          /\ node'[r][n] = AfterVerdict(node[r][n], k, "accept")
      BY <2>2, <3>1, AppendOne DEF Typed, Apply, Judged
    <3>3. QED
      BY <3>2 DEF AfterVerdict, NodeStateType
  <2>3. QED
    BY <1>1, <2>1, <2>2, AcceptedNodeStays DEF AcceptIsFinal
<1>4. QED
  BY <1>2, <1>3
     DEF Next, CreateRun, ClaimNext, Complete, Cancel, Reclaim, SealAndRelease,
         ApplyRetryPolicy, OpenResolveWork, AdmitDecision, RevokeReceipt, vars

(* Every accepting receipt in the table made its node accepted, and it     *)
(* stays accepted by that receipt: a late completion, a cancellation, a    *)
(* retry, a gate packet or a decision never undoes or replaces it.         *)
THEOREM AcceptanceFinal == Spec => []AcceptIsFinal
<1>1. Init => AcceptIsFinal
  BY DEF Init, AcceptIsFinal
<1>2. Typed /\ AcceptIsFinal /\ [Next]_vars => (Typed /\ AcceptIsFinal)'
  BY TypedKept, AcceptIsFinalKept
<1>3. QED
  BY <1>1, <1>2, TypedHolds, PTL DEF Spec

-----------------------------------------------------------------------------
(* Fencing.                                                                *)

(* The attempts handed out on a node are among those it started, which is  *)
(* why the next number is new and larger than all of them.                 *)
NumbersStarted == \A c \in claims : c.number <= node[c.run][c.node].started

(* The count of started attempts never goes down.                          *)
LEMMA StartedGrows ==
    ASSUME Typed, [Next]_vars, NEW r \in Runs, NEW n \in Nodes
    PROVE  /\ node[r][n].started \in Nat
           /\ node'[r][n].started \in Nat
           /\ node[r][n].started <= node'[r][n].started
<1>1. TypeOK /\ FencesHaveTop /\ TypeOK'
  BY TypedKept DEF Typed
<1>2. node[r][n].started \in Nat /\ node'[r][n].started \in Nat
  BY <1>1 DEF TypeOK, NodeStateType
<1>3. ASSUME NEW s \in Runs, NEW m \in Nodes, NEW e \in Events,
             AppendEvent(s, m, e)
      PROVE  node[r][n].started <= node'[r][n].started
  BY <1>1, <1>2, <1>3, AppendOne, OnlyDispatchStarts
<1>4. QED
  BY <1>1, <1>2, <1>3, OneEventAtATime

(* In every step each claim row descends from one of before with the same  *)
(* attempt and token, except the row a claim adds.                         *)
LEMMA ClaimRowsPersist ==
    ASSUME Typed, [Next]_vars
    PROVE  \/ \E rows \in SUBSET claims,
                 how \in {"completed", "cancelled", "reclaimed"} :
                claims' = Release(rows, how)
           \/ claims' = claims
           \/ \E r \in Runs, c \in Controllers, now \in Times : ClaimNext(r, c, now)
<1>1. \A r \in Runs, n \in Nodes : ActiveOn(r, n) \in SUBSET claims
  BY DEF ActiveOn, Active
<1>2. ASSUME NEW c \in claims, NEW o,
             NEW how \in {"completed", "reclaimed"}, SealAndRelease(c, o, how)
      PROVE  \E rows \in SUBSET claims : claims' = Release(rows, how)
  <2>1. {c} \in SUBSET claims
    OBVIOUS
  <2>2. QED
    BY <1>2, <2>1 DEF SealAndRelease
<1>3. QED
  BY <1>1, <1>2
     DEF Next, CreateRun, Complete, Cancel, Reclaim, AdmitReceipt,
         ApplyRetryPolicy, OpenResolveWork, AdmitDecision, RevokeReceipt, vars

FenceInv == NumbersStarted /\ FencesIncrease

LEMMA FenceInvKept ==
    ASSUME Typed, FenceInv, [Next]_vars
    PROVE  FenceInv'
<1>1. \A c \in claims : /\ c.run \in Runs /\ c.node \in Nodes
                        /\ c.number \in Nat /\ c.fence \in Nat
  BY DEF Typed, TypeOK, ClaimType
<1>2. ASSUME NEW rows \in SUBSET claims,
             NEW how \in {"completed", "cancelled", "reclaimed"},
             claims' = Release(rows, how)
      PROVE  FenceInv'
  <2>1. \A c \in claims' : \E d \in claims : c = Moved(d, rows, how)
    BY <1>2, ReleaseMovesRows DEF Typed
  <2>2. \A d \in claims : LET c == Moved(d, rows, how) IN
           /\ c.run = d.run /\ c.node = d.node
           /\ c.number = d.number /\ c.fence = d.fence
    BY ReleaseMovesRows DEF Typed
  <2>3. NumbersStarted'
    BY <1>1, <2>1, <2>2, StartedGrows DEF FenceInv, NumbersStarted
  <2>4. FencesIncrease'
    BY <2>1, <2>2 DEF FenceInv, FencesIncrease
  <2>5. QED
    BY <2>3, <2>4 DEF FenceInv
<1>3. CASE claims' = claims
  BY <1>1, <1>3, StartedGrows DEF FenceInv, NumbersStarted, FencesIncrease
<1>4. ASSUME NEW r \in Runs, NEW c \in Controllers, NEW now \in Times,
             ClaimNext(r, c, now)
      PROVE  FenceInv'
  <2>1. PICK n \in Nodes, row \in ClaimType :
           /\ AppendEvent(r, n, Dispatched(node[r][n].started + 1))
           /\ row.run = r /\ row.node = n
           /\ row.number = node[r][n].started + 1
           /\ row.fence = NextFence(r)
           /\ claims' = claims \cup {row}
    BY <1>4, ClaimNextWrites DEF Typed
  <2>2. node'[r][n].started = node[r][n].started + 1
    <3>1. Dispatched(node[r][n].started + 1) \in Events
      BY EventsOfTransactions DEF Typed
    <3>2. QED
      BY <2>1, <3>1, AppendOne, OnlyDispatchStarts DEF Typed, Dispatched
  <2>3. NumbersStarted'
    BY <1>1, <2>1, <2>2, StartedGrows DEF FenceInv, NumbersStarted
  <2>4. \A d \in claims : d.run = r => d.fence < row.fence
    BY <2>1, NextFenceIsLargest DEF Typed
  <2>5. \A d \in claims : d.run = r /\ d.node = n => d.number < row.number
    BY <1>1, <2>1, StartedGrows DEF FenceInv, NumbersStarted
  <2>6. row.fence \in Nat /\ row.number \in Nat
    BY DEF ClaimType
  <2>7. FencesIncrease'
    BY <1>1, <2>1, <2>4, <2>5, <2>6 DEF FenceInv, FencesIncrease
  <2>8. QED
    BY <2>3, <2>7 DEF FenceInv
<1>5. QED
  BY <1>2, <1>3, <1>4, ClaimRowsPersist

(* Tokens order the claims of a run: no two share one, and a later attempt *)
(* of a node carries a larger one than every earlier attempt.              *)
THEOREM TokensIncrease == Spec => []FencesIncrease
<1>1. Init => FenceInv
  BY DEF Init, FenceInv, NumbersStarted, FencesIncrease
<1>2. Typed /\ FenceInv /\ [Next]_vars => (Typed /\ FenceInv)'
  BY TypedKept, FenceInvKept
<1>3. FenceInv => FencesIncrease
  BY DEF FenceInv
<1>4. QED
  BY <1>1, <1>2, <1>3, TypedHolds, PTL DEF Spec

-----------------------------------------------------------------------------
(* The ledger implements NodeLifecycle.                                    *)

phaseMap == [r \in Runs |-> [n \in Nodes |-> PhaseOf(node[r][n])]]
triesMap == [r \in Runs |-> [n \in Nodes |-> node[r][n].started]]

(* Where one event takes the phase of a node.                              *)
PhaseStep(e, p, q) ==
    \/ e.kind = "attempt_dispatched" /\ p = "open" /\ q = "working"
    \/ /\ e.kind # "attempt_dispatched"
       /\ \/ p = "working" /\ q \in {"checking", "stopped"}
          \/ p = "checking" /\ q \in {"accepted", "stopped"}
          \/ p = "stopped" /\ q = "open"
          \/ /\ p \in {"open", "working", "checking", "stopped"}
             /\ q = "cancelled"
          \/ p = q

LEMMA PhaseMoves ==
    ASSUME NEW s \in NodeStateType, NEW e \in Events, Legal(s, e)
    PROVE  PhaseStep(e, PhaseOf(s), PhaseOf(Apply(s, e)))
<1> USE DEF NodeStateType, Statuses, PhaseOf, PhaseStep, Legal
<1>1. ASSUME NEW k \in Nat, e = Dispatched(k)
      PROVE  PhaseStep(e, PhaseOf(s), PhaseOf(AfterDispatch(s, k)))
  BY <1>1 DEF Dispatched, AfterDispatch
<1>2. ASSUME NEW k \in Nat, NEW o \in Outcomes, e = Finished(k, o)
      PROVE  PhaseStep(e, PhaseOf(s), PhaseOf(AfterExecution(s, o)))
  BY <1>2 DEF Finished, AfterExecution, Outcomes
<1>3. ASSUME NEW k \in Nat, NEW v \in Verdicts, e = Judged(k, v)
      PROVE  PhaseStep(e, PhaseOf(s), PhaseOf(AfterVerdict(s, k, v)))
  BY <1>3 DEF Judged, AfterVerdict, Verdicts
<1>4. ASSUME e = RetryAllowed
      PROVE  PhaseStep(e, PhaseOf(s), PhaseOf(AfterRetry(s)))
  BY <1>4 DEF RetryAllowed, AfterRetry
<1>5. ASSUME NEW p \in Nat, e = GateOpened(p)
      PROVE  PhaseStep(e, PhaseOf(s), PhaseOf(AfterGate(s, p)))
  BY <1>5 DEF GateOpened, AfterGate
<1>6. ASSUME NEW p \in Nat, NEW d \in Decisions, e = Decided(p, d)
      PROVE  PhaseStep(e, PhaseOf(s), PhaseOf(AfterDecision(s, d)))
  BY <1>6 DEF Decided, AfterDecision
<1>7. ASSUME e = NodeCancelled
      PROVE  PhaseStep(e, PhaseOf(s), PhaseOf(AfterCancel(s)))
  BY <1>7 DEF NodeCancelled, AfterCancel, IsTerminal
<1> HIDE DEF NodeStateType, Statuses, PhaseOf, PhaseStep, Legal
<1>8. QED
  BY <1>1, <1>2, <1>3, <1>4, <1>5, <1>6, <1>7, ApplyByKind

(* Two tables that agree everywhere but at one node differ by one EXCEPT.  *)
LEMMA OneCell ==
    ASSUME NEW V, NEW f \in [Runs -> [Nodes -> V]], NEW g \in [Runs -> [Nodes -> V]],
           NEW r \in Runs, NEW n \in Nodes, NEW x, x = g[r][n],
           \A s \in Runs, m \in Nodes : s # r \/ m # n => g[s][m] = f[s][m]
    PROVE  g = [f EXCEPT ![r][n] = x]
<1>1. g[r] = [f[r] EXCEPT ![n] = x]
  <2>1. f[r] \in [Nodes -> V] /\ g[r] \in [Nodes -> V]
    OBVIOUS
  <2>2. \A m \in Nodes : m # n => g[r][m] = f[r][m]
    OBVIOUS
  <2>3. QED
    BY <2>1, <2>2
<1>2. \A s \in Runs : s # r => g[s] = f[s]
  <2>1. ASSUME NEW s \in Runs, s # r PROVE g[s] = f[s]
    <3>1. f[s] \in [Nodes -> V] /\ g[s] \in [Nodes -> V]
      OBVIOUS
    <3>2. \A m \in Nodes : g[s][m] = f[s][m]
      BY <2>1
    <3>3. QED
      BY <3>1, <3>2
  <2>2. QED
    BY <2>1
<1>3. g = [f EXCEPT ![r] = g[r]]
  BY <1>2
<1>4. QED
  BY <1>1, <1>3

(* The event of a transaction moves the abstract variables at one node.    *)
LEMMA MapsMove ==
    ASSUME Typed, NEW r \in Runs, NEW n \in Nodes, NEW e \in Events,
           AppendEvent(r, n, e)
    PROVE  /\ PhaseStep(e, phaseMap[r][n], phaseMap'[r][n])
           /\ phaseMap' = [phaseMap EXCEPT ![r][n] = phaseMap'[r][n]]
           /\ IF e.kind = "attempt_dispatched"
              THEN triesMap' = [triesMap EXCEPT ![r][n] = triesMap[r][n] + 1]
              ELSE triesMap' = triesMap
<1>1. /\ node[r][n] \in NodeStateType
      /\ Legal(node[r][n], e)
      /\ node'[r][n] = Apply(node[r][n], e)
      /\ \A s \in Runs, m \in Nodes :
            s # r \/ m # n => node'[s][m] = node[s][m]
  BY AppendOne DEF Typed
<1>2. /\ phaseMap[r][n] = PhaseOf(node[r][n])
      /\ phaseMap'[r][n] = PhaseOf(Apply(node[r][n], e))
  BY <1>1 DEF phaseMap
<1>3. PhaseStep(e, phaseMap[r][n], phaseMap'[r][n])
  BY <1>1, <1>2, PhaseMoves
<1>4. phaseMap' = [phaseMap EXCEPT ![r][n] = phaseMap'[r][n]]
  <2>1. /\ phaseMap \in [Runs -> [Nodes -> {PhaseOf(t) : t \in NodeStateType}]]
        /\ phaseMap' \in [Runs -> [Nodes -> {PhaseOf(t) : t \in NodeStateType}]]
    BY AppendOne DEF phaseMap, Typed, TypeOK
  <2>2. \A s \in Runs, m \in Nodes :
           s # r \/ m # n => phaseMap'[s][m] = phaseMap[s][m]
    BY <1>1 DEF phaseMap
  <2>3. QED
    BY <2>1, <2>2, OneCell
<1>5. CASE e.kind = "attempt_dispatched"
  <2>1. node'[r][n].started = node[r][n].started + 1
    BY <1>1, <1>5, OnlyDispatchStarts
  <2>2. triesMap \in [Runs -> [Nodes -> Nat]] /\ triesMap' \in [Runs -> [Nodes -> Nat]]
    BY AppendOne DEF triesMap, Typed, TypeOK, NodeStateType
  <2>3. /\ triesMap'[r][n] = triesMap[r][n] + 1
        /\ \A s \in Runs, m \in Nodes :
              s # r \/ m # n => triesMap'[s][m] = triesMap[s][m]
    BY <1>1, <2>1 DEF triesMap
  <2>4. triesMap' = [triesMap EXCEPT ![r][n] = triesMap[r][n] + 1]
    BY <2>2, <2>3, OneCell
  <2>5. QED
    BY <1>3, <1>4, <1>5, <2>4
<1>6. CASE e.kind # "attempt_dispatched"
  <2>1. node'[r][n].started = node[r][n].started
    BY <1>1, <1>6, OnlyDispatchStarts DEF Dispatched
  <2>2. triesMap' = triesMap
    BY <1>1, <2>1 DEF triesMap
  <2>3. QED
    BY <1>3, <1>4, <1>6, <2>2
<1>7. QED
  BY <1>5, <1>6

(* Work starts over dependencies some run accepted: the accepting receipt  *)
(* a claim pins is final.                                                  *)
LEMMA DispatchIsEstablished ==
    ASSUME Typed, AcceptIsFinal, NEW r \in Runs, NEW n \in Nodes,
           NEW now \in Times, Ready(r, n, now)
    PROVE  \A d \in Deps[n] : \E s \in Runs : phaseMap[s][d] = "accepted"
<1> SUFFICES ASSUME NEW d \in Deps[n]
             PROVE  \E s \in Runs : phaseMap[s][d] = "accepted"
  OBVIOUS
<1>1. PICK q \in receipts : q.node = d /\ q.verdict = "accept"
  BY SnapshotIsAccepted DEF Typed
<1>2. q.run \in Runs /\ d \in Nodes
  BY <1>1 DEF Typed, TypeOK, ReceiptType
<1>3. node[q.run][d].status = "accepted"
  BY <1>1 DEF AcceptIsFinal
<1>4. phaseMap[q.run][d] = "accepted"
  BY <1>2, <1>3 DEF phaseMap, PhaseOf
<1>5. QED
  BY <1>2, <1>4

(* Only claim_next dispatches.                                             *)
LEMMA NextEvent ==
    ASSUME Typed, [Next]_vars
    PROVE  \/ node' = node
           \/ \E r \in Runs, n \in Nodes, e \in Events :
                 /\ AppendEvent(r, n, e)
                 /\ e.kind = "attempt_dispatched" =>
                       \E now \in Times : Ready(r, n, now)
<1> USE EventsOfTransactions DEF Typed
<1>1. ASSUME NEW r \in Runs, NEW c \in Controllers, NEW now \in Times,
             ClaimNext(r, c, now)
      PROVE  \E n \in Nodes, e \in Events :
                AppendEvent(r, n, e) /\ Ready(r, n, now)
  BY <1>1, ClaimNextWrites
<1>2. ASSUME NEW c \in claims, NEW o \in Outcomes, NEW how, SealAndRelease(c, o, how)
      PROVE  \E r \in Runs, n \in Nodes, e \in Events :
                AppendEvent(r, n, e) /\ e.kind # "attempt_dispatched"
  <2>1. c.run \in Runs /\ c.node \in Nodes
    BY DEF TypeOK, ClaimType
  <2>2. Finished(c.number, o).kind # "attempt_dispatched"
    BY DEF Finished
  <2>3. QED
    BY <1>2, <2>1, <2>2 DEF SealAndRelease
<1>3. ASSUME NEW r \in Runs, NEW n \in Nodes,
             \/ Cancel(r, n)
             \/ \E now \in Times, expires \in Expiries :
                   OpenResolveWork(r, n, now, expires)
      PROVE  \E e \in Events : AppendEvent(r, n, e) /\ e.kind # "attempt_dispatched"
  <2>1. NodeCancelled \in Events /\ NodeCancelled.kind # "attempt_dispatched"
    BY DEF Events, NodeCancelled
  <2>2. GateOpened(node[r][n].current).kind # "attempt_dispatched"
    BY DEF GateOpened
  <2>3. QED
    BY <1>3, <2>1, <2>2 DEF Cancel, OpenResolveWork
<1>4. ASSUME NEW r \in Runs, NEW n \in Nodes, Reclaim(r, n)
      PROVE  \E s \in Runs, m \in Nodes, e \in Events :
                AppendEvent(s, m, e) /\ e.kind # "attempt_dispatched"
  <2>1. ActiveOn(r, n) \subseteq claims
    BY DEF ActiveOn, Active
  <2>2. QED
    BY <1>2, <1>4, <2>1 DEF Reclaim, Outcomes
<1>5. ASSUME NEW r \in Runs, NEW n \in Nodes, NEW v \in Verdicts, NEW until,
             NEW now, AdmitReceipt(r, n, node[r][n].current, v, until, now)
      PROVE  \E e \in Events : AppendEvent(r, n, e) /\ e.kind # "attempt_dispatched"
  <2>1. Judged(node[r][n].current, v).kind # "attempt_dispatched"
    BY DEF Judged
  <2>2. QED
    BY <1>5, <2>1 DEF AdmitReceipt
<1>6. ASSUME NEW r \in Runs, NEW n \in Nodes, NEW now \in Times,
             ApplyRetryPolicy(r, n, now)
      PROVE  \E e \in Events : AppendEvent(r, n, e) /\ e.kind # "attempt_dispatched"
  <2>1. /\ RetryAllowed \in Events /\ NodeCancelled \in Events
        /\ RetryAllowed.kind # "attempt_dispatched"
        /\ NodeCancelled.kind # "attempt_dispatched"
    BY DEF Events, RetryAllowed, NodeCancelled
  <2>2. QED
    BY <1>6, <2>1 DEF ApplyRetryPolicy
<1>7. ASSUME NEW p \in packets, NEW m \in Nodes, NEW d \in DecisionKinds,
             AdmitDecision(p, m, d), node' # node
      PROVE  \E r \in Runs, e \in Events :
                AppendEvent(r, m, e) /\ e.kind # "attempt_dispatched"
  <2>1. p.run \in Runs /\ Decided(p.number, d).kind # "attempt_dispatched"
    BY DEF TypeOK, PacketType, Decided
  <2>2. QED
    BY <1>7, <2>1 DEF AdmitDecision
<1>8. CASE UNCHANGED vars
  BY <1>8 DEF vars
<1>9. QED
  BY <1>1, <1>2, <1>3, <1>4, <1>5, <1>6, <1>7, <1>8
     DEF Next, CreateRun, Complete, RevokeReceipt

(* Every transaction is a step of the lifecycle or leaves it alone.        *)
LEMMA LifecycleStep ==
    ASSUME Typed, AcceptIsFinal, [Next]_vars
    PROVE  [Lifecycle!Next]_(Lifecycle!vars)
<1>1. CASE node' = node
  BY <1>1 DEF Lifecycle!vars
<1>2. ASSUME NEW r \in Runs, NEW n \in Nodes, NEW e \in Events,
             AppendEvent(r, n, e),
             e.kind = "attempt_dispatched" => \E now \in Times : Ready(r, n, now)
      PROVE  Lifecycle!Next \/ UNCHANGED Lifecycle!vars
  <2>1. /\ PhaseStep(e, phaseMap[r][n], phaseMap'[r][n])
        /\ phaseMap' = [phaseMap EXCEPT ![r][n] = phaseMap'[r][n]]
        /\ IF e.kind = "attempt_dispatched"
           THEN triesMap' = [triesMap EXCEPT ![r][n] = triesMap[r][n] + 1]
           ELSE triesMap' = triesMap
    BY <1>2, MapsMove
  <2>2. CASE e.kind = "attempt_dispatched"
    <3>1. \A d \in Deps[n] : \E s \in Runs : phaseMap[s][d] = "accepted"
      BY <1>2, <2>2, DispatchIsEstablished
    <3>2. Lifecycle!Start(r, n)
      BY <2>1, <2>2, <3>1
         DEF Lifecycle!Start, Lifecycle!Move, Lifecycle!Established,
             PhaseStep, phaseMap, triesMap
    <3>3. QED
      BY <3>2 DEF Lifecycle!Next
  <2>3. CASE e.kind # "attempt_dispatched"
    <3>1. \/ Lifecycle!Finish(r, n)
          \/ Lifecycle!Judge(r, n)
          \/ Lifecycle!Reopen(r, n)
          \/ Lifecycle!Abandon(r, n)
          \/ phaseMap' = phaseMap /\ triesMap' = triesMap
      <4> DEFINE p == phaseMap[r][n]
                 q == phaseMap'[r][n]
      <4>1. phaseMap' = [phaseMap EXCEPT ![r][n] = q] /\ triesMap' = triesMap
        BY <2>1, <2>3
      <4>2. CASE p = "working" /\ q \in {"checking", "stopped"}
        BY <4>1, <4>2 DEF Lifecycle!Finish, Lifecycle!Move, phaseMap, triesMap
      <4>3. CASE p = "checking" /\ q \in {"accepted", "stopped"}
        BY <4>1, <4>3 DEF Lifecycle!Judge, Lifecycle!Move, phaseMap, triesMap
      <4>4. CASE p = "stopped" /\ q = "open"
        BY <4>1, <4>4 DEF Lifecycle!Reopen, Lifecycle!Move, phaseMap, triesMap
      <4>5. CASE p \in {"open", "working", "checking", "stopped"} /\ q = "cancelled"
        BY <4>1, <4>5
           DEF Lifecycle!Abandon, Lifecycle!Move, Lifecycle!Phases, phaseMap, triesMap
      <4>6. CASE p = q
        <5>1. phaseMap = [s \in Runs |-> [m \in Nodes |-> phaseMap[s][m]]]
          BY DEF phaseMap
        <5>2. [phaseMap EXCEPT ![r][n] = phaseMap[r][n]] = phaseMap
          BY <5>1
        <5>3. QED
          BY <4>1, <4>6, <5>2
      <4>7. QED
        BY <2>1, <2>3, <4>2, <4>3, <4>4, <4>5, <4>6 DEF PhaseStep
    <3>2. QED
      BY <3>1 DEF Lifecycle!Next, Lifecycle!vars, phaseMap, triesMap
  <2>4. QED
    BY <2>2, <2>3
<1>3. QED
  BY <1>1, <1>2, NextEvent

LEMMA LifecycleInit == Init => Lifecycle!Init
BY DEF Init, Lifecycle!Init, OpenState, PhaseOf

(* The ledger implements the lifecycle: the detailed transactions, with    *)
(* their tables, tokens, budgets and gates, never do to a node what the    *)
(* lifecycle does not allow.                                               *)
THEOREM LedgerImplementsLifecycle == Spec => ImplementsLifecycle
<1>1. Init => Lifecycle!Init
  BY LifecycleInit
<1>2. Init => Typed /\ AcceptIsFinal
  BY TypedHolds DEF Init, AcceptIsFinal
<1>3. Typed /\ AcceptIsFinal /\ [Next]_vars => (Typed /\ AcceptIsFinal)'
  BY TypedKept, AcceptIsFinalKept
<1>4. Typed /\ AcceptIsFinal /\ [Next]_vars => [Lifecycle!Next]_(Lifecycle!vars)
  BY LifecycleStep
<1>5. QED
  BY <1>1, <1>2, <1>3, <1>4, PTL DEF Spec, ImplementsLifecycle, Lifecycle!Spec
=============================================================================
