------------------------------- MODULE Ledger -------------------------------
(***************************************************************************)
(* The durable ledger of Checkspan and the transactions that move a run:   *)
(* one action per SQLite transaction (BEGIN IMMEDIATE ... COMMIT) of       *)
(* src/src/store, scheduler, budget, receipts and gates.  A transaction    *)
(* that refuses writes nothing, so a refusal is an action that is not      *)
(* enabled.                                                                *)
(*                                                                         *)
(* A run's event log is represented by its fold: `node` is what            *)
(* RunState::replay returns, and a run enters `broken` when an event is    *)
(* appended that the reducer refuses, after which every replay of that run *)
(* fails.  Digests, types and policies are abstracted to the identity of   *)
(* the attempt they describe.                                              *)
(*                                                                         *)
(* A few operators come with a faulty twin just before them (OneOverBudget,*)
(* ReleaseNothing, ...): the mistake a change to that code could make, used *)
(* only to see that a property notices it.                                 *)
(***************************************************************************)
EXTENDS NodeState, Naturals, FiniteSets

CONSTANTS
    Runs,           \* run identities
    NoRun,          \* the absent budget lineage
    Nodes,          \* nodes of the admitted graph
    Rank,           \* position of a node in the admitted dependency order
    Deps,           \* declared dependencies of a node
    Resources,      \* names of declared resources
    Exclusive,      \* resources a node needs for itself
    Shared,         \* resources a node can share
    MaxAttempts,    \* retry_policy.max_attempts
    RetryClasses,   \* retry_policy.allowed_failure_classes
    OnExhaustion,   \* retry_policy.on_exhaustion
    TotalAttempts,  \* budget.total_attempts
    Deadline,       \* budget.deadline (Forever when there is none)
    Lineage,        \* budget_lineage_ref of a run
    Imports,        \* admitted_imports of a run
    Controllers,    \* controller identities
    MaxActive,      \* with_max_active of each controller
    Times,          \* the moments a caller's clock can show
    Forever,        \* no expiry
    Validities,     \* the valid_until values issued receipts carry
    Expiries,       \* the expires_at values callers give gate packets
    DecisionKinds   \* the decisions operators submit

FailureClasses == {"rejected", "timeout", "infrastructure"}
Refs == [run : Runs, node : Nodes, number : Nat \ {0}]
ImportType == [node : Nodes, receipt : Refs, until : Nat]

ASSUME GraphAssumption ==
    /\ NoRun \notin Runs
    /\ Rank \in [Nodes -> Nat]
    /\ \A m, n \in Nodes : Rank[m] = Rank[n] => m = n
    /\ Deps \in [Nodes -> SUBSET Nodes]
    /\ \A n \in Nodes : \A d \in Deps[n] : Rank[d] < Rank[n]
    /\ Exclusive \in [Nodes -> SUBSET Resources]
    /\ Shared \in [Nodes -> SUBSET Resources]
    /\ MaxAttempts \in [Nodes -> Nat \ {0}]
    /\ RetryClasses \in [Nodes -> SUBSET FailureClasses]
    /\ OnExhaustion \in [Nodes -> {"cancel", "gate"}]
    /\ TotalAttempts \in Nat \ {0}

(* GraphRun::check_bindings: no run is its own lineage or imports from itself,
   and a node has one import. *)
ASSUME RunAssumption ==
    /\ IsFiniteSet(Runs)
    /\ Lineage \in [Runs -> Runs \cup {NoRun}]
    /\ \A r \in Runs : Lineage[r] # r
    /\ Imports \in [Runs -> SUBSET ImportType]
    /\ \A r \in Runs : \A i, j \in Imports[r] :
          i.receipt.run # r /\ (i.node = j.node => i = j)

ASSUME CallerAssumption ==
    /\ MaxActive \in [Controllers -> Nat \ {0}]
    /\ Times \subseteq Nat
    /\ Forever \in Nat /\ Deadline \in Nat
    /\ \A t \in Times : t < Forever
    /\ Validities \subseteq Nat /\ Expiries \subseteq Nat
    /\ DecisionKinds \subseteq Decisions

VARIABLES
    created,   \* runs table
    node,      \* the fold of each run's event log
    claims,    \* claims table: a row is released once, never deleted
    attempts,  \* sealed attempts
    receipts,  \* admitted receipts
    packets,   \* gate packets
    decided,   \* packets with a recorded decision
    revoked,   \* receipts a receipt_revoked event names
    broken     \* runs whose log no longer replays

vars == <<created, node, claims, attempts, receipts, packets, decided,
          revoked, broken>>

ClaimType ==
    [run : Runs, node : Nodes, number : Nat \ {0}, owner : Controllers,
     fence : Nat \ {0}, deps : SUBSET Refs,
     release : {"held", "completed", "cancelled", "reclaimed"}]
AttemptType ==
    [run : Runs, node : Nodes, number : Nat \ {0}, outcome : Outcomes,
     deps : SUBSET Refs]
ReceiptType ==
    [run : Runs, node : Nodes, number : Nat \ {0}, verdict : Verdicts,
     until : Nat]
PacketType ==
    [run : Runs, node : Nodes, number : Nat \ {0}, receipt : Nat]

RefOf(row) == [run |-> row.run, node |-> row.node, number |-> row.number]
Keys(table) == {RefOf(row) : row \in table}

Init ==
    /\ created = {}
    /\ node = [r \in Runs |-> [n \in Nodes |-> OpenState]]
    /\ claims = {}
    /\ attempts = {}
    /\ receipts = {}
    /\ packets = {}
    /\ decided = {}
    /\ revoked = {}
    /\ broken = {}

(* RunState::replay of a stored run succeeds. *)
Replays(r) == r \in created /\ r \notin broken

(* Append event e about node n of run r, which the reducer must take. *)
AppendEvent(r, n, e) ==
    /\ Legal(node[r][n], e)
    /\ node' = [node EXCEPT ![r][n] = Apply(node[r][n], e)]

-----------------------------------------------------------------------------
(* Budget (src/src/budget/mod.rs).                                         *)

(* Each dispatch inserts one claim row with its attempt_dispatched event.  *)
DispatchCount(r) == Cardinality({c \in claims : c.run = r})

(* The run k hops of budget_lineage_ref away from each run.                *)
Hop[k \in Nat] ==
    [r \in Runs |-> IF k = 0 THEN r
                    ELSE IF Hop[k-1][r] = NoRun THEN NoRun
                    ELSE Lineage[Hop[k-1][r]]]

Ancestors(r) == {Hop[k][r] : k \in 1..Cardinality(Runs)} \ {NoRun}

(* budget_status returns a status: no loop, and no ancestor is unknown.    *)
LineageKnown(r) ==
    /\ Hop[Cardinality(Runs)][r] = NoRun
    /\ Ancestors(r) \subseteq created

Consumed(r) == Cardinality({c \in claims : c.run \in {r} \cup Ancestors(r)})

OneOverBudget(r, now) == now >= Deadline \/ Consumed(r) > TotalAttempts

BudgetExhausted(r, now) == now >= Deadline \/ Consumed(r) >= TotalAttempts

FailureClass(r, n) ==
    CASE node[r][n].status = "rejected" -> "rejected"
      [] node[r][n].status = "failed" ->
           IF [run |-> r, node |-> n, number |-> node[r][n].current]
                \in Keys({a \in attempts : a.outcome = "timed_out"})
           THEN "timeout" ELSE "infrastructure"

OneRetryTooMany(r, n) ==
    /\ FailureClass(r, n) \in RetryClasses[n]
    /\ node[r][n].started <= MaxAttempts[n]

(* disposition: a retry is allowed, or the work is exhausted.              *)
NodeMayRetry(r, n) ==
    /\ FailureClass(r, n) \in RetryClasses[n]
    /\ node[r][n].started < MaxAttempts[n]

RetryPermitted(r, n, now) ==
    NodeMayRetry(r, n) /\ LineageKnown(r) /\ ~BudgetExhausted(r, now)

Exhausted(r, n, now) ==
    \/ ~NodeMayRetry(r, n)
    \/ LineageKnown(r) /\ BudgetExhausted(r, now)

-----------------------------------------------------------------------------
(* Dependencies (src/src/deps/mod.rs).                                     *)

ReceiptAt(ref) == {q \in receipts : RefOf(q) = ref}

AnyVerdictAdmissible(ref, d, now) ==
    /\ ref.node = d
    /\ \E q \in ReceiptAt(ref) : now < q.until
    /\ ref \in Keys({a \in attempts : a.outcome = "completed"})
    /\ ref \notin revoked

(* A receipt new work about node d may rest on at `now`.                   *)
Admissible(ref, d, now) ==
    /\ ref.node = d
    /\ \E q \in ReceiptAt(ref) : q.verdict = "accept" /\ now < q.until
    /\ ref \in Keys({a \in attempts : a.outcome = "completed"})
    /\ ref \notin revoked

(* The receipt a dependency resolves to: this run's acceptance, else an    *)
(* import.                                                                 *)
AcceptedHere(r, d) == node[r][d].status = "accepted"

ImportsFor(r, d) == {i \in Imports[r] : i.node = d}

Source(r, d) ==
    IF AcceptedHere(r, d)
    THEN [run |-> r, node |-> d, number |-> node[r][d].receipt]
    ELSE (CHOOSE i \in ImportsFor(r, d) : TRUE).receipt

Resolves(r, d, now) ==
    /\ AcceptedHere(r, d) \/ \E i \in ImportsFor(r, d) : now < i.until
    /\ Admissible(Source(r, d), d, now)

Snapshot(r, n) == {Source(r, d) : d \in Deps[n]}

RecheckUnexpiring(n, pins, now) ==
    /\ \A d \in Deps[n] : \E p \in pins :
          p.node = d /\ p \notin revoked /\ ReceiptAt(p) # {}
    /\ \A p \in pins : p.node \in Deps[n]

(* recheck_refs: one admissible pin per dependency, and no other pin.      *)
Recheck(n, pins, now) ==
    /\ \A d \in Deps[n] : \E p \in pins : Admissible(p, d, now)
    /\ \A p \in pins : p.node \in Deps[n]

-----------------------------------------------------------------------------
(* Claims (src/src/scheduler/mod.rs).                                      *)

Active == {c \in claims : c.release = "held"}

(* The active claims on one node.                                          *)
ActiveOn(r, n) == {c \in Active : c.run = r /\ c.node = n}

ConflictOneSided(m, n) == Exclusive[m] \cap (Exclusive[n] \cup Shared[n]) # {}

(* Two nodes cannot both be worked on: one of them needs a resource of the *)
(* other for itself.                                                       *)
Conflict(m, n) ==
    \/ Exclusive[m] \cap (Exclusive[n] \cup Shared[n]) # {}
    \/ Shared[m] \cap Exclusive[n] # {}

Ready(r, n, now) ==
    /\ node[r][n].status = "open"
    /\ \A d \in Deps[n] : Resolves(r, d, now)
    /\ \A c \in Active : ~Conflict(n, c.node)

IsNextReady(r, n, now) ==
    /\ Ready(r, n, now)
    /\ \A m \in Nodes : Rank[m] < Rank[n] => ~Ready(r, m, now)

OneOverCap(c) == Cardinality(Active) > MaxActive[c]

AtCap(c) == Cardinality(Active) >= MaxActive[c]

FenceAfterActive(r) ==
    LET issued == {c.fence : c \in {x \in Active : x.run = r}} IN
    IF issued = {} THEN 1
    ELSE 1 + (CHOOSE f \in issued : \A g \in issued : g <= f)

FenceFromZero(r) == Cardinality({x \in claims : x.run = r})

NextFence(r) ==
    LET issued == {c.fence : c \in {x \in claims : x.run = r}} IN
    IF issued = {} THEN 1
    ELSE 1 + (CHOOSE f \in issued : \A g \in issued : g <= f)

ReleaseNothing(rows, how) == claims

Release(rows, how) ==
    (claims \ rows) \cup {[c EXCEPT !.release = how] : c \in rows}

-----------------------------------------------------------------------------
(* Transactions.                                                           *)

(* Store::create_run                                                       *)
CreateRun(r) ==
    /\ r \notin created
    /\ created' = created \cup {r}
    /\ UNCHANGED <<node, claims, attempts, receipts, packets, decided,
                   revoked, broken>>

(* claim_next finds room and ready work.                                   *)
MayClaim(r, c, now) ==
    /\ Replays(r)
    /\ LineageKnown(r)
    /\ ~BudgetExhausted(r, now)
    /\ ~AtCap(c)
    /\ \E n \in Nodes : Ready(r, n, now)

(* Scheduler::claim_next returning ClaimOutcome::Claimed                   *)
ClaimNext(r, c, now) ==
    /\ MayClaim(r, c, now)
    /\ \E n \in Nodes :
         LET k == node[r][n].started + 1 IN
         /\ IsNextReady(r, n, now)
         /\ [run |-> r, node |-> n, number |-> k] \notin Keys(claims)
         /\ AppendEvent(r, n, Dispatched(k))
         /\ claims' = claims \cup
              {[run |-> r, node |-> n, number |-> k, owner |-> c,
                fence |-> NextFence(r), deps |-> Snapshot(r, n),
                release |-> "held"]}
    /\ UNCHANGED <<created, attempts, receipts, packets, decided, revoked,
                   broken>>

(* held_claim: the handle's row is still active under its token.           *)
Held(c) == c.release = "held"

PinnedAtCompletion(c) == Snapshot(c.run, c.node)

(* The dependency receipts an attempt may be sealed with.                  *)
Pinned(c) == c.deps

(* Seal the finished attempt of claim c with outcome o and release it.     *)
SealAndRelease(c, o, how) ==
    /\ RefOf(c) \notin Keys(attempts)
    /\ AppendEvent(c.run, c.node, Finished(c.number, o))
    /\ attempts' = attempts \cup
         {[run |-> c.run, node |-> c.node, number |-> c.number,
           outcome |-> o, deps |-> Pinned(c)]}
    /\ claims' = Release({c}, how)
    /\ UNCHANGED <<created, receipts, packets, decided, revoked, broken>>

(* Scheduler::complete, called with the claim a controller was handed,     *)
(* however long ago.                                                       *)
Complete(c, o) ==
    /\ Held(c)
    /\ Replays(c.run)
    /\ SealAndRelease(c, o, "completed")

(* Scheduler::cancel                                                       *)
Cancel(r, n) ==
    /\ Replays(r)
    /\ AppendEvent(r, n, NodeCancelled)
    /\ claims' = Release(ActiveOn(r, n), "cancelled")
    /\ UNCHANGED <<created, attempts, receipts, packets, decided, revoked,
                   broken>>

(* Scheduler::reclaim, by any controller                                   *)
Reclaim(r, n) ==
    \E c \in ActiveOn(r, n) :
        /\ Replays(r)
        /\ SealAndRelease(c, "failed", "reclaimed")

(* receipts::admit takes verdict v on attempt k of node n.                 *)
MayAdmit(r, n, k, v, until, now) ==
    LET ref == [run |-> r, node |-> n, number |-> k] IN
    /\ now <= until
    /\ ref \notin Keys(receipts)
    /\ Replays(r)
    /\ node[r][n].checking /\ node[r][n].current = k
    /\ \E a \in attempts :
         /\ RefOf(a) = ref
         /\ a.outcome = "completed"
         /\ v = "accept" => Recheck(n, a.deps, now)

AdmitReceipt(r, n, k, v, until, now) ==
    /\ MayAdmit(r, n, k, v, until, now)
    /\ AppendEvent(r, n, Judged(k, v))
    /\ receipts' = receipts \cup
         {[run |-> r, node |-> n, number |-> k, verdict |-> v,
           until |-> until]}
    /\ UNCHANGED <<created, claims, attempts, packets, decided, revoked,
                   broken>>

(* budget::apply_retry_policy when it writes: a permitted retry reopens    *)
(* the node, exhausted work routed to cancel ends it.  Exhausted work      *)
(* routed to the gate is left as it is.                                    *)
ApplyRetryPolicy(r, n, now) ==
    /\ Replays(r)
    /\ node[r][n].status \in {"rejected", "failed"}
    /\ \/ /\ RetryPermitted(r, n, now)
          /\ AppendEvent(r, n, RetryAllowed)
       \/ /\ Exhausted(r, n, now)
          /\ OnExhaustion[n] = "cancel"
          /\ AppendEvent(r, n, NodeCancelled)
    /\ UNCHANGED <<created, claims, attempts, receipts, packets, decided,
                   revoked, broken>>

(* The receipt of the node's most recent receipt_admitted event, which is  *)
(* the one with the highest attempt number.                                *)
LastReceipt(r, n) ==
    LET numbers == {q.number : q \in {x \in receipts : x.run = r /\ x.node = n}}
    IN  IF numbers = {} THEN None
        ELSE CHOOSE k \in numbers : \A j \in numbers : j <= k

(* gates::open_resolve_work has an attempt to present and no packet on it, *)
(* and the packet would not expire before it exists.                       *)
MayGate(r, n, now, expires) ==
    LET k == node[r][n].current
        ref == [run |-> r, node |-> n, number |-> k] IN
    /\ now < expires
    /\ Replays(r)
    /\ k # None
    /\ ref \in Keys(attempts)
    /\ ref \notin Keys(packets)
    /\ Legal(node[r][n], GateOpened(k))

OpenResolveWork(r, n, now, expires) ==
    LET k == node[r][n].current IN
    /\ MayGate(r, n, now, expires)
    /\ AppendEvent(r, n, GateOpened(k))
    /\ packets' = packets \cup
         {[run |-> r, node |-> n, number |-> k, receipt |-> LastReceipt(r, n)]}
    /\ UNCHANGED <<created, claims, attempts, receipts, decided, revoked,
                   broken>>

(* Store::admit_decision for packet p, scoped to node m: only the packet's *)
(* existence and the absence of an earlier decision are checked before the *)
(* event is appended.                                                      *)
AdmitDecision(p, m, d) ==
    /\ RefOf(p) \notin decided
    /\ decided' = decided \cup {RefOf(p)}
    /\ IF p.run \in broken THEN UNCHANGED <<node, broken>>
       ELSE IF m = p.node /\ Legal(node[p.run][m], Decided(p.number, d))
            THEN /\ AppendEvent(p.run, m, Decided(p.number, d))
                 /\ UNCHANGED broken
            ELSE /\ broken' = broken \cup {p.run}
                 /\ UNCHANGED node
    /\ UNCHANGED <<created, claims, attempts, receipts, packets, revoked>>

(* Store::revoke_receipt                                                   *)
RevokeReceipt(q) ==
    /\ revoked' = revoked \cup {RefOf(q)}
    /\ UNCHANGED <<created, node, claims, attempts, receipts, packets,
                   decided, broken>>

Next ==
    \/ \E r \in Runs : CreateRun(r)
    \/ \E r \in Runs, c \in Controllers, now \in Times : ClaimNext(r, c, now)
    \/ \E c \in claims, o \in Outcomes : Complete(c, o)
    \/ \E r \in Runs, n \in Nodes : Cancel(r, n)
    \/ \E r \in Runs, n \in Nodes : Reclaim(r, n)
    \/ \E r \in Runs, n \in Nodes, v \in Verdicts, until \in Validities,
          now \in Times :
         AdmitReceipt(r, n, node[r][n].current, v, until, now)
    \/ \E r \in Runs, n \in Nodes, now \in Times : ApplyRetryPolicy(r, n, now)
    \/ \E r \in Runs, n \in Nodes, now \in Times, expires \in Expiries :
         OpenResolveWork(r, n, now, expires)
    \/ \E p \in packets, m \in Nodes, d \in DecisionKinds :
         AdmitDecision(p, m, d)
    \/ \E q \in receipts : RevokeReceipt(q)

Spec == Init /\ [][Next]_vars

-----------------------------------------------------------------------------
(* The tables and the fold hold rows of their types.                       *)
TypeOK ==
    /\ created \subseteq Runs
    /\ node \in [Runs -> [Nodes -> NodeStateType]]
    /\ claims \subseteq ClaimType
    /\ attempts \subseteq AttemptType
    /\ receipts \subseteq ReceiptType
    /\ packets \subseteq PacketType
    /\ decided \subseteq Refs
    /\ revoked \subseteq Refs
    /\ broken \subseteq Runs

-----------------------------------------------------------------------------
(* Safety.                                                                 *)

(* A node is running unchecked exactly while one claim on its current      *)
(* attempt is active, and no other claim on it is, and the claim rows that *)
(* budget_status counts are the attempts the node started: claim_next,     *)
(* complete, cancel, reclaim and the retries keep the claims table and the *)
(* event log in step.                                                      *)
ClaimsMatchLog ==
    \A r \in Runs, n \in Nodes :
        LET rows == {c \in claims : c.run = r /\ c.node = n} IN
        /\ ActiveOn(r, n) =
              {c \in rows :
                  /\ node[r][n].status = "running" /\ ~node[r][n].checking
                  /\ c.number = node[r][n].current}
        /\ {c.number : c \in rows} = 1..node[r][n].started

(* Work in progress never shares a resource one side needs for itself,     *)
(* across every run in the store (scheduler `conflict`).                   *)
ExclusiveAccess ==
    \A c1, c2 \in Active : c1 # c2 => ~Conflict(c1.node, c2.node)

(* Fencing: a later claim of a run carries a larger token, so a node's     *)
(* later attempt always fences off its earlier ones.                       *)
FencesIncrease ==
    \A c1, c2 \in claims :
        /\ c1.run = c2.run
        => /\ c1.fence = c2.fence => c1 = c2
           /\ c1.node = c2.node /\ c1.number < c2.number =>
                 c1.fence < c2.fence

(* An attempt is sealed exactly when its claim was released by completing  *)
(* or by being reclaimed, once, with the dependencies pinned at the claim: *)
(* a completion after cancel or reclaim writes nothing.                    *)
SealedUnderClaim ==
    /\ \A c \in claims :
          c.release \in {"completed", "reclaimed"} <=> RefOf(c) \in Keys(attempts)
    /\ \A a \in attempts : \E c \in claims : RefOf(c) = RefOf(a) /\ c.deps = a.deps
    /\ \A a, b \in attempts : RefOf(a) = RefOf(b) => a = b

(* An accepted node names the accepting receipt of its completed attempt,  *)
(* and that attempt pinned, for every declared dependency, a receipt whose *)
(* node is itself accepted in the run that issued it.                      *)
AcceptanceGrounded ==
    \A r \in Runs, n \in Nodes :
        node[r][n].status = "accepted" =>
            LET ref == [run |-> r, node |-> n, number |-> node[r][n].receipt] IN
            /\ \E q \in ReceiptAt(ref) : q.verdict = "accept"
            /\ \E a \in attempts :
                 /\ RefOf(a) = ref
                 /\ a.outcome = "completed"
                 /\ \A d \in Deps[n] : \E p \in a.deps :
                       /\ p.node = d
                       /\ node[p.run][d].status = "accepted"
                       /\ node[p.run][d].receipt = p.number

(* The verdict recorded last is the one the status shows: every accepting  *)
(* receipt in the table made its node accepted, for good.                  *)
AcceptIsFinal ==
    \A q \in receipts :
        q.verdict = "accept" =>
            /\ node[q.run][q.node].status = "accepted"
            /\ node[q.run][q.node].receipt = q.number

(* One verdict per attempt, only for the attempt that completed last.      *)
OneVerdictPerAttempt ==
    /\ \A p, q \in receipts : RefOf(p) = RefOf(q) => p = q
    /\ \A r \in Runs, n \in Nodes :
          node[r][n].checking =>
            LET ref == [run |-> r, node |-> n, number |-> node[r][n].current] IN
            /\ node[r][n].status = "running"
            /\ \E a \in attempts : RefOf(a) = ref /\ a.outcome = "completed"
            /\ ref \notin Keys(receipts)

(* The packets of a node whose decision is still missing are the one it    *)
(* waits on, unless the node was cancelled around it, and a packet shows   *)
(* the verdict on the attempt it presents when there is one.               *)
WaitsOnOpenPacket ==
    /\ \A r \in Runs \ broken, n \in Nodes :
          LET undecided == {p \in packets : /\ p.run = r /\ p.node = n
                                            /\ RefOf(p) \notin decided} IN
          IF node[r][n].gate # None
          THEN /\ node[r][n].status = "gated"
               /\ {p.number : p \in undecided} = {node[r][n].gate}
          ELSE undecided # {} => node[r][n].status = "cancelled"
    /\ \A p \in packets : RefOf(p) \in Keys(receipts) => p.receipt = p.number

(* Attempts stay within the node's own cap, except one more for each       *)
(* operator decision at a gate.                                            *)
RetriesBounded ==
    \A r \in Runs, n \in Nodes :
        node[r][n].started <=
            MaxAttempts[n] +
            Cardinality({ref \in decided : ref.run = r /\ ref.node = n})

(* A run never starts more attempts than the graph-wide budget, over all   *)
(* its nodes, retries and gate decisions.                                  *)
RunBudget ==
    \A r \in Runs : DispatchCount(r) <= TotalAttempts

(* Until it is cancelled a node has a view its own contract accepts, except *)
(* for undecidable work whose packet is not open yet: every transition      *)
(* clears the receipt, attempt and gate of the state it leaves.             *)
LiveViewsValid ==
    \A r \in Runs, n \in Nodes :
        LET s == node[r][n] IN
        s.status # "cancelled" /\ ~(s.status = "gated" /\ s.gate = None) =>
            ViewValid(s)

(* Reopening the file reproduces the views: no transaction leaves a run     *)
(* with a log that replay refuses.                                          *)
LogReplays == broken = {}

-----------------------------------------------------------------------------
(* Action properties.                                                      *)

(* A receipt new work may rest on at `now`, by itself.                     *)
LiveAt(ref, now) ==
    /\ ref \notin revoked
    /\ \E q \in ReceiptAt(ref) : q.verdict = "accept" /\ now < q.until

(* receipts::admit: a node becomes accepted only by an admitting call, and *)
(* whatever its clock shows, nothing the node's claim pinned is revoked    *)
(* then or has expired by that clock, however long ago the work was        *)
(* claimed and by however different a clock.                               *)
AcceptsOnLiveEvidence ==
    [][\A r \in Runs, n \in Nodes :
         LET k == node[r][n].current
             Admission(until, now) ==
                AdmitReceipt(r, n, k, "accept", until, now)
         IN
         node[r][n].status # "accepted" /\ node'[r][n].status = "accepted" =>
            /\ \E until \in Validities, now \in Times : Admission(until, now)
            /\ \A until \in Validities, now \in Times : Admission(until, now) =>
                 \A c \in claims :
                    RefOf(c) = [run |-> r, node |-> n, number |-> k] =>
                        \A p \in c.deps : LiveAt(p, now)]_vars

-----------------------------------------------------------------------------
(* The ledger implements the lifecycle its nodes promise.                  *)

PhaseOf(s) ==
    CASE s.status = "running" -> IF s.checking THEN "checking" ELSE "working"
      [] s.status \in {"rejected", "failed", "gated"} -> "stopped"
      [] OTHER -> s.status

Lifecycle == INSTANCE NodeLifecycle WITH
    phase <- [r \in Runs |-> [n \in Nodes |-> PhaseOf(node[r][n])]],
    tries <- [r \in Runs |-> [n \in Nodes |-> node[r][n].started]]

(* Every transaction is a step of the lifecycle or leaves it alone: work   *)
(* starts only over dependencies some run accepted, nothing skips its      *)
(* verdict, and a terminal node stays as it is.                            *)
ImplementsLifecycle == Lifecycle!Spec
=============================================================================
