# Checkspan in TLA+

Checkspan (`src/`) is a local, single-machine tool that runs a graph of work
nodes under acceptance contracts.  A node is *accepted* only when a registered
verifier returned an accepting verdict on the exact attempt that was sealed for
it, over dependencies that were themselves accepted.  All progress lives in one
SQLite file as an append-only event log per run plus a few tables; processes
(`checkspan run step`, `run drive`) come and go around it.

The modules in this directory model that ledger, the reducer that turns the log
into node states, the processes that drive a run, and what those processes share
outside any transaction: the checkout, the artifact files, the verifiers they
start and the store file itself.  Paths below are relative to `src/`.

## 1. The system

| component | source | state it keeps | operations |
|---|---|---|---|
| node state reducer | `src/state`, `src/contracts/view.rs` | none: folds events into `NodeState` | `apply`, `replay`, `to_view` |
| event-sourced store | `src/store` | graphs, runs, events, claims, attempts, receipts, gate packets, decisions, artifacts, schema version | `transaction`, `create_run`, `admit_decision`, `revoke_receipt`, `open` |
| scheduler | `src/scheduler` | none of its own: `claims` rows and events | `claim_next`, `complete`, `cancel`, `reclaim` |
| dependency resolution | `src/deps` | none | `resolve`, `recheck` |
| budget and retry policy | `src/budget` | none | `budget_status`, `disposition`, `apply_retry_policy`, `check_narrowing` |
| receipt admission | `src/receipts` | none | `issue`, `admit` |
| gate packets | `src/gates`, `src/contracts/gate.rs` | none | `open_resolve_work`, `GateDecision::binds` |
| local controller | `src/controller` | process-local only | `create`, `step`, `drive`, `cancel`, `status`, `packet` |
| verifier host | `src/verifier_host` | one child process tree, its pipes and reader threads | `run` |
| graph admission | `src/graph` | none (pure) | `admit` |
| evidence resolution | `src/evidence` | none (reads files) | `resolve`, `freeze` |
| code adapter | `src/adapters/code` | git worktree | patch capture |
| verifiers | `src/verifiers` | child processes, one report file per attempt | `patch::run_child`, `software::run_child`, `run_check` |
| contracts, digests | `src/contracts`, `src/digests` | none | records, parsing, canonical JSON |
| schema validation | `src/validation` | none | document checks |
| command line | `src/cli.rs`, `src/main.rs` | none | argument parsing, printing |

**How they interact.**  The controller opens the store, replays the log through
the reducer, and either resumes a *checking* attempt or asks the scheduler for a
claim.  A claim is one transaction: budget check, dependency resolution, resource
check, `claims` row and `attempt_dispatched` event.  The controller then works
outside any transaction (freezing evidence, capturing a patch, running a child
verifier through the verifier host) and comes back with `complete`, which seals
the attempt, then `receipts::admit`, then `apply_retry_policy` or
`open_resolve_work`.  Every one of these is a transaction of its own, so another
process, an operator or a kill can come between any two.

**What is hard.**  The process remembers a claim, an attempt number and a
timestamp it read long ago; the store may have moved on (cancelled, reclaimed,
dispatched again, verdict admitted by another process, receipt revoked or
expired).  Two processes may resume one checking attempt.  A process may die
between the transaction that records a failure and the one that decides what to
do about it.  One budget is spent by several nodes, retries, gate decisions and
runs of one lineage.  The reducer is the only judge of legal order, and it judges
on replay: an event appended against its rules makes a whole run unreadable.  A
verifier outlives the process that started it, looks at a checkout that anybody
may edit, and writes a file whose digest an attempt is sealed with.  Every command
opens the store file and reads the graph document anew, with whatever build and
whatever the document says at that moment.

**What correctness means**, per component:

- reducer: accepted and cancelled are final; only a verdict accepts; each state
  clears the fields of the one it left (`LiveViewsValid`);
- store and scheduler: claims and log agree (`ClaimsMatchLog`), tokens fence
  (`FencesIncrease`), one seal per attempt and only under its claim
  (`SealedUnderClaim`), resources stay exclusive across runs (`ExclusiveAccess`),
  a stored log replays (`LogReplays`);
- dependencies and receipts: acceptance is final and grounded
  (`AcceptIsFinal`, `AcceptanceGrounded`), one verdict per attempt
  (`OneVerdictPerAttempt`), evidence live when the verdict is recorded
  (`AcceptsOnLiveEvidence`);
- budget: counting is exact (a part of `ClaimsMatchLog`), per-node and per-run
  bounds hold (`RetriesBounded`, `RunBudget`);
- gates: a waiting node waits on exactly its open packet, which shows the receipt
  of its attempt if that has one (`WaitsOnOpenPacket`);
- store file: the schema version is that of the tables, whoever opens the file
  (`VersionMatchesTables`), and a run is only ever acted on by the one graph it was
  created from (`OneGraphPerRun`);
- controller: nothing stopped is forgotten (`FollowedUp`, `StoppedWorkGoesOn`),
  a sealed attempt gets its verdict after a crash (`VerdictResumes`), and a run comes
  to rest (`DriveSettles`);
- verifier host: a verdict is the whole answer of a child that ended well
  (`VerdictEarned`), whoever still talks is heard or killed (`TalkersDrained`),
  and the host returns (`RunReturns`);
- verifiers: an accepted candidate passes every required check
  (`AcceptedPasses`), what an attempt is sealed with stays on disk
  (`ArtifactAsSealed`) and says what the verdict says (`VerdictIsReported`), and a
  check is about the patch it depends on (`SameCandidate`, which does not hold);
- graph admission: exactly the graphs that can be scheduled are admitted
  (`AdmitsExactly`), producers come first (`ProducersFirst`), and a refusal names a
  real cycle (`CycleIsReal`);
- evidence: a frozen manifest is whole and within its ceilings
  (`ManifestComplete`, `WithinTotal`), a later change is reported
  (`ChangeReported`) and an unchanged source is not (`HoldsWhileUnchanged`).

## 2. The modules

```
NodeState            the reducer: events, Legal, Apply, ViewValid
   |
Ledger ---------->   NodeLifecycle     (refinement: ImplementsLifecycle)
   |     \
   |      MCLedger                     values for TLC
Controller           processes around the ledger
   |
MCController                           values for TLC

LedgerProofs (Ledger) -- LedgerSafetyProofs -- ControllerProofs (Controller)

VerifierHost         one verifier process run
   |     \
   |      MCVerifierHost               values for TLC
VerifierHostProofs (VerifierHost)

GraphAdmission -- MCGraphAdmission    one graph document, admitted or refused
   |
GraphAdmissionProofs (GraphAdmission)

Evidence -- MCEvidence                one manifest, resolved and later verified
   |
EvidenceProofs (Evidence)

Verification         the built-in verifiers, and the controller around them
   |     \
   |      MCVerification               values for TLC
VerificationProofs (Verification)

StoreFile            opening a store file, and the graph of a run
   |     \
   |      MCStoreFile                  values for TLC
StoreFileProofs (StoreFile)
```

**`NodeState`** translates `state/mod.rs`.  `Legal(s, e)` is the set of
`(status, event)` arms of `NodeState::apply` that do not return an error, with
`require_current` and the packet and decision checks as conjuncts; `After...`
operators are the bodies of those arms.  `None` is 0: attempts are numbered from
1.  The receipt of a node is identified by its attempt number (the controller
names receipts `rcpt-<node>-<number>`), and so is a gate packet
(`gate-<node>-<number>`).  `ViewValid` is `NodeView::check_bindings`.

**`Ledger`** has one action per transaction.  `BEGIN IMMEDIATE` serialises
writers and a transaction that returns an error is rolled back, so a transaction
is one atomic step and a refusal is an action that is not enabled.

| variable | code |
|---|---|
| `created` | `runs` table |
| `node` | the fold of the run's `events` (`RunState::replay`) |
| `claims` | `claims` table; a row is released once and never deleted |
| `attempts` | `attempts` table |
| `receipts` | `receipts` table |
| `packets`, `decided` | `gate_packets` and `gate_decisions` tables |
| `revoked` | receipts named by `receipt_revoked` events |
| `broken` | runs whose log holds an event the reducer refuses |

| action | code |
|---|---|
| `CreateRun` | `Store::create_run` |
| `ClaimNext` | `Scheduler::claim_next` (budget, cap, readiness, conflict, token) |
| `Complete` | `Scheduler::complete`, for any claim ever handed out |
| `Cancel`, `Reclaim` | `Scheduler::cancel`, `Scheduler::reclaim` |
| `AdmitReceipt` | `receipts::admit` |
| `ApplyRetryPolicy` | `budget::apply_retry_policy` |
| `OpenResolveWork` | `gates::open_resolve_work` |
| `AdmitDecision` | `Store::admit_decision` |
| `RevokeReceipt` | `Store::revoke_receipt` |

Every call takes its own `now` from `Times`: nothing orders the clocks of
different callers, so `Ledger` lets them come in any order.

*What the abstraction drops.*  Digests, types, policies and graph revisions are
represented by the identity of the attempt they describe: the checks that compare
them are equality checks on records the same code wrote.  Only `until` of a
receipt and of an import is kept, because time changes it.  Event sequence
numbers are implied by the fold.  When a packet expires is read in one place only:
`open_resolve_work` refuses to build a packet that would already have expired
(`src/gates/mod.rs:100`, `MayGate`).  The value comes from the caller (`Expiries`); the
packet keeps it, but no later call looks at it, so `PacketType` does not.  The raw `Store::seal_attempt`, `Store::admit_receipt` and `Store::open_gate` are used
only by tests and are not actions.

**`NodeLifecycle`** is what the ledger promises without its tables: a node
starts only over dependencies some run accepted, and moves
open - working - checking - accepted or stopped, stopped back to open, anything
live to cancelled.  `ImplementsLifecycle` is the refinement, with `phase` computed
from the node state and `tries` from the number of attempts started.

**`Controller`** puts processes on top.  `pc` is where a process is in
`step_inner`: `ready` (about to read the log), `claim`, `execute` (claim in hand),
`verify` (sealed attempt in hand), `admit` (verdict in hand), `retry`, `gate`.
`job` is what it remembers, including the one timestamp it was started with.
Every store change is a `Ledger` action conjoined with the change of `pc`.
A result the process can get from outside the ledger (evidence missing, patch
captured, verifier verdict, verifier failure) is a disjunct.  `GateExpiry` is the
instant every packet of a controller expires (`gate_expiry`); `Gate` of a process
whose clock is not before it ends with an error.  `Die` ends a process
between any two transactions, also for the errors that `run_try!` turns into an
exit; `Operate` is the operator's `create`, `cancel`, and the library calls the
M2 guide documents.  The same controller identity may be started again.

**`VerifierHost`** is one call of `verifier_host::run`.  `host` is the statement
the host is at: the four checks of the poll loop in their order (`wait`,
`overflow`, `cancel`, `deadline`), then `join` (of the request writer), `finish`
(of the readers) and `done`.  The writer thread is `writing`, the reader thread is
`taken` and `ended`: what the reader keeps is the part of `taken` up to `Limit`.
The child, its `Helpers` (which inherit its pipes and process group) and the
software verifier's `Checks` (which have pipes and groups of their own) do
anything the operating system allows, at any time.  Output is a sequence of
pieces instead of bytes, because `parse_response` distinguishes only a response
that echoes the request, one that does not, white space and the rest.
`Controller` uses the result of a run and not this module: its `Answer`,
`NoAnswer` and the alternatives of `Execute` are the values `outcome` can take.

**`GraphAdmission`** is one call of `graph::admit` on a document that has the
right shape.  A node is its position in the document.  The passes are steps in
the order of the code: the names every node refers to are resolved, Kahn's
algorithm orders one ready node at a time (the first of the document first), a
walk through what is left over shows a cycle, and gates are checked against what
they wait for.  Errors add up over the passes, and a graph is admitted when there
are none.  The definitions it is checked against (`Chains`, a path through the
declared dependencies) share nothing with the passes.

**`Evidence`** follows one manifest: `check_narrowing`, `Resolver::resolve` port by
port in name order, and `Resolver::verify` of what was frozen.  Nothing here is a
transaction: the repository and the directories are changed by `Work` (edit,
commit, check out) and `WriteFile` between any two looks.  `capture` asks git four
times (HEAD, status, the changed files, the patch); `look` holds the answers so
far.  Looking up a file (its attestation, expiry and length) is one step and
reading it another.  A content is a number and as long as its number, so a file
may grow between the two.  `NextCallDiffers` changes what a later call of
`verify` is given: sources may be registered no more, and receipts pinned
differently.  `calm` and `still` record history for the properties and no guard
reads them.  `Below` and `Slashed` name the two ways of registering a
source that `verify` cannot find again (section 4).  In this commit only tests
call `verify`.

**`Verification`** has what no transaction protects: the checkout (`tree`) and its
`head`, the artifact file of each attempt (`file`), and verifier processes
(`verifiers`) that go on when the controller process that started them dies.  The
store is reduced to the stage of each attempt.  A verifier's `at` is the statement
of `run_child` it is at: the software verifier captures (`before`), runs the checks
one by one (`checks`), captures again (`after`), and writes its report in two steps
(`write`, `fill`), because `fs::write` truncates the file before it fills it; the
patch verifier reads the `artifact` and then, if `base_matches` is one of its
`PatchChecks`, captures the `candidate`.

A capture, here as in `Evidence`, is not one look.  `look` is what a capture has seen
so far and `Looks` its next answer: HEAD, the status, the changed paths, their
contents (`src/adapters/code/mod.rs:218`, `:219`, `:238`, `:256`); any edit or
commit may come between two of them.  A clean status makes the candidate the commit
HEAD was *then*; otherwise it is the working tree on that commit.  What the looks
abstract:

- a commit is told by what it holds.  An empty commit gives HEAD a new name for
  the same content and makes captures differ that here agree;
- files are read one by one.  If the checkout changed since the paths were listed,
  the capture may show the old content, the new one, or a mixture (`Mixed`), which no
  other capture shows unless a part of the change is undone;
- the patch, which is read last, is part of the digest that is compared and only
  tells more captures apart; it is left out;
- HEAD moves by `Commit`, which commits what the checkout holds.  A reset or a
  checkout that brings an earlier content back is an edit undone.

The frozen candidate is such a finished look, and two captures have the same subject
if `Agree`.  A controller process (`proc`)
claims, freezes, writes the patch or runs the check's verifier, reads the report
back, seals and admits in the order of `execute_claim`, or resumes a sealed
attempt with `verify_and_admit`.  `Edit` is anybody who works in the checkout, the
checks and the processes they leave behind included.  `past`, `returned` and `raced`
(the verifiers whose second capture had asked for HEAD and not yet for the status when
somebody committed) record the history for the properties and no guard reads them.  `Controller` uses the
verdicts of these runs and not this module.

**`StoreFile`** follows commands from `load_graph` through `Store::open`,
`store_graph` and `create_run` or `open_run` to the steps of a run.  `found` is the
schema version a process read outside any transaction; `writer` is SQLite's write
lock, held between `Migrate` (the first `CREATE TABLE`) and `Commit`.  A build is
the schema version it supports, so that an older program may use the same file.
`document` is the graph file on disk, which `Save` edits at any moment.  `acts`
records, for the properties, by which document a run was acted on; what such a step
does is `Controller`'s and `Ledger`'s.  A process that has the store open when a
newer build migrates it keeps working: the version is checked only on opening.

**Faulty twins.**  An operator such as `OneOverBudget` just before
`BudgetExhausted` is a plausible mistake in that code.  No specification uses it.
Replacing the operator by its twin must break the property it is paired with
(`PROJECT.json`, "mutants"), which shows the property can fail.

## 3. Model checking

Run a configuration with `tlc -config <run>.cfg <module>.tla`.

| run | module | instance | checks |
|---|---|---|---|
| `LedgerChain` | `MCLedger` | one run, `n2` depends on `n1`; `n1` may try twice and is gated when exhausted, `n2` once and is cancelled; receipts expire at the later of the two clock values, and so do packets; budget 4 | type, claims/log agreement, tokens, acceptance, verdicts, packets, budgets, views, live evidence, refinement |
| `LedgerLineage` | `MCLedger` | a parent run and a child that spends its budget and imports its first receipt, which expires; a resource `n1` needs alone and `n2` shares | `SealedUnderClaim`, `AcceptanceGrounded`, `ExclusiveAccess` |
| `DriveToRest` | `MCController` | two processes, two independent nodes, no death, an operator who decides, a gate expiry that passes | type, `OneAtATime`, `DriveSettles` |
| `ResumeAfterDeath` | `MCController` | two processes, a chain, one death, the deadline and the gate expiry pass, an operator who cancels, reclaims and retries | `FollowedUp`, `VerdictResumes` |
| `HostRun` | `MCVerifierHost` | a child, a helper and a check, limit 2 pieces, up to 3 written | type, `VerdictEarned`, `TalkersDrained`, `RunReturns` |
| `Admission` | `MCGraphAdmission` | all graphs of three nodes, with one proof port and one gate | type, `AdmitsExactly`, `ProducersFirst`, `CycleIsReal`, `AdmissionEnds` |
| `Freezing` | `MCEvidence` | a code, a log and a proof port, contents of 1 to 3 bytes, ceilings of 2, up to two changes at any time | type, `ManifestComplete`, `WithinTotal`, `ChangeReported`, `HoldsWhileUnchanged` |
| `Verifying` | `MCVerification` | two processes, up to three attempts and three verifiers, one death, one required check, an operator who reclaims, a checkout of two contents, one of which fails the check, edited and committed at any time | type, `AcceptedPasses`, `ArtifactAsSealed`, `VerdictIsReported` |
| `Opening` | `MCStoreFile` | two processes, builds of schema 1 and 2, a file of version 0, 1 or 2, one run, two graph revisions with two contents, two stops | type, `VersionMatchesTables`, `OneGraphPerRun` |

Together they take every action and every alternative of an action.

**Why these bounds are enough to be interesting.**  Two nodes give a dependency,
an order to choose in, and a second claim beside the first.  Two attempts on a
node give a stale first attempt while the second runs.  A node at its own cap
with a gate decision left exceeds the cap by the decision; a total budget of 3 or
4 is reached by retries plus decisions.  Two clock values with a receipt that
expires between them make every check of time go both ways.  Two runs are the
least that share a budget, a resource or a receipt.  Two processes are the least
that overtake each other; a single death hits every control point because TLC
places it everywhere.  State spaces are finite because dispatches stop at
`TotalAttempts` and every other row is keyed by a dispatched attempt.

In `Admission` three nodes have every shape a cycle and its tail can take: a loop
of one, two or three nodes, with a node before or after it, next to a part that
is acyclic.  In `Freezing` the smallest file fits, the middle one fills what one
resolution may read, the largest does not fit; two changes are the least that
put a file or a branch back where it was.

In `Verifying` three attempts are a patch, its check, and one that was reclaimed or
rejected before; three verifiers are one more than those two nodes need, so one can
be left behind by a process that died or run again for a sealed attempt.  A content
that passes the check and one that does not are what the verdicts distinguish.  An
edit and its commit come between any two looks of a capture and any two steps of a
verifier.  The constraint `Explored` of `MCVerification` cuts two things off.  It does
not follow a behaviour in which an edit was undone, about which `AcceptedPasses` says
nothing, so with two contents the checkout is edited once (a capture that straddles
the edit, a check on either side of it and a commit at any time after it all occur;
for more edits there is the theorem `AcceptedCandidatesPass`); and while the checkout
changes it follows two attempts, the patch and its check or a repetition of one of
them, and three only while the checkout and HEAD keep the content they began with,
whichever that is: what the third attempt adds is a matter of the files, not of the
checkout.  That leaves 1.3 million states.

In `Opening` two processes race through every statement of `open` with every pair of
builds, and two documents of one revision or of two are all the ways in which an
edited graph can differ.  In `Verifying` and `Opening`, processes (and contents, where their names mean
nothing) are symmetric.

In `VerifierHost` one piece beyond the limit is enough for every question the
overflow check decides, a pipe of one piece blocks its writer as soon as the reader
stops, and one helper is enough to write after the child has exited or to hold the
pipes open.

`CHECK_DEADLOCK FALSE`: a run in which everything is accepted or cancelled has no
further transaction, which is where the system is meant to stop; a graph that is
admitted or refused, a manifest that is refused or verified, and a verifier run
that has returned have no further step either; in `Verifying` the bounds on attempts
and verifiers end the run.  `Opening` is checked for deadlock: somebody can always
start or go on.

**Fairness** (`Controller!Fairness`):

- weak fairness of each process's `Step`: a process that is alive and not blocked
  executes its next statement.  It is never blocked for good: transactions take
  SQLite's write lock with a busy timeout, and every stage has an enabled exit;
- strong fairness of `Answer`: a verifier run has a deadline, so it ends; that it
  ends in a verdict sometimes and does not fail forever is an assumption about
  verifiers, without which retrying verification forever is allowed by the code
  (`verify_and_admit` leaves the attempt sealed and a later step tries again);
- weak fairness of starting some process, and of creating each run: somebody keeps
  running `run drive`.  `DriveSettles` and `VerdictResumes` are about what those
  drives achieve.

No fairness is given to operators, to the clock of `Controller`, or to death.

`VerifierHost!Fairness`: the host's threads are scheduled and the deadline passes;
the child, what it starts, and the caller owe nothing.

`GraphAdmission` is a sequential computation and has weak fairness of its next
step.  `Evidence`, `Verification` and `StoreFile` have no liveness properties.

## 4. Where code and documents disagree

Each has a run that must end in a violation.

| run | property | what happens |
|---|---|---|
| `DecisionBreaksLog` | `LogReplays` | a packet is opened, the node is cancelled, the decision arrives: the store takes it and the run no longer replays |
| `StrandedByDeath` | `StoppedWorkGoesOn` | a process dies between recording a failure and the retry policy; no later step looks at failed nodes |
| `OtherCandidate` | `SameCandidate` | a patch is accepted, the checkout is edited, the check freezes and passes on what is there now: the patch and its green check are about different candidates (`CHECKSPAN-SCHEMA-NOTES.md:275`, `:277`) |

Met while modelling, and stated here without a run:

- cancelling a rejected or failed node (`src/state/mod.rs:466`) keeps its receipt, and
  `NodeView::check_bindings` refuses the view (`docs/CHECKSPAN-DEVLOG.md:149`);
- a node gated after an attempt that failed without a verdict shows the receipt
  of an earlier attempt (`src/gates/mod.rs:142`), where the comment promises the
  deciding one;
- `capture` asks git for HEAD before it asks whether the tree is clean
  (`src/adapters/code/mod.rs:218`): a commit made in between is captured as the
  commit before it, with none of the changes.  So the check may freeze a commit that
  does not pass; somebody edits, the check passes on the edit, the second capture
  reads the old HEAD, the edit is committed, the status is clean, and the old commit
  is accepted, where `src/verifiers/software.rs:154` has "any edit to the checkout
  changes the captured subject even when the frozen candidate was a commit" and `:196`
  "The candidate must not have moved while the checks ran."  `AcceptedPasses` exempts
  this with `a.by \notin raced`; without that conjunct TLC finds the behaviour above.
  An evidence reference captured so names the old commit and always verifies again;
- a packet is refused from its expiry on (`src/gates/mod.rs:100`), and a controller
  passes one fixed `gate_expiry` with every packet (`src/controller/mod.rs:570`, `:758`).
  After that instant a step that exhausts its work or cannot decide it ends with an
  error and leaves the work stopped, with no packet and no process, where
  `docs/CHECKSPAN-DEVLOG.md:598` has "The controller opens a packet automatically when the
  retry policy exhausts to the `gate` route" and `CHECKSPAN-SCHEMA-NOTES.md:185`
  "Create a bounded packet and wait for its designated authority."  `FollowedUp` and
  `DriveSettles` exempt this with `GateClosed`; without it TLC finds the behaviour;
- `gate_expiry` is when packets "stop accepting decisions"
  (`src/controller/mod.rs:61`), but `admit_decision` (`src/store/mod.rs:934`) never looks
  at the expiry of a packet;
- the software verifier notices that the candidate changed while checking
  (`src/verifiers/software.rs:10`) only if it still differs at the second capture;
- a step that finds a sealed check runs the software verifier again
  (`src/controller/mod.rs:487`), which replaces the report the attempt names by digest;
  two such steps at once may leave a mixture of two reports;
- a version 1 file that some other program left in rollback mode stays there, since
  `open` turns WAL on only for a file without a schema (`src/store/mod.rs:724`);
- a child run's claim counts its ancestors' spending but the parent's next claim
  does not count its children's (`src/budget/mod.rs:320`), while
  `CHECKSPAN-SCHEMA-NOTES.md:192` speaks of one lineage budget;
- `drive` reads the clock once (`src/controller/mod.rs:214`) and may claim after the
  deadline of `src/contracts/graph.rs:51`;
- the host joins the readers after the loop that watches the deadline
  (`src/verifier_host/mod.rs:357`), so a process that keeps the pipes open keeps it
  waiting;
- the software verifier gives its check a process group of its own
  (`src/verifiers/software.rs:307`), which killing the verifier's group
  (`src/verifier_host/mod.rs:13`) does not reach;
- a repository may be registered by any path inside it (`src/evidence/mod.rs:67`), but
  `verify` looks for a source registered at its top level (`:796`), so evidence of
  such a repository never verifies; nor does that of a directory whose name has
  a slash;
- an attestation document is read without counting towards the ceilings of
  `Limits`;
- a proof port that names two dependencies is admitted with the graph, and
  resolves only when exactly one of them has a receipt.

What the passing runs leave out on this account: `LiveViewsValid` is not about
cancelled nodes; `WaitsOnOpenPacket`, `FollowedUp`, `VerdictResumes` and
`DriveSettles` are about runs that replay; `FollowedUp` is the part of
`StoppedWorkGoesOn` that holds until a process dies, and not about work an
operator reclaimed; `RunReturns` is about a child that, when it exits, leaves
nobody holding its pipes; `HoldsWhileUnchanged` leaves out the sources of `Below`
and `Slashed`; `AcceptedPasses` is about behaviours in which no edit was undone, and
not about a frozen commit whose second capture a commit overtook; `FollowedUp` and
`DriveSettles` leave out work that needs a packet after the gate expiry (`GateClosed`);
`ArtifactAsSealed` and the verdict in `VerdictIsReported` are about checks that were
verified once.

After a death *with a claim in hand* the store is blocked until an operator
reclaims the claim.  The M2 guide documents that, and no property forbids it.

## 5. Proofs

Eight modules are checked by TLAPS.  Their theorems hold for every value of the
constants under the assumptions of the module they are about, and state every
invariant and every action property that a passing run of section 3 checks.  The
assumptions are what the code guarantees before the modelled calls begin:

- `Ledger`: `GraphAssumption`, `RunAssumption`, `CallerAssumption`.  Declared
  dependencies go down in `Rank`, policies have their types, runs are finitely
  many.  That every admitted graph has such a rank is the theorem
  `AdmittedIsRanked`;
- `Controller`: also `ControllerAssumption`.  In particular the controller builds its
  scheduler with `Scheduler::new`, whose cap on active claims is one
  (`src/scheduler/mod.rs:258`), and issues receipts that never expire;
- `Evidence`: `EvidenceAssumption`.  A node has no two evidence ports of one name
  (`src/contracts/node.rs:393`) and the resolver takes them in the order of their
  names;
- `Verification`, `StoreFile`, `GraphAdmission`: types and finite bounds
  (`WorkAssumption`, `StoreAssumption`, `AdmissionAssumption`).

Few of these invariants are inductive as they stand; the tables name the
strengthening each one needs, which is a conjunction of named parts in the module
of the proof, and why.

**`LedgerProofs`** begins with facts about the reducer alone: the types it
preserves, finality, that only a dispatch increases `started`.

| theorem | states | argument |
|---|---|---|
| `TypeCorrect` | `[]TypeOK` | `Typed` is inductive: `TypeOK` alone is not, because the next token and the receipt shown in a packet are the *maximum* of a set, so one must know that the tokens of a run and the receipts of a node always have a maximum (`FencesHaveTop`, `ReceiptsHaveTop`) |
| `TokensIncrease` | `[]FencesIncrease` | the next token exceeds every token of the run; that a later attempt of the same node has the later token needs that claims are numbered up to `started` (`NumbersStarted`) |
| `AcceptanceFinal` | `[]AcceptIsFinal` | an accepted node is terminal, so `Legal` refuses every event (`TerminalIsFinal`), and an accepting receipt is recorded only with the event that accepts |
| `LedgerImplementsLifecycle` | `ImplementsLifecycle` | one step per action; a claim maps to `Start` because a resolved dependency has an accepting receipt, which by `AcceptIsFinal` means its node is accepted where it was issued |

**`LedgerSafetyProofs`** first says, once per transaction, what it does to its node
and to the tables; the invariants build on each other in this order.

| theorem | states | argument |
|---|---|---|
| `ClaimsFollowTheLog` | `[]ClaimsMatchLog` | `ClaimInv`: a row is held exactly while it is for its node's current attempt and that attempt runs unchecked (`HeldIsUnderWay`), every attempt up to `started` has exactly one row, and the current attempt of a running node is the last.  A stale `complete`, `cancel` or `reclaim` then finds its row released |
| `SealedOnce` | `[]SealedUnderClaim` | with `ClaimInv`: a seal and the release of the claim are one transaction, and the claim was not released before |
| `ResourcesExclusive` | `[]ExclusiveAccess` | `claim_next` compares with every active claim of the store; no other step makes a claim active |
| `OneVerdict` | `[]OneVerdictPerAttempt` | what has a receipt has been sealed (`JudgedAreSealed`), so a fresh attempt has no receipt yet, and the receipt ends `checking` |
| `AcceptancesGrounded` | `[]AcceptanceGrounded` | `Grounded` of a node is kept because acceptance is final, in the run it was pinned from too |
| `AcceptsLive` | `AcceptsOnLiveEvidence` | the only step that accepts is an admission, whose recheck, by the clock of that very call, is of the pins of the very attempt judged; an attempt has one pin per node (`OnePinPerNode`), so none escapes it |
| `ViewsStayValid` | `[]LiveViewsValid` | `Viewable` says for each status which fields are clear; `ViewValid` alone forgets what the next event needs |
| `WaitsOnItsPacket` | `[]WaitsOnOpenPacket` | `PacketInv`: packets present sealed attempts, decisions answer packets, a running attempt has no packet yet; so a fresh packet is the only open one |
| `RetriesStayBounded` | `[]RetriesBounded` | an open node has an attempt left (`AttemptLeft`): the policy reopens a node only below its cap, and a decision brings an attempt of its own |
| `BudgetHolds` | `[]RunBudget` | a claim adds one row to a finite table that `budget_status` has just counted |

**`ControllerProofs`** shows the processes to be clients of that ledger.

| theorem | states | argument |
|---|---|---|
| `ProcessesTyped` | `[]CTypeOK` | `JobInv`: a process at work remembers an attempt that has a claim row, and one that executes owns it |
| `ControllerUsesLedger` | `CSpec => Spec` | every step of a process, the operator, the clock or death is a transaction of the ledger or leaves it alone, so every theorem about `Ledger` is one about `Controller` |
| `OneNodeAtATime` | `[]OneAtATime` | with a cap of one there is one active claim in the whole store (`LoneClaim`), so a second process executing a claim it still holds would hold the same one, which names its owner |
| `StoppedWorkFollowedUp` | `[]FollowedUp` | `HandedOn` says for every stop a step can cause which process has it in hand afterwards; `FollowInv` that work stopped just now has no packet yet, and that claims belong to created runs.  A packet can only be refused for its expiry by a process whose clock is past it, and no process is ahead of the time of day (`NowInv`), so `GateClosed` holds then; what is `Exhausted` once stays so while it is stopped |

**`EvidenceProofs`**: all five from `EvidenceInv`, which follows a call from port to
port.

| theorem | states | argument |
|---|---|---|
| `EvidenceTyped` | `[]TypeOK` | a read takes no more than `Fits` has just allowed, whatever the length was when it was looked up |
| `FrozenIsWhole` | `[]ManifestComplete` | `Whole`: while no error is recorded, a port that is done is filled, or need not be; `Allowed`: narrowing drops no required port and leaves a port some of its sources; `Looking`: the offer a capture is about is still the port's |
| `FrozenWithinTotal` | `[]WithinTotal` | `Counted`: what is in the manifest and what remains are within the ceiling, since a file that grew is refused after it was read; a sum over a set is shown not to depend on the order it is taken in (`TotalAdds`) |
| `ChangesReported` | `[]ChangeReported` | `CalmLook`: the answers of a capture so far are what is there, if nothing changed since `verify` began; `CalmDone`: so a port it left without an error is current |
| `UnchangedHolds` | `[]HoldsWhileUnchanged` | `Sound`: a reference to what has not changed since it was resolved is to what is there; `StillRead`: a second capture then repeats the first answer by answer |

**`VerificationProofs`**

| theorem | states | argument |
|---|---|---|
| `VerificationTypes` | `[]TypeOK` | inductive: a process and a verifier hold an attempt that exists |
| `AcceptedCandidatesPass` | `[]AcceptedPasses` | `VerificationInv` follows one verifier: the content it froze is in `past` (`Captures`: what a capture shows whole was there), so the checkout that has left it can come back only by undoing, and while it has not left it, every check so far that passed ran on it (`Findings`).  A second capture that agrees either saw that content in the files, or saw HEAD hold it and then a clean status: then the checkout held it too, unless HEAD moved in between, which is `Overtaken`.  A verdict in hand comes from a verifier of that attempt (`Ownership`) |
| `ArtifactsStay`, `VerdictsReported` | `[]ArtifactAsSealed`, `[]VerdictIsReported` | `SealInv`: a process with an unsealed attempt has it alone and carries what the file holds to the seal (`Carries`); until the seal an attempt is verified once, and the only verifier of an attempt has written its report whole before it says anything (`Reported`) |

**The others**

| theorem | states | argument |
|---|---|---|
| `HostTyped` | `[]TypeOK` (`VerifierHost`) | inductive; what is `taken` off the pipe was written to it |
| `VerdictIsEarned` | `[]VerdictEarned` | `Settled`: the reader ends only when everything was read and nobody can write any more, and after the poll loop the child is gone, so how it exited is final |
| `AdmissionTyped` | `[]TypeOK` (`GraphAdmission`) | a node's count is of the producers that are not ordered, so taking one off never wraps |
| `OrderIsTopological` | `[]ProducersFirst` | `Kahn`: the ready nodes are those whose count is zero and that are not ordered yet |
| `ReportedCycleIsReal` | `[]CycleIsReal` | `Wandering`: the walk follows producers of nodes that are not ordered, every one of which has another such producer, so the walk can only end where it has been |
| `AdmissionIsExact` | `[]AdmitsExactly` | along a chain the place in the order goes down, so a graph that was ordered has no cycle; `Within` is what paths reach, and reaches no further after `N` rounds (`LevelIsReach`, `LevelsSettle`) |
| `AdmittedIsRanked` | admitted graphs satisfy `GraphAssumption` on `Rank` and `Deps` | the place in the order is the rank |
| `StoreTypes` | `[]TypeOK` (`StoreFile`) | inductive: the write lock is held exactly by the process that is about to commit |
| `VersionsMatch` | `[]VersionMatchesTables` | `SchemaInv`: a process that is to commit read the version the file still has (`Opening`), because `Migrate` fails on a table that exists and nobody else commits while it holds the lock |
| `RunsHaveOneGraph` | `[]OneGraphPerRun` | `GraphInv`: a process past `store_graph` holds the content stored for its revision, and one that acts, the revision of its run (`Bound`); neither row ever changes |

*Recursive definitions.*  The prover's induction rules take an operator as a
parameter and cannot be used.  Where a proof needs induction over numbers (the
searches of `GraphAdmission`, the sum of `WithinTotal`) it takes the least
counterexample instead: a nonempty set of natural numbers has a least element
(`LeastNat`).

*Model-checked only.*  All liveness (`DriveSettles`, `VerdictResumes`, `RunReturns`,
`TalkersDrained`, `AdmissionEnds`), which is out of the prover's reach, and the three
properties of section 4's table, which do not hold.  `Hop`, the recursive function behind
the lineage of a budget, is an opaque guard in the proofs: `RunBudget` is about the
claims of the run itself.

## 6. Not modelled

- contracts, digests, schema validation, the command line: data formats and
  checks without state;
- the `artifacts` table of the store: only tests fill it;
- a failure of the machine: the artifact files are not synced, the store is
  (`src/store/mod.rs:727`), so a sealed attempt may name a file that did not reach
  the disk;
- revocation in `Controller`: a checking node whose pinned receipt was revoked is
  never accepted and is picked first by every step (`src/controller/mod.rs:246`).
  With revocation as one more command of the operator, `ResumeAfterDeath` outgrows
  what TLC can check in minutes; `AcceptsOnLiveEvidence` covers the ledger's side;
- of the code adapter, everything except the order in which `capture` looks.  In
  `Evidence` a capture does not fail, and `name_status`, `untracked` and the reading of
  the files are one look; in `Verification` a freeze or a verifier may fail instead;
- in `GraphAdmission`, more than one target (`src/contracts/graph.rs:74` has a list), and a
  producer listed twice, since `declared` is a set: such a graph is refused anyway
  (`src/contracts/node.rs:387`, `src/graph/mod.rs:360`);
- in `VerifierHost`, a read error that ends a reader before the output does
  (`src/verifier_host/mod.rs:437`), and a `kill_tree` that fails (`:470`);
- `status` and `packet` of the controller: they only read;
- what section 7 plans.

## 7. Plan

In this order:

1. `Controller` against the other modules: the outcomes it lets `Execute` and
   `Answer` choose from are those `Verification` and `VerifierHost` can return, as
   a theorem about their results.
2. `LedgerLog`: the ledger with the event log itself, replay at the start of every
   transaction, implementing `Ledger` with `node` the fold of the log.
3. The lineage of a budget: what `Hop` reaches, and that the ancestors a claim
   counts are those of `RunAssumption`.
4. `Narrowing`: `pending_narrowing` over sequences of decisions, joined to the
   `check_narrowing` of `Evidence`.
5. The boundary of expiry in `receipts::admit` against `deps::admissible`.
