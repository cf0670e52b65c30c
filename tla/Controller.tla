----------------------------- MODULE Controller -----------------------------
(***************************************************************************)
(* The local run workflow of src/src/controller/mod.rs: processes that run *)
(* `run step` or `run drive` against one store.  A process reads the log,  *)
(* verifies a sealed attempt or claims and executes a node, and follows    *)
(* each result up, in several ledger transactions with file and child      *)
(* process work between them.  Every change to the store is an action of   *)
(* Ledger; between any two of them the process can die, be overtaken by    *)
(* another process or by an operator, or see time pass.  Three operators   *)
(* have a faulty twin before them, as in Ledger.                           *)
(***************************************************************************)
EXTENDS Ledger

CONSTANTS
    Kind,          \* "patch" or "check": how a node's result is produced
    Document,      \* position of a node in the graph document
    GateExpiry,    \* gate_expiry: when the packets it opens expire
    MaxDeaths,     \* bound on the processes that die
    Operator       \* the commands an operator gives

ASSUME ControllerAssumption ==
    /\ Kind \in [Nodes -> {"patch", "check"}]
    /\ Document \in [Nodes -> Nat]
    /\ \A m, n \in Nodes : Document[m] = Document[n] => m = n
    /\ GateExpiry \in Expiries
    /\ MaxDeaths \in Nat
    /\ Operator \subseteq {"cancel", "decide", "reclaim", "retry"}
    /\ Times # {}
    /\ \A c \in Controllers : MaxActive[c] = 1    \* what Scheduler::new sets
    /\ Forever \in Validities                    \* of the receipts it issues

VARIABLES
    pc,       \* what each process does next
    job,      \* what it remembers: its run, its clock and the work in hand
    clock,    \* the time of day
    deaths    \* processes that died so far

procVars == <<pc, job, clock, deaths>>
allVars == <<vars, procVars>>

Stages == {"off", "ready", "claim", "execute", "verify", "admit", "retry",
           "gate"}

NoRef == [run |-> NoRun, node |-> NoRun, number |-> None]
NoJob == [run |-> NoRun, now |-> 0, work |-> NoRef, verdict |-> "reject"]

JobType ==
    [run : Runs \cup {NoRun}, now : Times \cup {0}, work : Refs \cup {NoRef},
     verdict : Verdicts]

CInit ==
    /\ Init
    /\ pc = [c \in Controllers |-> "off"]
    /\ job = [c \in Controllers |-> NoJob]
    /\ clock \in {t \in Times : \A u \in Times : t <= u}
    /\ deaths = 0

At(c, s) == pc[c] = s

(* Process c goes on to stage s, remembering j.                            *)
Goto(c, s, j) ==
    /\ pc' = [pc EXCEPT ![c] = s]
    /\ job' = [job EXCEPT ![c] = j]
    /\ UNCHANGED <<clock, deaths>>

Exit(c) == Goto(c, "off", NoJob)

FreshJob(c, r, now) == [NoJob EXCEPT !.run = r, !.now = now]

(* The step is done: `run step` and a drive at its limit end, any other    *)
(* drive goes on with the clock it was given.                              *)
StepDone(c) ==
    \/ Exit(c)
    \/ Goto(c, "ready", FreshJob(c, job[c].run, job[c].now))

WorkOnPrevious(c, ref) == [job[c] EXCEPT !.work = [ref EXCEPT !.number = @ - 1]]

WorkOn(c, ref) == [job[c] EXCEPT !.work = ref]

-----------------------------------------------------------------------------
(* A new process opens the run and reads the clock, once.                  *)
Start(c, r) ==
    /\ At(c, "off")
    /\ r \in created
    /\ Goto(c, "ready", FreshJob(c, r, clock))
    /\ UNCHANGED vars

Checking(r) == {n \in Nodes : node[r][n].checking}

ResumeNothing(r) == {}

(* The sealed attempt a step resumes: that of the first checking node of   *)
(* the graph document.                                                     *)
Resume(r) ==
    {[run |-> r, node |-> n, number |-> node[r][n].current] :
        n \in {m \in Checking(r) :
                 \A x \in Checking(r) : Document[m] <= Document[x]}}

(* step_inner replays the log and picks what to do, in a later transaction *)
ReadLog(c) ==
    LET r == job[c].run IN
    /\ At(c, "ready")
    /\ \/ ~Replays(r) /\ Exit(c)
       \/ Replays(r) /\ Resume(r) = {} /\ Goto(c, "claim", job[c])
       \/ /\ Replays(r)
          /\ \E ref \in Resume(r) : Goto(c, "verify", WorkOn(c, ref))
    /\ UNCHANGED vars

(* Busy, budget exhausted, nothing ready or an error ends the drive.       *)
Claim(c) ==
    LET r == job[c].run IN
    /\ At(c, "claim")
    /\ \/ /\ ClaimNext(r, c, job[c].now)
          /\ \E row \in claims' \ claims : Goto(c, "execute", WorkOn(c, RefOf(row)))
       \/ ~MayClaim(r, c, job[c].now) /\ Exit(c) /\ UNCHANGED vars

(* The claim row process c was handed.                                     *)
Row(c) == CHOOSE row \in claims : RefOf(row) = job[c].work

(* execute_claim seals the attempt: it failed to freeze its evidence or    *)
(* its verifier process failed, it captured a patch that is verified next, *)
(* or its verifier reported verdict v.  A stale claim ends the process.    *)
Execute(c) ==
    LET w == job[c].work IN
    /\ At(c, "execute")
    /\ \/ /\ Complete(Row(c), "failed")
          /\ Goto(c, "retry", job[c])
       \/ /\ Kind[w.node] = "patch"
          /\ Complete(Row(c), "completed")
          /\ Goto(c, "verify", job[c])
       \/ /\ Kind[w.node] = "check"
          /\ Complete(Row(c), "timed_out")
          /\ Goto(c, "retry", job[c])
       \/ /\ Kind[w.node] = "check"
          /\ Complete(Row(c), "completed")
          /\ \E v \in Verdicts : Goto(c, "admit", [job[c] EXCEPT !.verdict = v])
       \/ /\ ~(Held(Row(c)) /\ Replays(w.run))
          /\ Exit(c)
          /\ UNCHANGED vars

(* verify_and_admit: the verifier process answers with a verdict, or fails *)
(* and leaves the attempt sealed for the next step.                        *)
Answer(c) ==
    /\ At(c, "verify")
    /\ \E v \in Verdicts : Goto(c, "admit", [job[c] EXCEPT !.verdict = v])
    /\ UNCHANGED vars

NoAnswer(c) == At(c, "verify") /\ StepDone(c) /\ UNCHANGED vars

AfterRejectDone(c, v) == StepDone(c)

(* What admit_response does once the verdict is recorded.                  *)
AfterAdmission(c, v) ==
    \/ v = "accept" /\ StepDone(c)
    \/ v = "reject" /\ Goto(c, "retry", job[c])
    \/ v = "undecidable" /\ Goto(c, "gate", job[c])

(* The controller issues receipts that do not expire.                      *)
Admit(c) ==
    LET w == job[c].work
        v == job[c].verdict IN
    /\ At(c, "admit")
    /\ \/ /\ AdmitReceipt(w.run, w.node, w.number, v, Forever, job[c].now)
          /\ AfterAdmission(c, v)
       \/ /\ ~MayAdmit(w.run, w.node, w.number, v, Forever, job[c].now)
          /\ Exit(c)
          /\ UNCHANGED vars

(* `retry` asks for whatever outcome its node has by now.                  *)
HasOutcome(r, n) == Replays(r) /\ node[r][n].status \in {"rejected", "failed"}

MayPolicy(r, n, now) ==
    HasOutcome(r, n) /\ (RetryPermitted(r, n, now) \/ Exhausted(r, n, now))

Retry(c) ==
    LET w == job[c].work
        now == job[c].now IN
    /\ At(c, "retry")
    /\ \/ ApplyRetryPolicy(w.run, w.node, now) /\ StepDone(c)
       \/ /\ HasOutcome(w.run, w.node)
          /\ Exhausted(w.run, w.node, now)
          /\ OnExhaustion[w.node] = "gate"
          /\ Goto(c, "gate", job[c])
          /\ UNCHANGED vars
       \/ ~MayPolicy(w.run, w.node, now) /\ Exit(c) /\ UNCHANGED vars

(* A packet that would have expired by the process's clock is an error.    *)
Gate(c) ==
    LET w == job[c].work
        now == job[c].now IN
    /\ At(c, "gate")
    /\ \/ OpenResolveWork(w.run, w.node, now, GateExpiry) /\ StepDone(c)
       \/ /\ ~MayGate(w.run, w.node, now, GateExpiry)
          /\ Exit(c)
          /\ UNCHANGED vars

Step(c) ==
    \/ ReadLog(c)
    \/ Claim(c)
    \/ Execute(c)
    \/ Answer(c)
    \/ NoAnswer(c)
    \/ Admit(c)
    \/ Retry(c)
    \/ Gate(c)

(* Process c is killed, or an error outside the ledger (no profile, an     *)
(* artifact it cannot read or write) ends it between two transactions.     *)
Die(c) ==
    /\ ~At(c, "off")
    /\ deaths < MaxDeaths
    /\ deaths' = deaths + 1
    /\ pc' = [pc EXCEPT ![c] = "off"]
    /\ job' = [job EXCEPT ![c] = NoJob]
    /\ UNCHANGED <<vars, clock>>

Tick ==
    /\ clock' \in {t \in Times : t > clock}
    /\ UNCHANGED <<vars, pc, job, deaths>>

(* What operators do beside the processes: `run create`, `run cancel`, and *)
(* the library calls of the M2 guide.  A decision names its packet's node. *)
Operate ==
    /\ \E r \in Runs, n \in Nodes :
          \/ CreateRun(r)
          \/ "cancel" \in Operator /\ Cancel(r, n)
          \/ "reclaim" \in Operator /\ Reclaim(r, n)
          \/ "retry" \in Operator /\ ApplyRetryPolicy(r, n, clock)
          \/ /\ "decide" \in Operator
             /\ \E p \in packets, d \in DecisionKinds :
                  p.run = r /\ p.node = n /\ AdmitDecision(p, n, d)
    /\ UNCHANGED procVars

CNext ==
    \/ \E c \in Controllers : \/ \E r \in Runs : Start(c, r)
                              \/ Step(c)
                              \/ Die(c)
    \/ Tick
    \/ Operate

CSpec == CInit /\ [][CNext]_allVars

(* A process that is running goes on, someone keeps starting processes on  *)
(* a run that exists, and a verifier that is asked again and again answers *)
(* sometime.                                                               *)
Fairness ==
    /\ \A c \in Controllers : WF_allVars(Step(c)) /\ SF_allVars(Answer(c))
    /\ \A r \in Runs : WF_allVars(CreateRun(r) /\ UNCHANGED procVars)
    /\ WF_allVars(\E c \in Controllers, r \in Runs : Start(c, r))

FairSpec == CSpec /\ Fairness

-----------------------------------------------------------------------------
(* Every process is at a stage and remembers a job of its type.            *)
CTypeOK ==
    /\ pc \in [Controllers -> Stages]
    /\ job \in [Controllers -> JobType]
    /\ clock \in Times
    /\ deaths \in 0..MaxDeaths

(* Work that ended without acceptance and that nothing in the ledger leads *)
(* on from: no retry, no cancellation and no gate packet to decide on.     *)
Stopped(r, n) ==
    LET s == node[r][n] IN
    \/ s.status \in {"rejected", "failed"}
    \/ s.status = "gated" /\ s.gate = None

(* An operator took the claim of the node's attempt away.                  *)
TakenAway(r, n) ==
    \E row \in claims : /\ RefOf(row) = [run |-> r, node |-> n,
                                        number |-> node[r][n].current]
                       /\ row.release = "reclaimed"

(* A process is about to lead the node on.                                 *)
Followed(r, n) ==
    \E c \in Controllers :
        /\ pc[c] \in {"retry", "gate"}
        /\ job[c].work.run = r /\ job[c].work.node = n

(* All that is left for the node is a gate packet, and every packet the    *)
(* controllers could open by now has expired.                              *)
GateClosed(r, n) ==
    /\ GateExpiry <= clock
    /\ \/ node[r][n].status = "gated"
       \/ OnExhaustion[n] = "gate" /\ Exhausted(r, n, clock)

(* While no process has died, stopped work is in the hands of the process  *)
(* that stopped it: every path of execute_claim and admit_response goes on *)
(* to the retry policy or the gate packet, whatever another process or an  *)
(* operator does in between.  Reclaimed work is the operator's, and work   *)
(* that needs a packet is dropped once gate_expiry has passed.             *)
FollowedUp ==
    deaths = 0 =>
        \A r \in Runs \ broken, n \in Nodes :
            Stopped(r, n) /\ ~TakenAway(r, n) /\ ~GateClosed(r, n) =>
                Followed(r, n)

(* The controller runs one node at a time: of the processes executing a    *)
(* claim they still hold there is at most one in the whole store, and it   *)
(* is the one the claim names as its owner.                                *)
OneAtATime ==
    LET busy == {c \in Controllers : At(c, "execute") /\ Held(Row(c))} IN
    /\ Cardinality(busy) <= 1
    /\ \A c \in busy : Row(c).owner = c

(* A sealed attempt gets its verdict, or its node is cancelled, even when  *)
(* the process that sealed it died: a fresh process resumes it before it   *)
(* claims more work, as long as the run's log replays.                     *)
VerdictResumes ==
    \A r \in Runs, n \in Nodes :
        node[r][n].checking ~> ~node[r][n].checking \/ r \in broken

(* Nothing is left to do for node n of run r without an operator.          *)
Settled(r, n) ==
    LET s == node[r][n] IN
    \/ s.status \in {"accepted", "cancelled"}
    \/ s.gate # None
    \/ Stopped(r, n) /\ GateClosed(r, n)
    \/ /\ s.status = "open"
       /\ \/ BudgetExhausted(r, clock)
          \/ \E d \in Deps[n] : ~AcceptedHere(r, d)

(* `run drive`, started as often as it takes, brings a run to rest when no *)
(* process dies: every node is accepted, cancelled, waits for a decision   *)
(* on its packet, cannot start, or needs a packet after gate_expiry.  Only *)
(* a log that no longer replays stops it.                                  *)
DriveSettles ==
    <>[](\A r \in Runs, n \in Nodes : Settled(r, n) \/ r \in broken)

(* A fresh process resumes where the ledger says the run is: work that     *)
(* stopped does not stay stopped, even if a process died on the way.       *)
StoppedWorkGoesOn ==
    \A r \in Runs, n \in Nodes : Stopped(r, n) ~> ~Stopped(r, n)
=============================================================================
