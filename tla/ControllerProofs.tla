-------------------------- MODULE ControllerProofs --------------------------
(***************************************************************************)
(* Theorems about the processes of Controller, for every value of its      *)
(* constants: any number of processes, runs, nodes and deaths.             *)
(*                                                                         *)
(* The processes share the store and nothing else, so the argument is in   *)
(* two parts: what a process remembers never disagrees with the ledger     *)
(* (JobInv), and every step is then a transaction of the ledger, which     *)
(* keeps the ledger's own invariants.                                      *)
(***************************************************************************)
EXTENDS Controller, LedgerSafetyProofs

(* What holds of the tables whoever runs the transactions.                 *)
LedgerInv == Typed /\ TablesInv /\ ViewInv /\ BudgetInv

LEMMA LedgerInvInit == Init => LedgerInv
BY TypedHolds, TablesInvInit, BudgetInvInit
   DEF LedgerInv, Init, ViewInv, Viewable, OpenState

LEMMA LedgerInvKept == LedgerInv /\ [Next]_vars => LedgerInv'
BY TypedKept, TablesInvKept, ViewInvKept, BudgetInvKept DEF LedgerInv

(* Stages in which a process has an attempt in hand.                       *)
Working == {"execute", "verify", "admit", "retry", "gate"}

(* Stage s and memory j suit process c over the claims table rows: it runs *)
(* on a run and a clock that exist, the attempt in hand was claimed, and   *)
(* while it executes the claim is its own.                                 *)
JobFits(c, s, j, rows) ==
    /\ s \in Stages /\ j \in JobType
    /\ s # "off" => j.run \in Runs /\ j.now \in Times
    /\ s \in Working => j.work \in Keys(rows)
    /\ s = "execute" => \E row \in rows : RefOf(row) = j.work /\ row.owner = c

JobInv ==
    /\ CTypeOK
    /\ \A c \in Controllers : JobFits(c, pc[c], job[c], claims)

LEMMA JobInvInit == CInit => JobInv
BY ControllerAssumption, CallerAssumption
   DEF CInit, JobInv, CTypeOK, JobFits, Stages, JobType, NoJob, Working, Verdicts

-----------------------------------------------------------------------------
(* Every step of a process is a transaction.                               *)

(* The claim a process executes is the one it was handed.                  *)
LEMMA RowInHand ==
    ASSUME LedgerInv, JobInv, NEW c \in Controllers, pc[c] = "execute"
    PROVE  Row(c) \in claims /\ RefOf(Row(c)) = job[c].work /\ Row(c).owner = c
<1>1. PICK row \in claims : RefOf(row) = job[c].work /\ row.owner = c
  BY DEF JobInv, JobFits
<1>2. \A x \in claims : RefOf(x) = job[c].work => x = row
  BY <1>1 DEF LedgerInv, TablesInv, SealInv, ClaimInv, OneClaimPerAttempt
<1>3. QED
  BY <1>1, <1>2 DEF Row

(* The attempt in hand is one of a run and a node.                         *)
LEMMA WorkInHand ==
    ASSUME LedgerInv, JobInv, NEW c \in Controllers, pc[c] \in Working
    PROVE  /\ job[c].work \in Keys(claims) /\ job[c].work \in Refs
           /\ job[c].work.run \in Runs /\ job[c].work.node \in Nodes
           /\ job[c].now \in Times /\ job[c].verdict \in Verdicts
<1>1. JobFits(c, pc[c], job[c], claims) /\ Keys(claims) \subseteq Refs
  BY KeysAreRefs DEF JobInv, LedgerInv, Typed
<1>2. QED
  BY <1>1 DEF JobFits, Working, JobType, Refs

LEMMA StepIsTransaction ==
    ASSUME LedgerInv, JobInv, [CNext]_allVars
    PROVE  [Next]_vars
<1>1. CASE UNCHANGED allVars
  BY <1>1 DEF allVars
<1>2. ASSUME NEW c \in Controllers, Claim(c) PROVE [Next]_vars
  <2>1. job[c].run \in Runs /\ job[c].now \in Times
    BY <1>2 DEF JobInv, JobFits, Claim, At
  <2>2. QED
    BY <1>2, <2>1 DEF Claim, Next
<1>3. ASSUME NEW c \in Controllers, Execute(c) PROVE [Next]_vars
  <2>1. Row(c) \in claims
    BY <1>3, RowInHand DEF Execute, At
  <2>2. {"failed", "completed", "timed_out"} \subseteq Outcomes
    BY DEF Outcomes
  <2>3. QED
    BY <1>3, <2>1, <2>2 DEF Execute, Next
<1>4. ASSUME NEW c \in Controllers, Admit(c) PROVE [Next]_vars
  <2> DEFINE w == job[c].work
  <2>1. /\ w.run \in Runs /\ w.node \in Nodes /\ job[c].now \in Times
        /\ job[c].verdict \in Verdicts /\ Forever \in Validities
    BY <1>4, WorkInHand, ControllerAssumption DEF Admit, At, Working
  <2>2. CASE AdmitReceipt(w.run, w.node, w.number, job[c].verdict, Forever, job[c].now)
    <3>1. w.number = node[w.run][w.node].current
      BY <2>2 DEF AdmitReceipt, MayAdmit
    <3>2. QED
      BY <2>1, <2>2, <3>1 DEF Next
  <2>3. QED
    BY <1>4, <2>2 DEF Admit
<1>5. ASSUME NEW c \in Controllers, Retry(c) PROVE [Next]_vars
  BY <1>5, WorkInHand DEF Retry, At, Working, Next
<1>6. ASSUME NEW c \in Controllers, Gate(c) PROVE [Next]_vars
  BY <1>6, WorkInHand, ControllerAssumption DEF Gate, At, Working, Next
<1>7. CASE Operate
  <2>1. PICK r \in Runs, n \in Nodes :
           \/ CreateRun(r)
           \/ Cancel(r, n)
           \/ Reclaim(r, n)
           \/ ApplyRetryPolicy(r, n, clock)
           \/ \E p \in packets, d \in DecisionKinds : AdmitDecision(p, n, d)
    BY <1>7 DEF Operate
  <2>2. clock \in Times
    BY DEF JobInv, CTypeOK
  <2>3. QED
    BY <2>1, <2>2 DEF Next
<1>8. QED
  BY <1>1, <1>2, <1>3, <1>4, <1>5, <1>6, <1>7
     DEF CNext, Step, Start, ReadLog, Answer, NoAnswer, Die, Tick

-----------------------------------------------------------------------------
(* What a process remembers stays true of the ledger.                      *)

(* A claim row keeps its attempt and its owner, and its release once it    *)
(* has one, whoever runs the next transaction.                             *)
LEMMA RowsStay ==
    ASSUME Typed, [Next]_vars, NEW row \in claims
    PROVE  \E x \in claims' :
              /\ RefOf(x) = RefOf(row) /\ x.owner = row.owner
              /\ row.release # "held" => x.release = row.release
<1>1. ASSUME NEW rows \in SUBSET claims,
             NEW how \in {"completed", "cancelled", "reclaimed"},
             claims' = Release(rows, how),
             \A d \in rows : d.release = "held"
      PROVE  \E x \in claims' :
                /\ RefOf(x) = RefOf(row) /\ x.owner = row.owner
                /\ row.release # "held" => x.release = row.release
  <2> DEFINE x == Moved(row, rows, how)
  <2>1. /\ x \in claims'
        /\ x.run = row.run /\ x.node = row.node /\ x.number = row.number
        /\ x.owner = row.owner
    BY <1>1, ReleaseMovesRows DEF Typed
  <2>2. row.release # "held" => x = row
    BY <1>1 DEF Moved
  <2> HIDE DEF x
  <2>3. QED
    BY <2>1, <2>2 DEF RefOf
<1>2. CASE claims' = claims
  BY <1>2
<1>3. ASSUME NEW r \in Runs, NEW c \in Controllers, NEW now \in Times,
             ClaimNext(r, c, now)
      PROVE  row \in claims'
  BY <1>3, ClaimStep
<1>4. ASSUME NEW c \in claims, NEW o \in Outcomes,
             NEW how \in {"completed", "reclaimed"}, c.release = "held",
             SealAndRelease(c, o, how)
      PROVE  \E rows \in SUBSET claims :
                claims' = Release(rows, how) /\ \A d \in rows : d.release = "held"
  <2>1. PICK rows \in SUBSET claims : rows = {c}
    OBVIOUS
  <2>2. claims' = Release(rows, how)
    BY <1>4, <2>1, SealStep
  <2>3. QED
    BY <1>4, <2>1, <2>2
<1>5. ASSUME NEW r \in Runs, NEW n \in Nodes, Cancel(r, n)
      PROVE  \E rows \in SUBSET claims :
                /\ claims' = Release(rows, "cancelled")
                /\ \A d \in rows : d.release = "held"
  <2>1. claims' = Release(ActiveOn(r, n), "cancelled")
    BY <1>5, CancelStep
  <2>2. QED
    BY <2>1 DEF ActiveOn, Active
<1>6. QED
  BY <1>1, <1>2, <1>3, <1>4, <1>5, ClaimsAndAttempts

LEMMA JobStillFits ==
    ASSUME Typed, [Next]_vars, NEW c, NEW s, NEW j, JobFits(c, s, j, claims)
    PROVE  JobFits(c, s, j, claims')
<1>1. Keys(claims) \subseteq Keys(claims')
  BY RowsStay DEF Keys
<1>2. s = "execute" => \E x \in claims' : RefOf(x) = j.work /\ x.owner = c
  <2>1. SUFFICES ASSUME s = "execute"
                 PROVE  \E x \in claims' : RefOf(x) = j.work /\ x.owner = c
    OBVIOUS
  <2>2. PICK row \in claims : RefOf(row) = j.work /\ row.owner = c
    BY <2>1 DEF JobFits
  <2>3. QED
    BY <2>2, RowsStay
<1>3. QED
  BY <1>1, <1>2 DEF JobFits

(* Process c goes on to stage s with memory j.                             *)
Moves(c, s, j) ==
    /\ pc' = [pc EXCEPT ![c] = s] /\ job' = [job EXCEPT ![c] = j]

(* What every step does to the processes.                                  *)
ProcessesMove ==
    /\ clock' \in Times /\ deaths' \in 0..MaxDeaths
    /\ \/ UNCHANGED <<pc, job>>
       \/ \E c \in Controllers, s \in Stages, j \in JobType :
             Moves(c, s, j) /\ JobFits(c, s, j, claims')

LEMMA JobInvFollows ==
    ASSUME Typed, JobInv, [Next]_vars, ProcessesMove
    PROVE  JobInv'
<1>1. \A d \in Controllers : JobFits(d, pc[d], job[d], claims')
  BY JobStillFits DEF JobInv
<1>2. /\ pc \in [Controllers -> Stages] /\ job \in [Controllers -> JobType]
  BY DEF JobInv, CTypeOK
<1>3. CASE UNCHANGED <<pc, job>>
  <2>1. \A d \in Controllers : JobFits(d, pc'[d], job'[d], claims')
    BY <1>1, <1>3
  <2>2. CTypeOK'
    BY <1>2, <1>3 DEF CTypeOK, ProcessesMove
  <2>3. QED
    BY <2>1, <2>2 DEF JobInv
<1>4. ASSUME NEW c \in Controllers, NEW s \in Stages, NEW j \in JobType,
             Moves(c, s, j), JobFits(c, s, j, claims')
      PROVE  JobInv'
  <2>1. CTypeOK'
    BY <1>2, <1>4 DEF CTypeOK, Moves, ProcessesMove
  <2>2. ASSUME NEW d \in Controllers PROVE JobFits(d, pc'[d], job'[d], claims')
    <3>1. CASE d = c
      <4>1. pc'[d] = s /\ job'[d] = j
        BY <1>2, <1>4, <3>1 DEF Moves
      <4>2. QED
        BY <1>4, <3>1, <4>1
    <3>2. CASE d # c
      <4>1. pc'[d] = pc[d] /\ job'[d] = job[d]
        BY <1>2, <1>4, <3>2 DEF Moves
      <4>2. QED
        BY <1>1, <4>1
    <3>3. QED
      BY <3>1, <3>2
  <2>3. QED
    BY <2>1, <2>2 DEF JobInv
<1>5. QED
  BY <1>3, <1>4 DEF ProcessesMove

LEMMA GotoMoves ==
    ASSUME JobInv, NEW c \in Controllers, NEW s, NEW j, Goto(c, s, j),
           JobFits(c, s, j, claims')
    PROVE  ProcessesMove
BY DEF Goto, ProcessesMove, Moves, JobInv, CTypeOK, JobFits

LEMMA ExitMoves ==
    ASSUME JobInv, NEW c \in Controllers, Exit(c)
    PROVE  ProcessesMove
<1>1. JobFits(c, "off", NoJob, claims')
  BY DEF JobFits, Stages, Working, JobType, NoJob, Verdicts
<1>2. QED
  BY <1>1, GotoMoves DEF Exit

LEMMA FreshFits ==
    ASSUME NEW c, NEW r \in Runs, NEW now \in Times, NEW rows
    PROVE  JobFits(c, "ready", FreshJob(c, r, now), rows)
<1> DEFINE j == FreshJob(c, r, now)
<1>1. NoJob \in JobType
  BY DEF NoJob, JobType, Verdicts
<1>2. j \in JobType /\ j.run = r /\ j.now = now
  BY <1>1 DEF FreshJob, JobType
<1> HIDE DEF j
<1>3. JobFits(c, "ready", j, rows)
  BY <1>2 DEF JobFits, Stages, Working
<1>4. QED
  BY <1>3 DEF j

LEMMA StepDoneMoves ==
    ASSUME JobInv, NEW c \in Controllers, pc[c] # "off", StepDone(c)
    PROVE  ProcessesMove
<1>1. job[c].run \in Runs /\ job[c].now \in Times
  BY DEF JobInv, JobFits
<1>2. QED
  BY <1>1, ExitMoves, FreshFits, GotoMoves DEF StepDone

(* A process goes on with the attempt ref in hand, or hears verdict v.     *)
LEMMA WorkFits ==
    ASSUME JobInv, NEW c \in Controllers, pc[c] # "off",
           NEW rows, NEW ref \in Keys(rows), ref \in Refs,
           NEW s \in Working \ {"execute"}
    PROVE  JobFits(c, s, WorkOn(c, ref), rows)
<1>1. JobFits(c, pc[c], job[c], claims)
  BY DEF JobInv
<1>2. /\ WorkOn(c, ref) \in JobType /\ WorkOn(c, ref).work = ref
      /\ WorkOn(c, ref).run = job[c].run /\ WorkOn(c, ref).now = job[c].now
  BY <1>1 DEF WorkOn, JobFits, JobType
<1>3. s \in Stages /\ s # "off" /\ s # "execute"
  BY DEF Working, Stages
<1>4. QED
  BY <1>1, <1>2, <1>3 DEF JobFits

LEMMA VerdictFits ==
    ASSUME Typed, JobInv, [Next]_vars, NEW c \in Controllers, pc[c] \in Working,
           NEW v \in Verdicts
    PROVE  JobFits(c, "admit", [job[c] EXCEPT !.verdict = v], claims')
<1> DEFINE j == [job[c] EXCEPT !.verdict = v]
<1>1. JobFits(c, pc[c], job[c], claims')
  BY JobStillFits DEF JobInv
<1>2. pc[c] # "off"
  BY DEF Working
<1>3. /\ j \in JobType /\ j.work = job[c].work
      /\ j.run = job[c].run /\ j.now = job[c].now
  BY <1>1 DEF JobFits, JobType
<1> HIDE DEF j
<1>4. JobFits(c, "admit", j, claims')
  BY <1>1, <1>2, <1>3 DEF JobFits, Stages
<1>5. QED
  BY <1>4 DEF j

(* It keeps the attempt it has for the next stage.                         *)
LEMMA SameWorkFits ==
    ASSUME Typed, JobInv, [Next]_vars, NEW c \in Controllers, pc[c] \in Working,
           NEW s \in Working \ {"execute"}
    PROVE  JobFits(c, s, job[c], claims')
<1>1. JobFits(c, pc[c], job[c], claims')
  BY JobStillFits DEF JobInv
<1>2. pc[c] # "off" /\ s \in Stages /\ s # "execute"
  BY DEF Working, Stages
<1>3. QED
  BY <1>1, <1>2 DEF JobFits

(* A resumed attempt was sealed under a claim.                             *)
LEMMA ResumedWasClaimed ==
    ASSUME LedgerInv, NEW r \in Runs, NEW ref \in Resume(r)
    PROVE  ref \in Keys(claims) /\ ref \in Refs
<1>1. PICK n \in Nodes : node[r][n].checking /\ ref = CurrentRef(r, n)
  BY DEF Resume, Checking, CurrentRef
<1>2. CurrentRef(r, n) \in Keys(attempts)
  BY <1>1 DEF LedgerInv, TablesInv, VerdictInv, OneVerdictPerAttempt, CurrentRef,
              Keys
<1>3. ref \in Keys(claims)
  BY <1>1, <1>2 DEF LedgerInv, TablesInv, SealInv, SealedUnderClaim, Keys
<1>4. QED
  BY <1>3, KeysAreRefs DEF LedgerInv, Typed

LEMMA ReadLogMoves ==
    ASSUME LedgerInv, JobInv, NEW c \in Controllers, ReadLog(c)
    PROVE  ProcessesMove
<1>1. JobFits(c, pc[c], job[c], claims) /\ pc[c] = "ready" /\ claims' = claims
  BY DEF JobInv, ReadLog, At, vars
<1>2. CASE Exit(c)
  BY <1>2, ExitMoves
<1>3. CASE Goto(c, "claim", job[c])
  <2>1. JobFits(c, "claim", job[c], claims')
    BY <1>1 DEF JobFits, Stages, Working
  <2>2. QED
    BY <1>3, <2>1, GotoMoves
<1>4. ASSUME NEW ref \in Resume(job[c].run), Goto(c, "verify", WorkOn(c, ref))
      PROVE  ProcessesMove
  <2>1. job[c].run \in Runs
    BY <1>1 DEF JobFits
  <2>2. ref \in Keys(claims) /\ ref \in Refs
    BY <2>1, ResumedWasClaimed
  <2>3. pc[c] # "off" /\ "verify" \in Working \ {"execute"}
    BY <1>1 DEF Working
  <2>4. JobFits(c, "verify", WorkOn(c, ref), claims)
    BY <2>2, <2>3, WorkFits
  <2>5. JobFits(c, "verify", WorkOn(c, ref), claims')
    BY <1>1, <2>4
  <2>6. QED
    BY <1>4, <2>5, GotoMoves
<1>5. QED
  BY <1>2, <1>3, <1>4 DEF ReadLog

(* The one row a claim adds is its process's.                              *)
LEMMA ClaimedIsOwn ==
    ASSUME LedgerInv, NEW r \in Runs, NEW c \in Controllers, NEW now \in Times,
           ClaimNext(r, c, now), NEW row \in claims' \ claims
    PROVE  row.owner = c
BY DEF ClaimNext

LEMMA ClaimMoves ==
    ASSUME LedgerInv, JobInv, [Next]_vars, NEW c \in Controllers, Claim(c)
    PROVE  ProcessesMove
<1>1. JobFits(c, pc[c], job[c], claims) /\ pc[c] = "claim"
  BY DEF JobInv, Claim, At
<1>2. job[c].run \in Runs /\ job[c].now \in Times
  BY <1>1 DEF JobFits
<1>3. CASE Exit(c)
  BY <1>3, ExitMoves
<1>4. ASSUME NEW row \in claims' \ claims, ClaimNext(job[c].run, c, job[c].now),
             Goto(c, "execute", WorkOn(c, RefOf(row)))
      PROVE  ProcessesMove
  <2> DEFINE j == WorkOn(c, RefOf(row))
  <2>1. row.owner = c /\ RefOf(row) \in Keys(claims')
    BY <1>2, <1>4, ClaimedIsOwn DEF Keys
  <2>2. RefOf(row) \in Refs
    BY <2>1, TypedKept, KeysAreRefs DEF LedgerInv, Typed, TypeOK, Keys, RefOf,
       Refs, ClaimType
  <2>3. j \in JobType /\ j.work = RefOf(row) /\ j.run = job[c].run /\ j.now = job[c].now
    BY <1>1, <2>2 DEF WorkOn, JobFits, JobType
  <2> HIDE DEF j
  <2>4. JobFits(c, "execute", j, claims')
    BY <1>2, <2>1, <2>3 DEF JobFits, Stages
  <2>5. QED
    BY <1>4, <2>4, GotoMoves DEF j
<1>5. QED
  BY <1>3, <1>4 DEF Claim

LEMMA JobInvKept ==
    ASSUME LedgerInv, JobInv, [CNext]_allVars
    PROVE  JobInv'
<1>1. Typed /\ [Next]_vars
  BY StepIsTransaction DEF LedgerInv
<1>2. /\ clock \in Times /\ deaths \in 0..MaxDeaths /\ MaxDeaths \in Nat
  BY ControllerAssumption DEF JobInv, CTypeOK
<1>3. SUFFICES ProcessesMove
  BY <1>1, JobInvFollows
<1>4. CASE UNCHANGED allVars \/ Tick \/ Operate
  BY <1>2, <1>4 DEF ProcessesMove, allVars, procVars, Tick, Operate
<1>5. ASSUME NEW c \in Controllers, NEW r \in Runs, Start(c, r)
      PROVE  ProcessesMove
  BY <1>2, <1>5, FreshFits, GotoMoves DEF Start
<1>6. ASSUME NEW c \in Controllers, ReadLog(c) PROVE ProcessesMove
  BY <1>6, ReadLogMoves
<1>7. ASSUME NEW c \in Controllers, Claim(c) PROVE ProcessesMove
  BY <1>1, <1>7, ClaimMoves
<1>8. {"admit", "verify", "retry", "gate"} \subseteq Working \ {"execute"}
  BY DEF Working
<1>9. ASSUME NEW c \in Controllers, Execute(c) PROVE ProcessesMove
  <2>1. pc[c] \in Working
    BY <1>9 DEF Execute, At, Working
  <2>2. ASSUME NEW s \in {"retry", "verify"}, Goto(c, s, job[c])
        PROVE  ProcessesMove
    BY <1>1, <1>8, <2>1, <2>2, SameWorkFits, GotoMoves
  <2>3. ASSUME NEW v \in Verdicts, Goto(c, "admit", [job[c] EXCEPT !.verdict = v])
        PROVE  ProcessesMove
    BY <1>1, <2>1, <2>3, VerdictFits, GotoMoves
  <2>4. QED
    BY <1>9, <2>2, <2>3, ExitMoves DEF Execute
<1>10. ASSUME NEW c \in Controllers, Answer(c) PROVE ProcessesMove
  <2>1. pc[c] \in Working
    BY <1>10 DEF Answer, At, Working
  <2>2. QED
    BY <1>1, <1>10, <2>1, VerdictFits, GotoMoves DEF Answer
<1>11. ASSUME NEW c \in Controllers, NoAnswer(c) PROVE ProcessesMove
  BY <1>11, StepDoneMoves DEF NoAnswer, At
<1>12. ASSUME NEW c \in Controllers, Admit(c) PROVE ProcessesMove
  <2>1. pc[c] \in Working /\ pc[c] # "off"
    BY <1>12 DEF Admit, At, Working
  <2>2. ASSUME NEW s \in {"retry", "gate"}, Goto(c, s, job[c])
        PROVE  ProcessesMove
    BY <1>1, <1>8, <2>1, <2>2, SameWorkFits, GotoMoves
  <2>3. QED
    BY <1>12, <2>1, <2>2, ExitMoves, StepDoneMoves DEF Admit, AfterAdmission
<1>13. ASSUME NEW c \in Controllers, Retry(c) PROVE ProcessesMove
  <2>1. pc[c] \in Working /\ pc[c] # "off"
    BY <1>13 DEF Retry, At, Working
  <2>2. ASSUME Goto(c, "gate", job[c]) PROVE ProcessesMove
    BY <1>1, <1>8, <2>1, <2>2, SameWorkFits, GotoMoves
  <2>3. QED
    BY <1>13, <2>1, <2>2, ExitMoves, StepDoneMoves DEF Retry
<1>14. ASSUME NEW c \in Controllers, Gate(c) PROVE ProcessesMove
  BY <1>14, ExitMoves, StepDoneMoves DEF Gate, At
<1>15. ASSUME NEW c \in Controllers, Die(c) PROVE ProcessesMove
  <2>1. JobFits(c, "off", NoJob, claims')
    BY DEF JobFits, Stages, Working, JobType, NoJob, Verdicts
  <2>2. "off" \in Stages /\ NoJob \in JobType
    BY <2>1 DEF JobFits
  <2>3. clock' \in Times /\ deaths' \in 0..MaxDeaths
    BY <1>2, <1>15 DEF Die
  <2>4. Moves(c, "off", NoJob)
    BY <1>15 DEF Die, Moves
  <2>5. QED
    BY <2>1, <2>2, <2>3, <2>4 DEF ProcessesMove
<1>16. QED
  BY <1>4, <1>5, <1>6, <1>7, <1>9, <1>10, <1>11, <1>12, <1>13, <1>14, <1>15
     DEF CNext, Step

(* Together: the ledger's invariants and the processes' own.               *)
StoreInv == LedgerInv /\ JobInv

LEMMA StoreInvInit == CInit => StoreInv
BY LedgerInvInit, JobInvInit DEF StoreInv, CInit

LEMMA StoreInvKept == StoreInv /\ [CNext]_allVars => StoreInv'
BY StepIsTransaction, LedgerInvKept, JobInvKept DEF StoreInv

(* Every process is always at a stage of its type and remembers a job of   *)
(* its type.                                                               *)
THEOREM ProcessesTyped == CSpec => []CTypeOK
<1>1. StoreInv => CTypeOK
  BY DEF StoreInv, JobInv
<1>2. QED
  BY <1>1, StoreInvInit, StoreInvKept, PTL DEF CSpec

(* The controller implements the ledger: whatever processes do, die or     *)
(* are overtaken by, what the store sees is a sequence of the ledger's     *)
(* transactions, so every theorem about Spec holds of CSpec.               *)
THEOREM ControllerUsesLedger == CSpec => Spec
<1>1. CInit => Init
  BY DEF CInit
<1>2. StoreInv /\ [CNext]_allVars => [Next]_vars
  BY StepIsTransaction DEF StoreInv
<1>3. QED
  BY <1>1, <1>2, StoreInvInit, StoreInvKept, PTL DEF CSpec, Spec

-----------------------------------------------------------------------------
(* One node at a time.                                                     *)

LoneClaim == \A x, y \in Active : x = y

(* A transaction leaves at most the active claims there were, or finds     *)
(* none and adds one.                                                      *)
LEMMA LoneClaimKept ==
    ASSUME LedgerInv, LoneClaim, [Next]_vars
    PROVE  LoneClaim'
<1> USE DEF LedgerInv
<1>1. ASSUME NEW rows \in SUBSET claims, NEW how \in {"completed", "cancelled", "reclaimed"},
             claims' = Release(rows, how)
      PROVE  LoneClaim'
  <2>1. \A x \in claims' : x.release = "held" => x \in Active
    <3>1. ASSUME NEW x \in claims', x.release = "held" PROVE x \in Active
      <4>1. PICK d \in claims :
               /\ x.release = IF d \in rows THEN how ELSE d.release
               /\ d \notin rows => x = d
        BY <1>1, ReleaseDeactivates
      <4>2. QED
        BY <3>1, <4>1 DEF Active
    <3>2. QED
      BY <3>1
  <2>2. QED
    BY <2>1 DEF LoneClaim, Active
<1>2. ASSUME NEW r \in Runs, NEW c \in Controllers, NEW now \in Times,
             ClaimNext(r, c, now)
      PROVE  LoneClaim'
  <2>1. Active = {}
    <3>1. ~(Cardinality(Active) >= 1)
      BY <1>2, ControllerAssumption DEF ClaimNext, MayClaim, AtCap
    <3>2. Active \in SUBSET claims
      BY DEF Active
    <3>3. IsFiniteSet(Active) /\ Cardinality(Active) \in Nat
      BY <3>2, FS_Subset, FS_CardinalityType DEF BudgetInv
    <3>4. Cardinality(Active) = 0
      BY <3>1, <3>3
    <3>5. QED
      BY <3>3, <3>4, FS_EmptySet
  <2>2. PICK row : claims' = claims \cup {row}
    BY <1>2, ClaimStep
  <2>3. QED
    BY <2>1, <2>2 DEF LoneClaim, Active
<1>3. CASE claims' = claims
  BY <1>3 DEF LoneClaim, Active
<1>4. QED
  BY <1>1, <1>2, <1>3, ClaimRowsPersist

LEMMA LoneClaimInit == Init => LoneClaim
BY DEF Init, LoneClaim, Active

LEMMA OneProcessExecutes ==
    ASSUME StoreInv, LoneClaim
    PROVE  OneAtATime
<1> DEFINE busy == {c \in Controllers : At(c, "execute") /\ Held(Row(c))}
<1>1. \A c \in busy : Row(c) \in Active /\ Row(c).owner = c
  BY RowInHand DEF StoreInv, At, Held, Active
<1>2. \A c, d \in busy : c = d
  BY <1>1 DEF LoneClaim
<1> HIDE DEF busy
<1>3. Cardinality(busy) <= 1
  <2>1. CASE busy = {}
    BY <2>1, FS_EmptySet
  <2>2. CASE busy # {}
    <3>1. PICK c : busy = {c}
      BY <1>2, <2>2
    <3>2. QED
      BY <3>1, FS_Singleton
  <2>3. QED
    BY <2>1, <2>2
<1>4. QED
  BY <1>1, <1>3 DEF OneAtATime, busy

(* Of all processes executing a claim they still hold there is at most one *)
(* in the whole store, and the claim names it as its owner: the cap is     *)
(* counted over every run's claims in the transaction that adds one, and a *)
(* dead process leaves its claim to be reclaimed.                          *)
THEOREM OneNodeAtATime == CSpec => []OneAtATime
<1>1. CInit => StoreInv /\ LoneClaim
  BY StoreInvInit, LoneClaimInit DEF CInit
<1>2. StoreInv /\ LoneClaim /\ [CNext]_allVars => (StoreInv /\ LoneClaim)'
  BY StoreInvKept, StepIsTransaction, LoneClaimKept DEF StoreInv
<1>3. StoreInv /\ LoneClaim => OneAtATime
  BY OneProcessExecutes
<1>4. QED
  BY <1>1, <1>2, <1>3, PTL DEF CSpec

-----------------------------------------------------------------------------
(* Stopped work.                                                           *)

(* The only transactions that stop work are the end of an attempt and a    *)
(* verdict, of the node they are about; this one stops none.               *)
StopsNothing ==
    \A r \in Runs, n \in Nodes : Stopped(r, n)' => node'[r][n] = node[r][n]

(* This one stops node n of run r at most.                                 *)
StopsOnly(r, n) ==
    \A s \in Runs, m \in Nodes :
        Stopped(s, m)' => node'[s][m] = node[s][m] \/ (s = r /\ m = n)

LEMMA OthersDoNotStop ==
    ASSUME NEW r, NEW n, OthersStay(r, n)
    PROVE  StopsOnly(r, n) /\ (~Stopped(r, n)' => StopsNothing)
<1>1. StopsOnly(r, n)
  BY DEF OthersStay, StopsOnly
<1>2. ~Stopped(r, n)' => StopsNothing
  BY <1>1 DEF StopsOnly, StopsNothing
<1>3. QED
  BY <1>1, <1>2

LEMMA ClaimStopsNothing ==
    ASSUME Typed, NEW r \in Runs, NEW c \in Controllers, NEW now \in Times,
           ClaimNext(r, c, now)
    PROVE  StopsNothing
<1>1. PICK n \in Nodes :
         /\ node'[r][n] = AfterDispatch(node[r][n], node[r][n].started + 1)
         /\ OthersStay(r, n)
  BY ClaimStep
<1>2. ~Stopped(r, n)'
  BY <1>1 DEF AfterDispatch, Stopped
<1>3. QED
  BY <1>1, <1>2, OthersDoNotStop

LEMMA CancelStopsNothing ==
    ASSUME Typed, NEW r \in Runs, NEW n \in Nodes, Cancel(r, n)
    PROVE  StopsNothing
<1>1. /\ node[r][n] \in NodeStateType /\ node'[r][n] = AfterCancel(node[r][n])
      /\ OthersStay(r, n)
  BY CancelStep
<1>2. ~Stopped(r, n)'
  BY <1>1 DEF AfterCancel, Stopped, NodeStateType
<1>3. QED
  BY <1>1, <1>2, OthersDoNotStop

LEMMA RetryStopsNothing ==
    ASSUME Typed, NEW r \in Runs, NEW n \in Nodes, NEW now \in Times,
           ApplyRetryPolicy(r, n, now)
    PROVE  StopsNothing /\ ~Stopped(r, n)'
<1>1. /\ node[r][n] \in NodeStateType
      /\ \/ node'[r][n] = AfterRetry(node[r][n])
         \/ node'[r][n] = AfterCancel(node[r][n])
      /\ OthersStay(r, n)
  BY RetryStep
<1>2. ~Stopped(r, n)'
  BY <1>1 DEF AfterRetry, AfterCancel, Stopped, NodeStateType
<1>3. QED
  BY <1>1, <1>2, OthersDoNotStop

LEMMA GateStopsNothing ==
    ASSUME Typed, NEW r \in Runs, NEW n \in Nodes,
           NEW now \in Times, NEW expires \in Expiries,
           OpenResolveWork(r, n, now, expires)
    PROVE  StopsNothing /\ ~Stopped(r, n)'
<1>1. /\ node[r][n] \in NodeStateType /\ node[r][n].current # None
      /\ node'[r][n] = AfterGate(node[r][n], node[r][n].current)
      /\ OthersStay(r, n)
  BY GateStep
<1>2. ~Stopped(r, n)'
  BY <1>1 DEF AfterGate, Stopped, NodeStateType
<1>3. QED
  BY <1>1, <1>2, OthersDoNotStop

LEMMA DecisionStopsNothing ==
    ASSUME Typed, NEW p \in packets, NEW m \in Nodes, NEW d \in DecisionKinds,
           AdmitDecision(p, m, d)
    PROVE  StopsNothing
<1>1. CASE node' = node
  BY <1>1 DEF StopsNothing
<1>2. CASE /\ node[p.run][m] \in NodeStateType
           /\ node'[p.run][m] = AfterDecision(node[p.run][m], d)
           /\ OthersStay(p.run, m)
  <2>1. ~Stopped(p.run, m)'
    BY <1>2 DEF AfterDecision, Stopped, NodeStateType
  <2>2. QED
    BY <1>2, <2>1, OthersDoNotStop
<1>3. QED
  BY <1>1, <1>2, DecisionStep

(* What ends an attempt keeps it current; what is stopped then failed.     *)
LEMMA SealStops ==
    ASSUME Typed, NEW c \in claims, NEW o \in Outcomes,
           NEW how \in {"completed", "reclaimed"}, SealAndRelease(c, o, how)
    PROVE  /\ StopsOnly(c.run, c.node)
           /\ Stopped(c.run, c.node)' =>
                 /\ o \in {"failed", "timed_out"}
                 /\ node'[c.run][c.node].status = "failed"
           /\ CurrentRef(c.run, c.node) = RefOf(c)
           /\ CurrentRef(c.run, c.node)' = RefOf(c)
<1>1. /\ node[c.run][c.node] \in NodeStateType
      /\ node[c.run][c.node].status = "running"
      /\ node[c.run][c.node].current = c.number
      /\ node'[c.run][c.node] = AfterExecution(node[c.run][c.node], o)
      /\ OthersStay(c.run, c.node)
  BY SealStep
<1>2. /\ node'[c.run][c.node].current = c.number
      /\ Stopped(c.run, c.node)' =>
            /\ o \in {"failed", "timed_out"}
            /\ node'[c.run][c.node].status = "failed"
  BY <1>1 DEF AfterExecution, Outcomes, Stopped, NodeStateType
<1>3. QED
  BY <1>1, <1>2, OthersDoNotStop DEF CurrentRef, RefOf

LEMMA AdmitStops ==
    ASSUME Typed, NEW r \in Runs, NEW n \in Nodes, NEW v \in Verdicts,
           NEW until \in Validities, NEW now \in Times,
           AdmitReceipt(r, n, node[r][n].current, v, until, now)
    PROVE  /\ StopsOnly(r, n)
           /\ v = "accept" => ~Stopped(r, n)'
           /\ v = "reject" => node'[r][n].status = "rejected"
           /\ v = "undecidable" => node'[r][n].status = "gated"
           /\ CurrentRef(r, n)' = CurrentRef(r, n)
<1>1. /\ node[r][n] \in NodeStateType
      /\ node'[r][n] = AfterVerdict(node[r][n], node[r][n].current, v)
      /\ OthersStay(r, n)
  BY AdmitStep
<1>2. /\ node'[r][n].current = node[r][n].current
      /\ node'[r][n].status \in {"accepted", "rejected", "gated"}
      /\ node'[r][n].status = "accepted" <=> v = "accept"
      /\ node'[r][n].status = "gated" <=> v = "undecidable"
  BY <1>1, VerdictMoves
<1>3. v = "accept" => ~Stopped(r, n)'
  BY <1>2 DEF Stopped
<1>4. /\ v = "reject" => node'[r][n].status = "rejected"
      /\ v = "undecidable" => node'[r][n].status = "gated"
  BY <1>2
<1>5. CurrentRef(r, n)' = CurrentRef(r, n)
  BY <1>2 DEF CurrentRef
<1>6. StopsOnly(r, n)
  BY <1>1, OthersDoNotStop
<1>7. QED
  BY <1>3, <1>4, <1>5, <1>6

(* Stopped work has a sealed attempt that no packet presents yet.          *)
StoppedUnpresented ==
    \A r \in Runs, n \in Nodes :
        Stopped(r, n) => CurrentRef(r, n) \in Keys(attempts) \ Keys(packets)

(* Every claimed run is stored, and so are the runs of its lineage.        *)
ClaimedRunsKnown ==
    \A row \in claims : row.run \in created /\ LineageKnown(row.run)

FollowInv == StoppedUnpresented /\ ClaimedRunsKnown

(* What an open packet presents is not stopped any more.                   *)
LEMMA PacketsOpen ==
    ASSUME Typed, [Next]_vars, NEW r \in Runs, NEW n \in Nodes, Stopped(r, n)',
           CurrentRef(r, n) \notin Keys(packets)
    PROVE  CurrentRef(r, n) \notin Keys(packets')
<1>1. ASSUME NEW s \in Runs, NEW m \in Nodes, NEW now \in Times,
             NEW expires \in Expiries, OpenResolveWork(s, m, now, expires)
      PROVE  CurrentRef(r, n) \notin Keys(packets')
  <2>1. PICK p : RefOf(p) = CurrentRef(s, m) /\ packets' = packets \cup {p}
    BY <1>1, GateStep
  <2>2. ~(s = r /\ m = n)
    BY <1>1, GateStopsNothing
  <2>3. CurrentRef(r, n) # CurrentRef(s, m)
    BY <2>2 DEF CurrentRef
  <2>4. QED
    BY <2>1, <2>3 DEF Keys
<1>2. CASE packets' = packets
  BY <1>2
<1>3. QED
  BY <1>1, <1>2
     DEF Next, CreateRun, ClaimNext, Complete, Cancel, Reclaim, SealAndRelease,
         AdmitReceipt, ApplyRetryPolicy, AdmitDecision, RevokeReceipt, vars

LEMMA StoppedUnpresentedKept ==
    ASSUME LedgerInv, StoppedUnpresented, [Next]_vars
    PROVE  StoppedUnpresented'
<1> USE DEF LedgerInv
<1>1. SUFFICES ASSUME NEW r \in Runs, NEW n \in Nodes, Stopped(r, n)'
               PROVE  CurrentRef(r, n)' \in Keys(attempts') \ Keys(packets')
  BY DEF StoppedUnpresented
<1>2. Keys(attempts) \subseteq Keys(attempts')
  BY TablesGrow DEF Keys
<1>3. CASE node'[r][n] = node[r][n]
  <2>1. Stopped(r, n) /\ CurrentRef(r, n)' = CurrentRef(r, n)
    BY <1>1, <1>3 DEF Stopped, CurrentRef
  <2>2. CurrentRef(r, n) \in Keys(attempts) \ Keys(packets)
    BY <2>1 DEF StoppedUnpresented
  <2>3. QED
    BY <1>1, <1>2, <2>1, <2>2, PacketsOpen
<1>4. ASSUME node[r][n].status = "running", CurrentRef(r, n) \in Keys(attempts'),
             CurrentRef(r, n)' = CurrentRef(r, n)
      PROVE  CurrentRef(r, n)' \in Keys(attempts') \ Keys(packets')
  <2>1. CurrentRef(r, n) \notin Keys(packets)
    BY <1>4 DEF TablesInv, PacketInv, RunningUnpresented
  <2>2. QED
    BY <1>1, <1>4, <2>1, PacketsOpen
<1>5. ASSUME NEW c \in claims, NEW o \in Outcomes,
             NEW how \in {"completed", "reclaimed"}, SealAndRelease(c, o, how),
             node'[r][n] # node[r][n]
      PROVE  CurrentRef(r, n)' \in Keys(attempts') \ Keys(packets')
  <2>1. c.run = r /\ c.node = n
    BY <1>1, <1>5, SealStops DEF StopsOnly
  <2>2. /\ CurrentRef(r, n)' = RefOf(c) /\ CurrentRef(r, n) = RefOf(c)
        /\ node[r][n].status = "running"
    <3>1. /\ CurrentRef(c.run, c.node) = RefOf(c)
          /\ CurrentRef(c.run, c.node)' = RefOf(c)
      BY <1>5, SealStops
    <3>2. node[c.run][c.node].status = "running"
      BY <1>5, SealStep
    <3>3. QED
      BY <2>1, <3>1, <3>2 DEF CurrentRef
  <2>3. PICK a : RefOf(a) = RefOf(c) /\ attempts' = attempts \cup {a}
    BY <1>5, SealStep
  <2>4. CurrentRef(r, n) \in Keys(attempts')
    BY <2>2, <2>3 DEF Keys
  <2>5. QED
    BY <1>4, <2>2, <2>4
<1>6. ASSUME NEW s \in Runs, NEW m \in Nodes, NEW v \in Verdicts,
             NEW until \in Validities, NEW now \in Times,
             AdmitReceipt(s, m, node[s][m].current, v, until, now),
             node'[r][n] # node[r][n]
      PROVE  CurrentRef(r, n)' \in Keys(attempts') \ Keys(packets')
  <2>1. s = r /\ m = n
    BY <1>1, <1>6, AdmitStops DEF StopsOnly
  <2>2. CurrentRef(r, n)' = CurrentRef(r, n) /\ node[r][n].status = "running"
    BY <1>6, <2>1, AdmitStops, AdmitStep
  <2>3. \E a \in attempts : RefOf(a) = CurrentRef(r, n)
    BY <1>6, <2>1, AdmitStep
  <2>4. CurrentRef(r, n) \in Keys(attempts')
    BY <1>2, <2>3 DEF Keys
  <2>5. QED
    BY <1>4, <2>2, <2>4
<1>7. CASE node'[r][n] # node[r][n]
  <2>1. ~StopsNothing
    BY <1>1, <1>7 DEF StopsNothing
  <2>2. /\ \A c \in Runs, m \in Nodes : ~Cancel(c, m)
        /\ \A c \in Runs, m \in Nodes, now \in Times, expires \in Expiries :
              ~OpenResolveWork(c, m, now, expires)
    BY <2>1, CancelStopsNothing, GateStopsNothing
  <2>3. /\ \A s \in Runs, c \in Controllers, now \in Times : ~ClaimNext(s, c, now)
        /\ \A s \in Runs, m \in Nodes, now \in Times : ~ApplyRetryPolicy(s, m, now)
        /\ \A p \in packets, m \in Nodes, d \in DecisionKinds : ~AdmitDecision(p, m, d)
    BY <2>1, ClaimStopsNothing, RetryStopsNothing, DecisionStopsNothing
  <2>4. ASSUME NEW s \in Runs, NEW m \in Nodes, Reclaim(s, m)
        PROVE  CurrentRef(r, n)' \in Keys(attempts') \ Keys(packets')
    <3>1. PICK c \in ActiveOn(s, m) : SealAndRelease(c, "failed", "reclaimed")
      BY <2>4 DEF Reclaim
    <3>2. c \in claims /\ "failed" \in Outcomes
      BY DEF ActiveOn, Active, Outcomes
    <3>3. QED
      BY <1>5, <1>7, <3>1, <3>2
  <2>5. node' # node
    BY <1>7
  <2>6. QED
    BY <1>5, <1>6, <1>7, <2>2, <2>3, <2>4, <2>5
       DEF Next, Complete, CreateRun, RevokeReceipt, vars
<1>8. QED
  BY <1>3, <1>7

LEMMA ClaimedRunsKnownKept ==
    ASSUME LedgerInv, ClaimedRunsKnown, [Next]_vars
    PROVE  ClaimedRunsKnown'
<1> USE DEF LedgerInv
<1>1. created \subseteq created'
  BY DEF Next, CreateRun, ClaimNext, Complete, Cancel, Reclaim, SealAndRelease,
         AdmitReceipt, ApplyRetryPolicy, OpenResolveWork, AdmitDecision,
         RevokeReceipt, vars
<1>2. \A r : LineageKnown(r) => LineageKnown(r)'
  BY <1>1 DEF LineageKnown, Ancestors
<1>3. ASSUME NEW rows \in SUBSET claims,
             NEW how \in {"completed", "cancelled", "reclaimed"},
             claims' = Release(rows, how), NEW x \in claims'
      PROVE  \E d \in claims : x.run = d.run
  BY <1>3, ReleaseDeactivates
<1>4. ASSUME NEW r \in Runs, NEW c \in Controllers, NEW now \in Times,
             ClaimNext(r, c, now), NEW x \in claims'
      PROVE  x.run \in created /\ LineageKnown(x.run)
  <2>1. PICK row : row.run = r /\ claims' = claims \cup {row}
    BY <1>4, ClaimStep
  <2>2. r \in created /\ LineageKnown(r)
    BY <1>4 DEF ClaimNext, MayClaim, Replays
  <2>3. QED
    BY <1>4, <2>1, <2>2 DEF ClaimedRunsKnown
<1>5. ASSUME NEW x \in claims' PROVE x.run \in created /\ LineageKnown(x.run)
  BY <1>3, <1>4, <1>5, ClaimRowsPersist DEF ClaimedRunsKnown
<1>6. QED
  BY <1>1, <1>2, <1>5 DEF ClaimedRunsKnown

LEMMA FollowInvInit == Init => FollowInv
BY DEF Init, FollowInv, StoppedUnpresented, ClaimedRunsKnown, Stopped, OpenState

LEMMA FollowInvKept == LedgerInv /\ FollowInv /\ [Next]_vars => FollowInv'
BY StoppedUnpresentedKept, ClaimedRunsKnownKept DEF FollowInv

-----------------------------------------------------------------------------
(* Stopped work is followed up.                                            *)

WorksOn(c, r, n) == job[c].work.run = r /\ job[c].work.node = n

(* All that is left for the node is a gate packet.                         *)
NeedsPacket(r, n) ==
    \/ node[r][n].status = "gated"
    \/ OnExhaustion[n] = "gate" /\ Exhausted(r, n, clock)

(* A process will lead the node on: it is about to apply the retry policy  *)
(* to an outcome the policy is about, or to open the gate that is all that *)
(* is left.                                                                *)
InHand(r, n) ==
    \E c \in Controllers :
        /\ WorksOn(c, r, n)
        /\ \/ pc[c] = "retry" /\ node[r][n].status # "gated"
           \/ pc[c] = "gate" /\ NeedsPacket(r, n)

HandedOn ==
    deaths = 0 =>
        \A r \in Runs \ broken, n \in Nodes :
            Stopped(r, n) /\ ~TakenAway(r, n) /\ ~GateClosed(r, n) =>
                InHand(r, n)

LEMMA GotoSets ==
    ASSUME JobInv, NEW c \in Controllers, NEW s, NEW j, Goto(c, s, j)
    PROVE  /\ pc'[c] = s /\ job'[c] = j
           /\ \A d \in Controllers : d # c => pc'[d] = pc[d] /\ job'[d] = job[d]
BY DEF Goto, JobInv, CTypeOK

(* The run of stopped work is stored, and so is its lineage.               *)
LEMMA StoppedRunKnown ==
    ASSUME LedgerInv, FollowInv, NEW r \in Runs, NEW n \in Nodes, Stopped(r, n)
    PROVE  r \in created /\ LineageKnown(r)
<1>1. PICK a \in attempts : RefOf(a) = CurrentRef(r, n)
  BY DEF FollowInv, StoppedUnpresented, Keys
<1>2. PICK row \in claims : RefOf(row) = CurrentRef(r, n)
  BY <1>1 DEF LedgerInv, TablesInv, SealInv, SealedUnderClaim
<1>3. row.run = r
  BY <1>2 DEF RefOf, CurrentRef
<1>4. QED
  BY <1>3 DEF FollowInv, ClaimedRunsKnown

(* The retry policy answers for every outcome of a run that replays.       *)
LEMMA PolicyApplies ==
    ASSUME LedgerInv, FollowInv, NEW r \in Runs \ broken, NEW n \in Nodes, NEW now,
           node[r][n].status \in {"rejected", "failed"}
    PROVE  MayPolicy(r, n, now)
<1>1. r \in created /\ LineageKnown(r)
  BY StoppedRunKnown DEF Stopped
<1>2. QED
  BY <1>1 DEF MayPolicy, HasOutcome, Replays, RetryPermitted, Exhausted

(* Stopped work can be gated until gate_expiry: its attempt is sealed and  *)
(* in no packet.                                                           *)
LEMMA GateApplies ==
    ASSUME LedgerInv, FollowInv, NEW r \in Runs \ broken, NEW n \in Nodes,
           Stopped(r, n), NEW now, now < GateExpiry
    PROVE  MayGate(r, n, now, GateExpiry)
<1> DEFINE k == node[r][n].current
<1>1. Replays(r)
  BY StoppedRunKnown DEF Replays
<1>2. k # None
  BY DEF LedgerInv, ViewInv, Viewable, Stopped
<1>3. [run |-> r, node |-> n, number |-> k] \in Keys(attempts) \ Keys(packets)
  BY DEF FollowInv, StoppedUnpresented, CurrentRef
<1>4. Legal(node[r][n], GateOpened(k))
  BY DEF Legal, GateOpened, Stopped
<1>5. QED
  BY <1>1, <1>2, <1>3, <1>4 DEF MayGate

(* Only its own steps and its death move a process.                        *)
LEMMA OnlyItselfMoves ==
    ASSUME StoreInv, [CNext]_allVars, deaths' = deaths,
           NEW c \in Controllers, pc[c] \in {"retry", "gate"}
    PROVE  (pc'[c] = pc[c] /\ job'[c] = job[c]) \/ Retry(c) \/ Gate(c)
<1> USE DEF StoreInv
<1>1. ASSUME NEW d \in Controllers, NEW s, NEW j, Goto(d, s, j), d # c
      PROVE  pc'[c] = pc[c] /\ job'[c] = job[c]
  BY <1>1, GotoSets
<1>2. ASSUME NEW d \in Controllers, d # c, \/ \E r \in Runs : Start(d, r)
                                           \/ Step(d)
      PROVE  pc'[c] = pc[c] /\ job'[c] = job[c]
  BY <1>1, <1>2 DEF Start, Step, ReadLog, Claim, Execute, Answer, NoAnswer,
     Admit, Retry, Gate, AfterAdmission, StepDone, Exit
<1>3. ASSUME \/ \E r \in Runs : Start(c, r)
             \/ Step(c)
      PROVE  Retry(c) \/ Gate(c)
  BY <1>3 DEF Start, Step, ReadLog, Claim, Execute, Answer, NoAnswer, Admit, At
<1>4. ASSUME NEW d \in Controllers PROVE ~Die(d)
  BY DEF Die, JobInv, CTypeOK
<1>5. CASE UNCHANGED allVars \/ Tick \/ Operate
  BY <1>5 DEF allVars, procVars, Tick, Operate
<1>6. QED
  BY <1>2, <1>3, <1>4, <1>5 DEF CNext

(* Processes read the clock before they act and time only passes.          *)
NowInv == \A c \in Controllers : job[c].now <= clock

LEMMA NowIsNumber ==
    ASSUME JobInv
    PROVE  \A c \in Controllers : job[c].now \in Nat
<1>1. \A j \in JobType : j.now \in Times \cup {0}
  BY DEF JobType
<1>2. \A c \in Controllers : job[c] \in JobType
  BY DEF JobInv, CTypeOK
<1>3. ASSUME NEW t \in Times \cup {0} PROVE t \in Nat
  BY CallerAssumption
<1>4. ASSUME NEW c \in Controllers PROVE job[c].now \in Nat
  <2>1. job[c].now \in Times \cup {0}
    BY <1>1, <1>2
  <2>2. QED
    BY <1>3, <2>1
<1>5. QED
  BY <1>4

LEMMA NowInvInit == CInit => NowInv
<1>1. \A t \in Times : t \in Nat
  BY CallerAssumption
<1>2. QED
  BY <1>1 DEF CInit, NowInv, NoJob

LEMMA GotoKeepsNow ==
    ASSUME JobInv, NowInv, NEW c \in Controllers, NEW s, NEW j, Goto(c, s, j),
           j.now = job[c].now \/ j.now = clock \/ j.now = 0
    PROVE  NowInv'
<1>1. clock' = clock /\ clock \in Nat
  BY CallerAssumption DEF Goto, JobInv, CTypeOK
<1>2. job'[c] = j /\ \A d \in Controllers : d # c => job'[d] = job[d]
  BY GotoSets
<1>3. j.now <= clock
  BY <1>1 DEF NowInv
<1>4. QED
  BY <1>1, <1>2, <1>3 DEF NowInv

LEMMA StepDoneKeepsNow ==
    ASSUME JobInv, NowInv, NEW c \in Controllers, StepDone(c) \/ Exit(c)
    PROVE  NowInv'
<1>1. NoJob.now = 0
  BY DEF NoJob
<1>2. FreshJob(c, job[c].run, job[c].now).now = job[c].now
  BY DEF FreshJob, NoJob
<1>3. QED
  BY <1>1, <1>2, GotoKeepsNow DEF StepDone, Exit

LEMMA NowInvKept ==
    ASSUME JobInv, NowInv, [CNext]_allVars
    PROVE  NowInv' /\ clock <= clock'
<1>1. clock \in Nat /\ Times \subseteq Nat
  BY CallerAssumption DEF JobInv, CTypeOK
<1>2. \A c \in Controllers : job[c] \in JobType
  BY DEF JobInv, CTypeOK
<1>3. CASE UNCHANGED procVars
  BY <1>1, <1>3 DEF NowInv, procVars
<1>4. CASE Tick
  <2>1. clock' \in Nat /\ clock <= clock' /\ job' = job
    BY <1>1, <1>4 DEF Tick
  <2>2. \A c \in Controllers : job[c].now \in Nat
    BY NowIsNumber
  <2>3. QED
    BY <1>1, <2>1, <2>2 DEF NowInv
<1>5. ASSUME NEW c \in Controllers, NEW r \in Runs, Start(c, r) PROVE NowInv'
  <2>1. FreshJob(c, r, clock).now = clock
    BY DEF FreshJob, NoJob
  <2>2. QED
    BY <1>5, <2>1, GotoKeepsNow DEF Start
<1>6. ASSUME NEW c \in Controllers, Step(c) PROVE NowInv'
  <2>1. \A ref : WorkOn(c, ref).now = job[c].now
    BY <1>2 DEF WorkOn, JobType
  <2>2. \A v : [job[c] EXCEPT !.verdict = v].now = job[c].now
    BY <1>2 DEF JobType
  <2>3. CASE ReadLog(c) \/ Claim(c)
    BY <2>1, <2>3, GotoKeepsNow, StepDoneKeepsNow DEF ReadLog, Claim
  <2>4. CASE Execute(c) \/ Answer(c)
    BY <2>2, <2>4, GotoKeepsNow, StepDoneKeepsNow DEF Execute, Answer
  <2>5. CASE NoAnswer(c) \/ Admit(c) \/ Retry(c) \/ Gate(c)
    BY <2>5, GotoKeepsNow, StepDoneKeepsNow
       DEF NoAnswer, Admit, AfterAdmission, Retry, Gate
  <2>6. QED
    BY <1>6, <2>3, <2>4, <2>5 DEF Step
<1>7. ASSUME NEW c \in Controllers, Die(c) PROVE NowInv'
  <2>1. /\ clock' = clock /\ job'[c] = NoJob
        /\ \A d \in Controllers : d # c => job'[d] = job[d]
    BY <1>7 DEF Die, JobInv, CTypeOK
  <2>2. NoJob.now = 0
    BY DEF NoJob
  <2>3. QED
    BY <1>1, <2>1, <2>2 DEF NowInv
<1>8. NowInv'
  BY <1>3, <1>4, <1>5, <1>6, <1>7 DEF CNext, Operate, allVars, procVars
<1>9. clock <= clock'
  BY <1>1 DEF CNext, Start, Step, ReadLog, Claim, Execute, Answer, NoAnswer,
     Admit, AfterAdmission, Retry, Gate, StepDone, Exit, Goto, Die, Tick,
     Operate, allVars, procVars
<1>10. QED
  BY <1>8, <1>9

(* What a lineage consumed never shrinks: rows keep their attempts.        *)
LEMMA ConsumedGrows ==
    ASSUME LedgerInv, LedgerInv', [Next]_vars, NEW r \in Runs
    PROVE  /\ Consumed(r) \in Nat /\ Consumed(r)' \in Nat
           /\ Consumed(r) <= Consumed(r)'
<1> DEFINE S == {d \in claims : d.run \in {r} \cup Ancestors(r)}
           T == {d \in claims' : d.run \in {r} \cup Ancestors(r)}
           f == [d \in S |-> CHOOSE x \in T : RefOf(x) = RefOf(d)]
<1>1. ASSUME NEW d \in S PROVE \E x \in T : RefOf(x) = RefOf(d)
  <2>1. PICK x \in claims' : RefOf(x) = RefOf(d)
    BY RowsStay DEF LedgerInv
  <2>2. x.run = d.run
    BY <2>1 DEF RefOf
  <2>3. QED
    BY <2>1, <2>2
<1>2. \A d \in S : f[d] \in T /\ RefOf(f[d]) = RefOf(d)
  BY <1>1
<1>3. \A c, d \in claims : RefOf(c) = RefOf(d) => c = d
  BY DEF LedgerInv, TablesInv, SealInv, ClaimInv, OneClaimPerAttempt
<1> HIDE DEF f
<1>4. f \in [S -> T]
  <2>1. f = [d \in S |-> CHOOSE x \in T : RefOf(x) = RefOf(d)]
    BY DEF f
  <2>2. QED
    BY <1>2, <2>1
<1>5. f \in Injection(S, T)
  BY <1>2, <1>3, <1>4 DEF Injection, IsInjective
<1>6. IsFiniteSet(T)
  <2>1. IsFiniteSet(claims')
    BY DEF LedgerInv, BudgetInv
  <2>2. QED
    BY <2>1, FS_Subset
<1>7. IsFiniteSet(S) /\ Cardinality(S) <= Cardinality(T)
  BY <1>5, <1>6, FS_Injection
<1>8. Cardinality(S) \in Nat /\ Cardinality(T) \in Nat
  BY <1>6, <1>7, FS_CardinalityType
<1>9. Consumed(r) = Cardinality(S) /\ Consumed(r)' = Cardinality(T)
  BY DEF Consumed, Ancestors
<1>10. QED
  BY <1>7, <1>8, <1>9

(* Exhausted work stays exhausted while its node does not move.            *)
LEMMA StaysExhausted ==
    ASSUME LedgerInv, LedgerInv', FollowInv, [Next]_vars,
           NEW r \in Runs, NEW n \in Nodes, Stopped(r, n),
           node'[r][n] = node[r][n], NEW t \in Nat, NEW u \in Nat, t <= u,
           Exhausted(r, n, t)
    PROVE  Exhausted(r, n, u)'
<1>1. attempts \subseteq attempts'
  BY TablesGrow DEF LedgerInv
<1>2. PICK a \in attempts : RefOf(a) = CurrentRef(r, n)
  BY DEF FollowInv, StoppedUnpresented, Keys
<1>3. \A b \in attempts' : RefOf(b) = RefOf(a) => b = a
  BY <1>1, <1>2 DEF LedgerInv, TablesInv, SealInv, SealedUnderClaim
<1>4. FailureClass(r, n)' = FailureClass(r, n)
  <2> DEFINE ref == [run |-> r, node |-> n, number |-> node[r][n].current]
  <2>1. ref \in Keys({x \in attempts : x.outcome = "timed_out"})
           <=> ref \in Keys({x \in attempts' : x.outcome = "timed_out"})
    BY <1>1, <1>2, <1>3 DEF Keys, CurrentRef
  <2>2. Keys({x \in attempts : x.outcome = "timed_out"})' =
           Keys({x \in attempts' : x.outcome = "timed_out"})
    BY DEF Keys, RefOf
  <2>3. QED
    BY <2>1, <2>2 DEF FailureClass
<1>5. CASE ~NodeMayRetry(r, n)
  BY <1>4, <1>5 DEF NodeMayRetry, Exhausted
<1>6. CASE LineageKnown(r) /\ BudgetExhausted(r, t)
  <2>1. created \subseteq created'
    BY DEF Next, CreateRun, ClaimNext, Complete, Cancel, Reclaim, SealAndRelease,
           AdmitReceipt, ApplyRetryPolicy, OpenResolveWork, AdmitDecision,
           RevokeReceipt, vars
  <2>2. LineageKnown(r)'
    BY <1>6, <2>1 DEF LineageKnown, Ancestors
  <2>3. /\ Deadline \in Nat /\ TotalAttempts \in Nat
    BY CallerAssumption, GraphAssumption
  <2>4. BudgetExhausted(r, u)'
    BY <1>6, <2>3, ConsumedGrows DEF BudgetExhausted
  <2>5. QED
    BY <2>2, <2>4 DEF Exhausted
<1>7. QED
  BY <1>5, <1>6 DEF Exhausted

(* So does the need for a packet, by the clock of the process that found   *)
(* it or any later one.                                                    *)
LEMMA StillNeedsPacket ==
    ASSUME StoreInv, FollowInv, NowInv, [CNext]_allVars,
           NEW r \in Runs, NEW n \in Nodes, Stopped(r, n),
           node'[r][n] = node[r][n],
           \/ NeedsPacket(r, n)
           \/ /\ OnExhaustion[n] = "gate"
              /\ \E c \in Controllers : Exhausted(r, n, job[c].now)
    PROVE  NeedsPacket(r, n)'
<1>1. /\ LedgerInv /\ LedgerInv' /\ [Next]_vars
  BY StepIsTransaction, LedgerInvKept DEF StoreInv
<1>2. JobInv /\ JobInv'
  BY JobInvKept DEF StoreInv
<1>3. clock \in Nat /\ clock' \in Nat /\ clock <= clock'
  BY <1>2, NowInvKept, CallerAssumption DEF JobInv, CTypeOK
<1>4. CASE node[r][n].status = "gated"
  BY <1>4 DEF NeedsPacket
<1>5. ASSUME NEW t \in Nat, t <= clock, Exhausted(r, n, t), OnExhaustion[n] = "gate"
      PROVE  NeedsPacket(r, n)'
  <2>1. PICK u \in Nat : u = clock'
    BY <1>3
  <2>2. t <= u
    BY <1>3, <1>5, <2>1
  <2>3. Exhausted(r, n, u)'
    BY <1>1, <1>5, <2>2, StaysExhausted
  <2>4. Exhausted(r, n, clock)'
    BY <2>1, <2>3 DEF Exhausted, BudgetExhausted
  <2>5. QED
    BY <1>5, <2>4 DEF NeedsPacket
<1>6. ASSUME NEW c \in Controllers, Exhausted(r, n, job[c].now),
             OnExhaustion[n] = "gate"
      PROVE  NeedsPacket(r, n)'
  <2>1. job[c].now \in Nat /\ job[c].now <= clock
    BY <1>2, NowIsNumber DEF NowInv
  <2>2. QED
    BY <1>5, <1>6, <2>1
<1>7. QED
  BY <1>3, <1>4, <1>5, <1>6 DEF NeedsPacket

(* Work that was stopped before the step and still is.                     *)
LEMMA StillInHand ==
    ASSUME StoreInv, FollowInv, NowInv, [CNext]_allVars, deaths' = deaths,
           NEW r \in Runs \ broken, NEW n \in Nodes, Stopped(r, n)',
           node'[r][n] = node[r][n], InHand(r, n), ~GateClosed(r, n)'
    PROVE  InHand(r, n)'
<1> USE DEF StoreInv
<1>1. PICK c \in Controllers :
         /\ WorksOn(c, r, n)
         /\ \/ pc[c] = "retry" /\ node[r][n].status # "gated"
            \/ pc[c] = "gate" /\ NeedsPacket(r, n)
  BY DEF InHand
<1>2. Stopped(r, n) /\ Typed
  BY DEF Stopped, LedgerInv
<1>3. job[c].now \in Times /\ GateExpiry \in Expiries
  BY <1>1, WorkInHand, ControllerAssumption DEF Working
<1>4. CASE pc'[c] = pc[c] /\ job'[c] = job[c]
  <2>1. CASE pc[c] = "retry" /\ node[r][n].status # "gated"
    BY <1>1, <1>4, <2>1 DEF InHand, WorksOn
  <2>2. CASE pc[c] = "gate" /\ NeedsPacket(r, n)
    <3>1. NeedsPacket(r, n)'
      BY <1>2, <2>2, StillNeedsPacket
    <3>2. QED
      BY <1>1, <1>4, <2>2, <3>1 DEF InHand, WorksOn
  <2>3. QED
    BY <1>1, <2>1, <2>2
<1>5. CASE Retry(c)
  <2>1. pc[c] = "retry" /\ node[r][n].status \in {"rejected", "failed"}
    BY <1>1, <1>2, <1>5 DEF Retry, At, Stopped
  <2>2. ~ApplyRetryPolicy(r, n, job[c].now)
    BY <1>2, <1>3, RetryStopsNothing
  <2>3. MayPolicy(r, n, job[c].now)
    BY <2>1, PolicyApplies
  <2>4. /\ Exhausted(r, n, job[c].now) /\ OnExhaustion[n] = "gate"
        /\ Goto(c, "gate", job[c])
    BY <1>1, <1>5, <2>2, <2>3 DEF Retry, WorksOn
  <2>5. NeedsPacket(r, n)'
    BY <1>2, <2>4, StillNeedsPacket
  <2>6. pc'[c] = "gate" /\ job'[c] = job[c]
    BY <2>4, GotoSets
  <2>7. QED
    BY <1>1, <2>5, <2>6 DEF InHand, WorksOn
<1>6. CASE Gate(c)
  <2>1. ~OpenResolveWork(r, n, job[c].now, GateExpiry)
    BY <1>2, <1>3, GateStopsNothing
  <2>2. NeedsPacket(r, n)
    BY <1>1, <1>6 DEF Gate, At
  <2>3. NeedsPacket(r, n)'
    BY <1>2, <2>2, StillNeedsPacket
  <2>4. ~(GateExpiry <= clock')
    BY <2>3 DEF GateClosed, NeedsPacket
  <2>5. clock' = clock /\ clock \in Nat /\ GateExpiry \in Nat /\ job[c].now \in Nat
    BY <1>3, <1>6, CallerAssumption
       DEF Gate, StepDone, Exit, Goto, JobInv, CTypeOK
  <2>6. job[c].now < GateExpiry
    BY <2>4, <2>5 DEF NowInv
  <2>7. MayGate(r, n, job[c].now, GateExpiry)
    BY <1>2, <2>6, GateApplies
  <2>8. QED
    BY <1>1, <1>6, <2>1, <2>7 DEF Gate, WorksOn
<1>7. QED
  BY <1>1, <1>4, <1>5, <1>6, OnlyItselfMoves

(* Work a process stops goes on in the hands of that process.              *)
LEMMA StopperFollowsUp ==
    ASSUME StoreInv, [CNext]_allVars, NEW c \in Controllers,
           Execute(c) \/ Admit(c), NEW r \in Runs, NEW n \in Nodes,
           Stopped(r, n)', node'[r][n] # node[r][n]
    PROVE  InHand(r, n)'
<1> USE DEF StoreInv
<1> DEFINE w == job[c].work
<1>1. Typed /\ pc[c] \in Working
  BY DEF LedgerInv, Execute, Admit, At, Working
<1>2. /\ w.run \in Runs /\ w.node \in Nodes /\ job[c].now \in Times
      /\ job[c].verdict \in Verdicts /\ Forever \in Validities
  BY <1>1, WorkInHand, ControllerAssumption
<1>3. ASSUME NEW s \in {"retry", "gate"}, Goto(c, s, job[c]),
             w.run = r, w.node = n,
             s = "gate" <=> node'[r][n].status = "gated"
      PROVE  InHand(r, n)'
  <2>1. pc'[c] = s /\ job'[c] = job[c]
    BY <1>3, GotoSets
  <2>2. s = "gate" => NeedsPacket(r, n)'
    BY <1>3 DEF NeedsPacket
  <2>3. QED
    BY <1>3, <2>1, <2>2 DEF InHand, WorksOn
<1>4. ASSUME NEW o \in Outcomes, Complete(Row(c), o), pc[c] = "execute"
      PROVE  /\ w.run = r /\ w.node = n
             /\ o \in {"failed", "timed_out"}
             /\ node'[r][n].status # "gated"
  <2>1. PICK x \in claims : x = Row(c) /\ RefOf(x) = w
    BY <1>4, RowInHand
  <2>2. SealAndRelease(x, o, "completed")
    BY <1>4, <2>1 DEF Complete
  <2>3. /\ StopsOnly(x.run, x.node)
        /\ Stopped(x.run, x.node)' =>
              /\ o \in {"failed", "timed_out"}
              /\ node'[x.run][x.node].status = "failed"
    BY <1>1, <2>2, SealStops
  <2>4. x.run = r /\ x.node = n
    BY <2>3 DEF StopsOnly
  <2>5. w.run = x.run /\ w.node = x.node
    BY <2>1 DEF RefOf
  <2>6. QED
    BY <2>3, <2>4, <2>5
<1>5. CASE Execute(c)
  <2>1. pc[c] = "execute" /\ {"failed", "completed", "timed_out"} \subseteq Outcomes
    BY <1>5 DEF Execute, At, Outcomes
  <2>2. ~Complete(Row(c), "completed")
    BY <1>4, <2>1
  <2>3. node' # node
    OBVIOUS
  <2>4. Goto(c, "retry", job[c]) /\ \E o \in Outcomes : Complete(Row(c), o)
    BY <1>5, <2>1, <2>2, <2>3 DEF Execute, vars
  <2>5. QED
    BY <1>3, <1>4, <2>1, <2>4
<1>6. CASE Admit(c)
  <2>1. node' # node
    OBVIOUS
  <2>2. /\ AdmitReceipt(w.run, w.node, w.number, job[c].verdict, Forever, job[c].now)
        /\ AfterAdmission(c, job[c].verdict)
    BY <1>6, <2>1 DEF Admit, vars
  <2>3. PICK s \in Runs, m \in Nodes, v \in Verdicts :
           s = w.run /\ m = w.node /\ v = job[c].verdict
    BY <1>2
  <2>4. AdmitReceipt(s, m, node[s][m].current, v, Forever, job[c].now)
    BY <2>2, <2>3 DEF AdmitReceipt, MayAdmit
  <2>5. /\ w.run = r /\ w.node = n /\ job[c].verdict # "accept"
        /\ job[c].verdict = "reject" => node'[r][n].status = "rejected"
        /\ job[c].verdict = "undecidable" => node'[r][n].status = "gated"
    <3>1. /\ StopsOnly(s, m)
          /\ v = "accept" => ~Stopped(s, m)'
          /\ v = "reject" => node'[s][m].status = "rejected"
          /\ v = "undecidable" => node'[s][m].status = "gated"
      BY <1>1, <1>2, <2>4, AdmitStops
    <3>2. s = r /\ m = n
      BY <3>1 DEF StopsOnly
    <3>3. QED
      BY <2>3, <3>1, <3>2
  <2>6. CASE job[c].verdict = "reject"
    BY <1>3, <2>2, <2>5, <2>6 DEF AfterAdmission
  <2>7. CASE job[c].verdict = "undecidable"
    BY <1>3, <2>2, <2>5, <2>7 DEF AfterAdmission
  <2>8. QED
    BY <1>2, <2>5, <2>6, <2>7 DEF Verdicts
<1>7. QED
  BY <1>5, <1>6

(* What an operator stops by reclaiming is marked as taken away.           *)
LEMMA ReclaimTakesAway ==
    ASSUME Typed, NEW s \in Runs, NEW m \in Nodes, Reclaim(s, m),
           NEW r \in Runs, NEW n \in Nodes,
           Stopped(r, n)', node'[r][n] # node[r][n]
    PROVE  TakenAway(r, n)'
<1>1. PICK c \in ActiveOn(s, m) : SealAndRelease(c, "failed", "reclaimed")
  BY DEF Reclaim
<1>2. c \in claims /\ "failed" \in Outcomes
  BY DEF ActiveOn, Active, Outcomes
<1>3. StopsOnly(c.run, c.node) /\ CurrentRef(c.run, c.node)' = RefOf(c)
  BY <1>1, <1>2, SealStops
<1>4. c.run = r /\ c.node = n
  BY <1>3 DEF StopsOnly
<1>5. PICK rows \in SUBSET claims : rows = {c}
  BY <1>2
<1>6. claims' = Release(rows, "reclaimed")
  BY <1>1, <1>2, <1>5, SealStep
<1>7. PICK x \in claims' : RefOf(x) = RefOf(c) /\ x.release = "reclaimed"
  <2>1. c \in rows
    BY <1>5
  <2>2. PICK x \in claims' :
           /\ RefOf(x) = RefOf(c)
           /\ x.release = IF c \in rows THEN "reclaimed" ELSE c.release
    BY <1>2, <1>6, ReleaseDeactivates
  <2>3. QED
    BY <2>1, <2>2
<1>8. RefOf(x) = [run |-> r, node |-> n, number |-> node'[r][n].current]
  BY <1>3, <1>4, <1>7 DEF CurrentRef
<1>9. QED
  BY <1>7, <1>8 DEF TakenAway

(* Whatever was taken away stays so while its node does not move.          *)
LEMMA TakenAwayStays ==
    ASSUME Typed, [Next]_vars, NEW r \in Runs, NEW n \in Nodes,
           node'[r][n] = node[r][n], TakenAway(r, n)
    PROVE  TakenAway(r, n)'
<1>1. PICK row \in claims :
         /\ RefOf(row) = [run |-> r, node |-> n, number |-> node[r][n].current]
         /\ row.release = "reclaimed"
  BY DEF TakenAway
<1>2. PICK x \in claims' : RefOf(x) = RefOf(row) /\ x.release = "reclaimed"
  BY <1>1, RowsStay
<1>3. QED
  BY <1>1, <1>2 DEF TakenAway

LEMMA HandedOnKept ==
    ASSUME StoreInv, FollowInv, NowInv, HandedOn, [CNext]_allVars
    PROVE  HandedOn'
<1> USE DEF StoreInv
<1>1. Typed /\ [Next]_vars
  BY StepIsTransaction DEF LedgerInv
<1>2. SUFFICES ASSUME deaths' = 0, NEW r \in Runs \ broken', NEW n \in Nodes,
                      Stopped(r, n)', ~TakenAway(r, n)', ~GateClosed(r, n)'
               PROVE  InHand(r, n)'
  BY DEF HandedOn
<1>3. deaths = 0 /\ deaths' = deaths
  <2>1. deaths \in Nat /\ (deaths' = deaths \/ deaths' = deaths + 1)
    BY ControllerAssumption
       DEF JobInv, CTypeOK, CNext, allVars, procVars, Start, Step, ReadLog, Claim,
           Execute, Answer, NoAnswer, Admit, Retry, Gate, Die, Tick, Operate,
           AfterAdmission, StepDone, Exit, Goto
  <2>2. QED
    BY <1>2, <2>1
<1>4. r \in Runs \ broken
  <2>1. broken \subseteq broken'
    BY <1>1
       DEF Next, CreateRun, ClaimNext, Complete, Cancel, Reclaim, SealAndRelease,
           AdmitReceipt, ApplyRetryPolicy, OpenResolveWork, AdmitDecision,
           RevokeReceipt, vars
  <2>2. QED
    BY <1>2, <2>1
<1>5. CASE node'[r][n] = node[r][n]
  <2>1. Stopped(r, n) /\ ~TakenAway(r, n) /\ ~GateClosed(r, n)
    <3>1. Stopped(r, n) /\ ~TakenAway(r, n)
      BY <1>1, <1>2, <1>4, <1>5, TakenAwayStays DEF Stopped
    <3>2. GateClosed(r, n) => NeedsPacket(r, n) /\ GateExpiry <= clock
      BY DEF GateClosed, NeedsPacket
    <3>3. NeedsPacket(r, n) => NeedsPacket(r, n)'
      BY <1>4, <1>5, <3>1, StillNeedsPacket
    <3>4. clock <= clock'
      BY NowInvKept
    <3>5. /\ clock \in Nat /\ clock' \in Nat /\ GateExpiry \in Nat
      BY JobInvKept, CallerAssumption, ControllerAssumption DEF JobInv, CTypeOK
    <3>6. NeedsPacket(r, n)' /\ GateExpiry <= clock' => GateClosed(r, n)'
      BY DEF GateClosed, NeedsPacket
    <3>7. QED
      BY <1>2, <3>1, <3>2, <3>3, <3>4, <3>5, <3>6
  <2>2. InHand(r, n)
    BY <1>3, <1>4, <2>1 DEF HandedOn
  <2>3. QED
    BY <1>2, <1>3, <1>4, <1>5, <2>2, StillInHand
<1>6. CASE node'[r][n] # node[r][n]
  <2>1. ~StopsNothing /\ vars' # vars
    BY <1>2, <1>4, <1>6 DEF StopsNothing, vars
  <2>2. ASSUME NEW c \in Controllers, Step(c) PROVE Execute(c) \/ Admit(c)
    <3>1. ~Claim(c)
      <4>1. pc[c] # "off" => job[c].run \in Runs /\ job[c].now \in Times
        BY DEF JobInv, JobFits
      <4>2. QED
        BY <1>1, <2>1, <4>1, ClaimStopsNothing DEF Claim, At
    <3>2. ~Retry(c)
      BY <1>1, <2>1, WorkInHand, RetryStopsNothing DEF Retry, At, Working
    <3>3. ~Gate(c)
      BY <1>1, <2>1, WorkInHand, GateStopsNothing, ControllerAssumption
         DEF Gate, At, Working
    <3>4. QED
      BY <2>1, <2>2, <3>1, <3>2, <3>3 DEF Step, ReadLog, Answer, NoAnswer
  <2>3. ~Operate
    <3>1. SUFFICES ASSUME Operate PROVE FALSE
      OBVIOUS
    <3>2. PICK s \in Runs, m \in Nodes :
             \/ CreateRun(s)
             \/ Cancel(s, m)
             \/ Reclaim(s, m)
             \/ ApplyRetryPolicy(s, m, clock)
             \/ \E p \in packets, d \in DecisionKinds : AdmitDecision(p, m, d)
      BY <3>1 DEF Operate
    <3>3. clock \in Times
      BY DEF JobInv, CTypeOK
    <3>4. ~CreateRun(s)
      BY <1>6 DEF CreateRun
    <3>5. ~Cancel(s, m) /\ ~ApplyRetryPolicy(s, m, clock)
      BY <1>1, <2>1, <3>3, CancelStopsNothing, RetryStopsNothing
    <3>6. \A p \in packets, d \in DecisionKinds : ~AdmitDecision(p, m, d)
      BY <1>1, <2>1, DecisionStopsNothing
    <3>7. ~Reclaim(s, m)
      BY <1>1, <1>2, <1>4, <1>6, ReclaimTakesAway
    <3>8. QED
      BY <3>2, <3>4, <3>5, <3>6, <3>7
  <2>4. \E c \in Controllers : Execute(c) \/ Admit(c)
    BY <2>1, <2>2, <2>3 DEF CNext, allVars, Start, Die, Tick
  <2>5. QED
    BY <1>2, <1>4, <1>6, <2>4, StopperFollowsUp
<1>7. QED
  BY <1>5, <1>6

(* As long as no process died, work that stopped without acceptance is in  *)
(* the hands of a process about to retry it, cancel it or open its gate,   *)
(* whatever other processes and operators do meanwhile, unless an operator *)
(* took its claim away, or it needs a packet and gate_expiry has passed,   *)
(* after which no packet can be opened.                                    *)
THEOREM StoppedWorkFollowedUp == CSpec => []FollowedUp
<1> DEFINE I == StoreInv /\ FollowInv /\ NowInv /\ HandedOn
<1>1. CInit => I
  BY StoreInvInit, FollowInvInit, NowInvInit
     DEF CInit, Init, HandedOn, Stopped, OpenState
<1>2. I /\ [CNext]_allVars => I'
  BY StoreInvKept, StepIsTransaction, FollowInvKept, NowInvKept, HandedOnKept
     DEF StoreInv
<1>3. I => FollowedUp
  BY DEF HandedOn, FollowedUp, InHand, WorksOn, Followed
<1>4. QED
  BY <1>1, <1>2, <1>3, PTL DEF CSpec
=============================================================================
