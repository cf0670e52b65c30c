------------------------- MODULE VerifierHostProofs -------------------------
(***************************************************************************)
(* A verdict is earned, for every set of processes and every limit.        *)
(***************************************************************************)
EXTENDS VerifierHost, SequenceTheorems, TLAPS

(* The reader stops only when everything was written; once the host has    *)
(* left the poll loop the child is gone, so how it exited no longer        *)
(* changes; and what run returned is what it concluded then.               *)
Settled ==
    /\ ended => taken = Len(written) /\ holders = {}
    /\ Child \in holders => Child \in alive
    /\ host = "start" => started = {}
    /\ started = {} => host \in {"start", "done"} /\ alive = {} /\ ~ended
    /\ host \in {"join", "finish", "done"} => Child \notin alive
    /\ host # "done" => outcome = "none"
    /\ Child \notin started => started = {}
    /\ host = "done" /\ started # {} => ended /\ outcome = Conclude
    /\ host = "done" /\ started = {} => outcome # "verdict"

HostInv == TypeOK /\ Settled

(* Keeping all of a sequence is keeping the sequence.                      *)
LEMMA KeptWhole ==
    ASSUME TypeOK, Limit \in Nat, taken = Len(written), taken <= Limit
    PROVE  Kept = written
  BY DEF Kept, TypeOK

(* What the response parser can say.                                       *)
LEMMA ParseOutcome ==
    ASSUME NEW s
    PROVE  ParseResponse(s) \in Outcomes
  BY DEF ParseResponse, Outcomes

(* Nothing runs and nothing was written before the child is spawned.        *)
LEMMA HostInit == Init => HostInv
<1>1. Init => TypeOK
  <2>1. <<>> \in Seq(Pieces) /\ 0 \in 0..Len(<<>>)
    OBVIOUS
  <2> QED
    BY <2>1 DEF Init, TypeOK
<1>2. Init => Settled
  BY Len(<<>>) = 0 DEF Init, Settled, Polls
<1> QED
  BY <1>1, <1>2 DEF HostInv

(* A statement of the host.                                                *)
LEMMA HostKeeps ==
    ASSUME HostInv, HostStep
    PROVE  HostInv'
<1> USE DEF HostInv, At, Goto, procs, pipes, signals, Failures, Outcomes, Polls
<1>1. CASE Spawn
  <2>1. TypeOK'
    BY <1>1 DEF Spawn, TypeOK, Processes
  <2>2. Settled'
    BY <1>1 DEF Spawn, Settled, TypeOK
  <2> QED
    BY <2>1, <2>2
<1>2. ASSUME NEW why \in Failures, Kill(why), host \in Polls
      PROVE  HostInv'
  <2>1. TypeOK'
    BY <1>2 DEF Kill, TypeOK, Reached
  <2>2. Settled'
    BY <1>2 DEF Kill, Settled, TypeOK, Reached
  <2> QED
    BY <2>1, <2>2
<1>3. ASSUME NEW s \in Polls \cup {"join", "finish"}, Look(s),
             host \in Polls \cup {"join", "finish"},
             s \in {"join", "finish"} => Child \notin alive
      PROVE  HostInv'
  <2>1. TypeOK'
    BY <1>3 DEF Look, TypeOK
  <2>2. Settled'
    BY <1>3 DEF Look, Settled, TypeOK
  <2> QED
    BY <2>1, <2>2
<1>4. CASE TryWait
  BY <1>2, <1>3, <1>4 DEF TryWait
<1>5. CASE CheckOverflow
  BY <1>2, <1>3, <1>5 DEF CheckOverflow
<1>6. CASE CheckCancel
  BY <1>2, <1>3, <1>6 DEF CheckCancel
<1>7. CASE CheckDeadline
  BY <1>2, <1>3, <1>7 DEF CheckDeadline
<1>8. CASE JoinWriter
  BY <1>3, <1>8 DEF JoinWriter, Settled
<1>9. CASE Finish
  <2>1. Conclude \in Outcomes
    BY ParseOutcome DEF Conclude, TypeOK
  <2>2. TypeOK'
    BY <1>9, <2>1 DEF Finish, TypeOK
  <2>3. Conclude' = Conclude
    BY <1>9 DEF Finish, Conclude, Overflowed, Kept
  <2>4. Settled'
    BY <1>9, <2>3 DEF Finish, Settled, TypeOK, Drained
  <2> QED
    BY <2>2, <2>4
<1> QED
  BY <1>1, <1>4, <1>5, <1>6, <1>7, <1>8, <1>9 DEF HostStep

(* A step of the threads, the processes, the clock or the caller.          *)
LEMMA OthersKeep ==
    ASSUME HostInv,
           Read \/ RequestRefused \/ ProcessStep \/ DeadlinePasses \/ CallerCancels
    PROVE  HostInv'
<1> USE DEF HostInv, procs, pipes, signals
<1>1. CASE Read
  <2>1. TypeOK'
    <3>1. Len(written) \in Nat /\ taken \in Nat
      BY DEF TypeOK
    <3>2. CASE MoreToTake
      <4>1. taken + 1 \in 0..Len(written)
        BY <3>1, <3>2 DEF MoreToTake
      <4> QED
        BY <1>1, <3>2, <4>1 DEF Read, TypeOK, MoreToTake
    <3>3. CASE ~MoreToTake
      BY <1>1, <3>3 DEF Read, TypeOK
    <3> QED
      BY <3>2, <3>3
  <2>2. Settled'
    BY <1>1 DEF Read, MoreToTake, Settled, TypeOK, Conclude, Overflowed, Kept
  <2> QED
    BY <2>1, <2>2
<1>2. CASE RequestRefused \/ DeadlinePasses \/ CallerCancels
  <2>1. TypeOK'
    BY <1>2 DEF RequestRefused, DeadlinePasses, CallerCancels, TypeOK
  <2>2. Settled'
    BY <1>2 DEF RequestRefused, DeadlinePasses, CallerCancels, Settled, TypeOK,
                Conclude, Overflowed, Kept
  <2> QED
    BY <2>1, <2>2
<1>3. ASSUME NEW p \in Processes, ReadRequest(p)
      PROVE  HostInv'
  <2>1. TypeOK'
    BY <1>3 DEF ReadRequest, TypeOK
  <2>2. Settled'
    BY <1>3 DEF ReadRequest, Settled, TypeOK, Conclude, Overflowed, Kept
  <2> QED
    BY <2>1, <2>2
<1>4. ASSUME NEW p \in Processes, NEW x \in Pieces, Write(p, x)
      PROVE  HostInv'
  <2>1. /\ written' \in Seq(Pieces)
        /\ Len(written') = Len(written) + 1
    BY <1>4 DEF Write, TypeOK
  <2>2. TypeOK'
    BY <1>4, <2>1 DEF Write, TypeOK
  <2>3. ~ended
    BY <1>4 DEF Write, Settled
  <2>4. Settled'
    BY <1>4, <2>3 DEF Write, Settled, TypeOK
  <2> QED
    BY <2>2, <2>4
<1>5. ASSUME NEW p \in Processes, p # Child, Fork(p)
      PROVE  HostInv'
  <2>1. TypeOK'
    BY <1>5 DEF Fork, TypeOK, Processes
  <2>2. Settled'
    BY <1>5 DEF Fork, Settled, TypeOK, Conclude, Overflowed, Kept
  <2> QED
    BY <2>1, <2>2
<1>6. ASSUME NEW p \in Processes, ClosePipes(p)
      PROVE  HostInv'
  <2>1. TypeOK'
    BY <1>6 DEF ClosePipes, TypeOK
  <2>2. Settled'
    BY <1>6 DEF ClosePipes, Settled, TypeOK, Conclude, Overflowed, Kept
  <2> QED
    BY <2>1, <2>2
<1>7. ASSUME NEW p \in Processes, Exit(p)
      PROVE  HostInv'
  <2>1. TypeOK'
    BY <1>7 DEF Exit, TypeOK
  <2>2. host = "done" => Conclude' = Conclude
    BY <1>7 DEF Exit, Settled, Conclude, Overflowed, Kept
  <2>3. Settled'
    BY <1>7, <2>2 DEF Exit, Settled, TypeOK
  <2> QED
    BY <2>1, <2>3
<1>8. CASE ProcessStep
  BY <1>3, <1>4, <1>5, <1>6, <1>7, <1>8 DEF ProcessStep
<1> QED
  BY <1>1, <1>2, <1>8

(* What run returns is about everything that was written, because by then  *)
(* all of it was read.                                                     *)
LEMMA ReturnIsEarned == HostInv => VerdictEarned
<1> SUFFICES ASSUME HostInv, host = "done", started # {}
             PROVE  outcome = "verdict" <=>
                      /\ failure = "none"
                      /\ code = "success"
                      /\ Len(written) <= Limit
                      /\ ParseResponse(written) = "verdict"
  BY DEF VerdictEarned
<1>1. outcome = Conclude /\ taken = Len(written)
  BY DEF HostInv, Settled
<1>2. Overflowed <=> ~(Len(written) <= Limit)
  BY <1>1, HostAssumption DEF Overflowed, HostInv, TypeOK
<1>3. ~Overflowed => Kept = written
  BY <1>1, <1>2, KeptWhole, HostAssumption DEF HostInv
<1> QED
  BY <1>1, <1>2, <1>3 DEF Conclude, HostInv, TypeOK, Failures

(* Whatever takes the next step.                                           *)
LEMMA HostInvKept == HostInv /\ [Next]_vars => HostInv'
<1> SUFFICES ASSUME HostInv, [Next]_vars
             PROVE  HostInv'
  OBVIOUS
<1>1. CASE UNCHANGED vars
  BY <1>1 DEF HostInv, TypeOK, Settled, vars, procs, pipes, signals, Conclude,
              Overflowed, Kept
<1> QED
  BY <1>1, HostKeeps, OthersKeep DEF Next

(* Whatever the processes of a verifier do and leave open, `run` counts no *)
(* more bytes than were written and returns one of its outcomes.           *)
THEOREM HostTyped == Spec => []TypeOK
<1>1. HostInv => TypeOK
  BY DEF HostInv
<1> QED
  BY HostInit, HostInvKept, <1>1, PTL DEF Spec

(* A verdict is returned exactly when the child succeeded and all the tree *)
(* wrote is one response within the limit (verifier_host `run`).           *)
THEOREM VerdictIsEarned == Spec => []VerdictEarned
  BY HostInit, HostInvKept, ReturnIsEarned, PTL DEF Spec
=============================================================================
