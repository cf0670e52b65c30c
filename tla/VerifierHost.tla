---------------------------- MODULE VerifierHost ----------------------------
(***************************************************************************)
(* src/src/verifier_host/mod.rs: one call of `run`.  The host polls a      *)
(* child process, a thread drains the child's output, another feeds it the *)
(* request, and the child, the processes it starts, the caller and the     *)
(* clock go on meanwhile.                                                  *)
(*                                                                         *)
(* The operators used by no action are faulty twins, as in Ledger.         *)
(*                                                                         *)
(* Output is a sequence of pieces: a whole response that echoes the        *)
(* request ("doc"), one that does not ("alien"), white space, and anything *)
(* else.  Standard error is drained like standard output and decides       *)
(* nothing; the request does not fit into its pipe.  A process that holds  *)
(* one of the pipes holds them all.                                        *)
(***************************************************************************)
EXTENDS Naturals, Sequences

CONSTANTS
    Child,         \* the process the host spawns
    Helpers,       \* processes it starts in its own group, with its pipes
    Checks,        \* processes it starts in groups and with pipes of their own
    Limit,         \* max_stdout_bytes, in pieces
    PipeSize,      \* pieces a pipe holds
    MaxOutput      \* bound on the pieces written in all

Processes == {Child} \cup Helpers \cup Checks
Pieces == {"doc", "alien", "space", "junk"}
Polls == {"wait", "overflow", "cancel", "deadline"}
Failures == {"timed_out", "cancelled", "output_too_large", "spawn"}
Outcomes ==
    Failures \cup {"executable_mismatch", "non_zero_exit", "malformed_output",
                   "extra_output", "echo_mismatch", "verdict"}

ASSUME HostAssumption ==
    /\ Child \notin Helpers \cup Checks
    /\ Helpers \cap Checks = {}
    /\ Limit \in Nat /\ PipeSize \in Nat \ {0} /\ MaxOutput \in Nat

VARIABLES
    host,        \* the statement the host is at
    alive,       \* processes that run
    started,     \* processes that were started
    holders,     \* processes with the pipes open
    group,       \* processes the host's kill signal reaches
    code,        \* how the child exited
    writing,     \* the writer thread still has request bytes to write
    written,     \* everything written to standard output
    taken,       \* how much of it the reader has taken
    ended,       \* the reader has seen the end of the pipe
    late,        \* the deadline has passed
    cancel,      \* the caller's cancellation flag
    failure,     \* why the host killed the tree
    outcome      \* what run returns

procs == <<alive, started, holders, group, code>>
pipes == <<writing, written, taken, ended>>
signals == <<late, cancel>>
vars == <<host, procs, pipes, signals, failure, outcome>>

(* Every variable has its type, pipes are held by processes that run, and  *)
(* the reader never takes more than was written.                           *)
TypeOK ==
    /\ host \in {"start", "join", "finish", "done"} \cup Polls
    /\ holders \subseteq alive /\ alive \subseteq started
    /\ started \subseteq Processes
    /\ group \subseteq {Child} \cup Helpers
    /\ code \in {"none", "success", "failure"}
    /\ written \in Seq(Pieces) /\ taken \in 0..Len(written)
    /\ writing \in BOOLEAN /\ ended \in BOOLEAN
    /\ late \in BOOLEAN /\ cancel \in BOOLEAN
    /\ failure \in Failures \cup {"none"}
    /\ outcome \in Outcomes \cup {"none"}

Init ==
    /\ host = "start"
    /\ alive = {} /\ started = {} /\ holders = {} /\ group = {}
    /\ code = "none"
    /\ writing = TRUE /\ written = <<>> /\ taken = 0 /\ ended = FALSE
    /\ late = FALSE /\ cancel = FALSE
    /\ failure = "none" /\ outcome = "none"

-----------------------------------------------------------------------------
(* What the host concludes.                                                *)

(* The bytes the reader keeps: up to the limit, the rest is discarded.     *)
Kept == SubSeq(written, 1, IF taken <= Limit THEN taken ELSE Limit)

Overflowed == taken > Limit

(* parse_response and the echo checks, on output s: one document, then     *)
(* nothing but white space.                                                *)
ParseResponse(s) ==
    LET IsText(x) == x # "space"
        text == SelectSeq(s, IsText) IN
    IF text = <<>> THEN "malformed_output"
    ELSE CASE Head(text) = "junk" -> "malformed_output"
           [] Head(text) # "junk" /\ Len(text) > 1 -> "extra_output"
           [] text = <<"alien">> -> "echo_mismatch"
           [] OTHER -> "verdict"

ConcludeFromKept ==
    IF failure # "none" THEN failure
    ELSE IF code # "success" THEN "non_zero_exit"
    ELSE ParseResponse(Kept)

Conclude ==
    IF failure # "none" THEN failure
    ELSE IF code # "success" THEN "non_zero_exit"
    ELSE IF Overflowed THEN "output_too_large"
    ELSE ParseResponse(Kept)

-----------------------------------------------------------------------------
(* The host.                                                               *)

At(s) == host = s
Goto(s) == host' = s

(* The executable's digest is compared and the child spawned as the leader *)
(* of a process group; either can fail.                                    *)
Spawn ==
    /\ At("start")
    /\ \/ /\ Goto("done")
          /\ outcome' \in {"executable_mismatch", "spawn"}
          /\ UNCHANGED procs
       \/ /\ Goto("wait")
          /\ alive' = {Child} /\ started' = {Child}
          /\ holders' = {Child} /\ group' = {Child}
          /\ UNCHANGED <<code, outcome>>
    /\ UNCHANGED <<pipes, signals, failure>>

ChildOnly == {Child}

(* What kill_tree reaches: the group, and the child itself.                *)
Reached == group \cup {Child}

Kill(why) ==
    /\ alive' = alive \ Reached
    /\ holders' = holders \ Reached
    /\ group' = {}
    /\ failure' = why
    /\ Goto("join")
    /\ UNCHANGED <<started, code, pipes, signals, outcome>>

Look(s) == Goto(s) /\ UNCHANGED <<procs, pipes, signals, failure, outcome>>

TryWait ==
    /\ At("wait")
    /\ \/ Child \notin alive /\ Look("join")
       \/ Child \in alive /\ Look("overflow")
       \/ Kill("spawn")                       \* try_wait itself fails

CheckOverflow ==
    /\ At("overflow")
    /\ IF Overflowed THEN Kill("output_too_large") ELSE Look("cancel")

CheckCancel ==
    /\ At("cancel")
    /\ IF cancel THEN Kill("cancelled") ELSE Look("deadline")

CheckDeadline ==
    /\ At("deadline")
    /\ IF late THEN Kill("timed_out") ELSE Look("wait")

JoinWriter == At("join") /\ ~writing /\ Look("finish")

(* Both readers are joined before anything is concluded.                   *)
Drained == ended

Finish ==
    /\ At("finish")
    /\ Drained
    /\ Goto("done")
    /\ outcome' = Conclude
    /\ UNCHANGED <<procs, pipes, signals, failure>>

HostStep ==
    \/ Spawn
    \/ TryWait
    \/ CheckOverflow
    \/ CheckCancel
    \/ CheckDeadline
    \/ JoinWriter
    \/ Finish

-----------------------------------------------------------------------------
(* The threads.                                                            *)

TakenWithoutData == ~ended

TakenUpToLimit == taken < Len(written) /\ taken < Limit

MoreToTake == taken < Len(written)

(* The reader keeps reading past the limit, and stops at the end of the    *)
(* pipe: when it is empty and nobody can write to it any more.             *)
Read ==
    /\ started # {}
    /\ \/ MoreToTake /\ taken' = taken + 1 /\ UNCHANGED ended
       \/ /\ taken = Len(written) /\ holders = {} /\ ~ended
          /\ ended' = TRUE
          /\ UNCHANGED taken
    /\ UNCHANGED <<host, procs, writing, written, signals, failure, outcome>>

(* Nobody will read the request any more: the write fails.                 *)
RequestRefused ==
    /\ started # {} /\ writing /\ holders = {}
    /\ writing' = FALSE
    /\ UNCHANGED <<host, procs, written, taken, ended, signals, failure,
                   outcome>>

-----------------------------------------------------------------------------
(* The child and what it starts; none of them need ever do anything.       *)

ReadRequest(p) ==
    /\ p \in holders /\ writing
    /\ writing' = FALSE
    /\ UNCHANGED <<host, procs, written, taken, ended, signals, failure,
                   outcome>>

Write(p, x) ==
    /\ p \in holders
    /\ Len(written) - taken < PipeSize
    /\ Len(written) < MaxOutput
    /\ written' = Append(written, x)
    /\ UNCHANGED <<host, procs, writing, taken, ended, signals, failure,
                   outcome>>

(* The software verifier starts each check in a group of its own, with     *)
(* pipes of its own (verifiers/software.rs, run_check).                    *)
Fork(p) ==
    /\ Child \in alive /\ p \notin started
    /\ alive' = alive \cup {p} /\ started' = started \cup {p}
    /\ IF p \in Helpers
       THEN /\ group' = group \cup {p}
            /\ holders' = IF Child \in holders THEN holders \cup {p} ELSE holders
       ELSE UNCHANGED <<group, holders>>
    /\ UNCHANGED <<host, code, pipes, signals, failure, outcome>>

ClosePipes(p) ==
    /\ p \in holders
    /\ holders' = holders \ {p}
    /\ UNCHANGED <<host, alive, started, group, code, pipes, signals, failure,
                   outcome>>

Exit(p) ==
    /\ p \in alive
    /\ alive' = alive \ {p}
    /\ holders' = holders \ {p}
    /\ group' = group \ {p}
    /\ IF p = Child THEN code' \in {"success", "failure"} ELSE UNCHANGED code
    /\ UNCHANGED <<host, started, pipes, signals, failure, outcome>>

ProcessStep ==
    \E p \in Processes :
        \/ ReadRequest(p)
        \/ \E x \in Pieces : Write(p, x)
        \/ p # Child /\ Fork(p)
        \/ ClosePipes(p)
        \/ Exit(p)

-----------------------------------------------------------------------------
DeadlinePasses ==
    /\ ~late /\ late' = TRUE
    /\ UNCHANGED <<host, procs, pipes, cancel, failure, outcome>>

CallerCancels ==
    /\ ~cancel /\ cancel' = TRUE
    /\ UNCHANGED <<host, procs, pipes, late, failure, outcome>>

Next ==
    \/ HostStep
    \/ Read
    \/ RequestRefused
    \/ ProcessStep
    \/ DeadlinePasses
    \/ CallerCancels

(* The host's threads are scheduled and time passes; processes and the     *)
(* caller owe nothing.                                                     *)
Fairness ==
    /\ WF_vars(HostStep)
    /\ WF_vars(Read)
    /\ WF_vars(RequestRefused)
    /\ WF_vars(DeadlinePasses)

Spec == Init /\ [][Next]_vars /\ Fairness

-----------------------------------------------------------------------------
(* A verdict is returned exactly when the child exited with success and    *)
(* everything the whole process tree wrote is within the limit and is one  *)
(* response to this request, however the reader thread and the poll loop   *)
(* interleave and whoever wrote it.                                        *)
VerdictEarned ==
    host = "done" /\ started # {} =>
        (outcome = "verdict" <=>
            /\ failure = "none"
            /\ code = "success"
            /\ Len(written) <= Limit
            /\ ParseResponse(written) = "verdict")

(* A process that fills the pipe is not blocked on it: the reader goes on  *)
(* draining past the limit.                                                *)
TalkersDrained ==
    Len(written) - taken = PipeSize ~> Len(written) - taken < PipeSize

(* `run` ends, whatever the child and its helpers do, read or write, if a  *)
(* child that exits leaves nobody holding its pipes: the deadline kills    *)
(* the whole group, and that closes the pipes the threads wait on.         *)
RunReturns ==
    [](code # "none" => holders = {}) => <>(host = "done")
=============================================================================
