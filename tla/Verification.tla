---------------------------- MODULE Verification ----------------------------
(***************************************************************************)
(* The built-in verifiers of src/src/verifiers and the part of             *)
(* src/src/controller/mod.rs that runs them, on the local workflow of one  *)
(* run: a node whose result is the captured patch, and a check node that   *)
(* depends on it.  The store is reduced to the stage of each attempt; the  *)
(* checkout, the artifact directory and the verifier processes, which no   *)
(* transaction protects, are what the module is about.                     *)
(*                                                                         *)
(* A capture of the checkout is not one look at it: git is asked for HEAD, *)
(* then for the status, and a working tree's changed paths and their       *)
(* contents are read after that.  The patch, read last, is compared too    *)
(* and would only tell more captures apart; it is left out.                *)
(*                                                                         *)
(* Attempts are numbered in the order they are claimed and verifiers in    *)
(* the order they are started.  The operators used by no action are faulty *)
(* twins, as in Ledger.                                                    *)
(***************************************************************************)
EXTENDS Integers, Sequences

CONSTANTS
    Procs,          \* slots in which controller processes run
    Contents,       \* what the checkout may hold
    PatchChecks,    \* the required checks of the patch verifier
    Required,       \* the required checks of the software verifier, in order
    Passes,         \* for each check, the contents it passes on
    MaxAttempts,    \* bound on the attempts that are claimed
    MaxVerifiers,   \* bound on the verifier processes started
    MaxDeaths       \* bound on the controller processes that die

Checks == {Required[k] : k \in DOMAIN Required}

ASSUME WorkAssumption ==
    /\ Required \in Seq(Checks)
    /\ Passes \in [Checks -> SUBSET Contents]
    /\ PatchChecks \subseteq {"artifact_exists", "base_matches"}
    /\ Contents \cap {"unseen", "mixed"} = {}
    /\ MaxAttempts \in Nat /\ MaxVerifiers \in Nat /\ MaxDeaths \in Nat

(* What an artifact file holds: nothing, part of something, the patch      *)
(* record of an attempt, or the report of a verifier.                      *)
Bytes == [kind : {"none", "torn", "patch", "report"}, of : Nat]
Absent == [kind |-> "none", of |-> 0]
Torn == [kind |-> "torn", of |-> 0]
PatchOf(n) == [kind |-> "patch", of |-> n]
ReportOf(i) == [kind |-> "report", of |-> i]

(* What a capture has seen so far: HEAD, a commit being told by what it    *)
(* holds, then whether the checkout was clean, then the files if not.      *)
Unseen == "unseen"
Mixed == "mixed"
LookType ==
    [at : {"head", "status", "names", "files", "done"},
     head : Contents \cup {Unseen},
     kind : {"tree", "commit"},
     files : Contents \cup {Unseen, Mixed}]
NoLook == [at |-> "head", head |-> Unseen, kind |-> "tree", files |-> Unseen]

(* The content a captured candidate stands for.                            *)
Held(look) == IF look.kind = "commit" THEN look.head ELSE look.files

(* Two captures have the same subject.  Files read one by one while the    *)
(* checkout changed may be a mixture, which no other capture shows unless  *)
(* a part of that change is undone.                                        *)
Agree(look, other) == look = other /\ look.files # Mixed

Nodes == {"patch", "check"}
Stages == {"claimed", "sealed", "accepted", "stopped"}
Answers == {"none", "accept", "reject"}

(* An attempt with the candidate it froze, the bytes its sealed result     *)
(* names by digest, and the verifier whose verdict was admitted.           *)
AttemptType ==
    [node : Nodes, stage : Stages, frozen : LookType, bytes : Bytes, by : Nat]

(* A verifier process, its capture, the outcomes of the checks it ran, and *)
(* its answer.                                                             *)
VerifierType ==
    [attempt : 1..MaxAttempts,
     at : {"before", "checks", "after", "write", "fill", "say",
           "artifact", "candidate", "gone"},
     look : LookType,
     outcomes : Seq({"passed", "failed"}),
     readable : BOOLEAN, said : Answers]

(* A controller process: where it is, the attempt and verifier it has in   *)
(* hand, its capture, the artifact's bytes, and whether it found the       *)
(* attempt sealed.                                                         *)
ProcType ==
    [at : {"idle", "freeze", "write", "fill", "seal", "spawn", "wait",
           "read", "admit"},
     attempt : 0..MaxAttempts, verifier : 0..MaxVerifiers,
     look : LookType, bytes : Bytes, resumed : BOOLEAN]

Idle == [at |-> "idle", attempt |-> 0, verifier |-> 0, look |-> NoLook,
         bytes |-> Absent, resumed |-> FALSE]

VARIABLES
    tree,       \* what the checkout holds
    head,       \* what its HEAD commit holds
    past,       \* what the checkout and HEAD have held so far
    returned,   \* some edit went back to an earlier content
    raced,      \* verifiers whose second capture a commit overtook
    file,       \* the artifact directory, a file for each attempt
    attempts,   \* attempts claimed so far
    verifiers,  \* verifier processes started so far
    proc,       \* controller processes
    deaths      \* how many of them died

checkout == <<tree, head, past, returned, raced>>
vars == <<checkout, file, attempts, verifiers, proc, deaths>>

(* Every variable has its type, and processes hold attempts and verifiers  *)
(* that exist.                                                             *)
TypeOK ==
    /\ {tree, head} \subseteq past /\ past \subseteq Contents
    /\ returned \in BOOLEAN /\ raced \subseteq DOMAIN verifiers
    /\ file \in [1..MaxAttempts -> Bytes]
    /\ attempts \in Seq(AttemptType) /\ Len(attempts) <= MaxAttempts
    /\ verifiers \in Seq(VerifierType) /\ Len(verifiers) <= MaxVerifiers
    /\ \A i \in DOMAIN verifiers : verifiers[i].attempt \in DOMAIN attempts
    /\ proc \in [Procs -> ProcType] /\ deaths \in 0..MaxDeaths
    /\ \A p \in Procs :
          /\ proc[p].at # "idle" => proc[p].attempt \in DOMAIN attempts
          /\ proc[p].at \in {"wait", "read", "admit"} =>
                proc[p].verifier \in DOMAIN verifiers

Init ==
    /\ tree \in Contents /\ head \in Contents /\ past = {tree, head}
    /\ returned = FALSE /\ raced = {}
    /\ file = [n \in 1..MaxAttempts |-> Absent]
    /\ attempts = <<>> /\ verifiers = <<>>
    /\ proc = [p \in Procs |-> Idle]
    /\ deaths = 0

-----------------------------------------------------------------------------
(* The checkout.                                                           *)

(* Whoever works in the checkout: a developer, a check, or a check that    *)
(* outlived its verifier, which nothing kills.                             *)
Edit ==
    /\ \E c \in Contents \ {tree} :
          /\ tree' = c /\ past' = past \cup {c}
          /\ returned' = (returned \/ c \in past)
    /\ UNCHANGED <<head, raced, file, attempts, verifiers, proc, deaths>>

(* Somebody commits what the checkout holds.  A verifier that has asked    *)
(* for HEAD again and not yet for the status is overtaken.                 *)
Commit ==
    /\ tree # head
    /\ head' = tree
    /\ raced' = raced \cup
          {i \in DOMAIN verifiers :
              verifiers[i].at = "after" /\ verifiers[i].look.at = "status"}
    /\ UNCHANGED <<tree, past, returned, file, attempts, verifiers, proc, deaths>>

(* What a capture can show after one more look at the checkout: HEAD, the  *)
(* status, the changed paths, their contents.  The last look ends it.      *)
Looks(l) ==
    CASE l.at = "head" -> {[l EXCEPT !.at = "status", !.head = head]}
      [] l.at = "status" ->
           {IF tree = head THEN [l EXCEPT !.at = "done", !.kind = "commit"]
                           ELSE [l EXCEPT !.at = "names"]}
      [] l.at = "names" -> {[l EXCEPT !.at = "files", !.files = tree]}
      [] l.at = "files" ->
           {[l EXCEPT !.at = "done", !.files = c] :
               c \in IF tree = l.files THEN {tree} ELSE {l.files, tree, Mixed}}
      [] OTHER -> {}

-----------------------------------------------------------------------------
(* The verifiers.                                                          *)

OneArtifact(n) == 1

(* Every attempt has a file of its own.                                    *)
ArtifactPath(n) == n

Accepting(i) ==
    \A k \in DOMAIN verifiers[i].outcomes : verifiers[i].outcomes[k] = "passed"

Frozen(i) == attempts[verifiers[i].attempt].frozen

(* Verifier i goes on at s, or ends with an answer and forgets the rest.   *)
Goto(i, s) ==
    verifiers' = [verifiers EXCEPT ![i].at = s, ![i].look = NoLook]
Leave(i, a) ==
    verifiers' = [verifiers EXCEPT
        ![i].at = "gone", ![i].look = NoLook, ![i].outcomes = <<>>,
        ![i].readable = FALSE, ![i].said = a]

Peek(i, s, look) ==
    verifiers' = [verifiers EXCEPT ![i].at = s, ![i].look = look]

(* The capture before the checks must show the frozen candidate.           *)
CaptureBefore(i) ==
    /\ verifiers[i].at = "before"
    /\ \E look \in Looks(verifiers[i].look) :
          IF look.at # "done" THEN Peek(i, "before", look)
          ELSE IF Agree(look, Frozen(i)) THEN Goto(i, "checks")
          ELSE Leave(i, "none")
    /\ UNCHANGED file

(* run_check: the next required check runs in the checkout as it is now.   *)
(* It fails for whatever reason, also when its time is up.  One that left  *)
(* its output open to a process it started takes no step.                  *)
RunCheck(i) ==
    LET k == Len(verifiers[i].outcomes) + 1 IN
    /\ verifiers[i].at = "checks" /\ k <= Len(Required)
    /\ \E o \in {"passed", "failed"} :
          /\ o = "passed" => tree \in Passes[Required[k]]
          /\ verifiers' = [verifiers EXCEPT ![i].outcomes = Append(@, o)]
    /\ UNCHANGED file

ChecksRan(i) ==
    /\ verifiers[i].at = "checks" /\ Len(verifiers[i].outcomes) = Len(Required)
    /\ Goto(i, "after")
    /\ UNCHANGED file

CaptureExists(i, look) == TRUE

CaptureAgrees(i, look) == Agree(look, Frozen(i))

(* The capture after the checks must show what the one before showed.      *)
CaptureAfter(i) ==
    /\ verifiers[i].at = "after"
    /\ \E look \in Looks(verifiers[i].look) :
          IF look.at # "done" THEN Peek(i, "after", look)
          ELSE IF CaptureAgrees(i, look) THEN Goto(i, "write")
          ELSE Leave(i, "none")
    /\ UNCHANGED file

Store(n, b) == file' = [file EXCEPT ![ArtifactPath(n)] = b]

(* fs::write truncates and then fills.  Over what another verifier filled  *)
(* in between, a shorter report leaves the rest of the longer one.         *)
WriteReport(i) ==
    /\ verifiers[i].at = "write"
    /\ Store(verifiers[i].attempt, Torn)
    /\ Goto(i, "fill")

FillReport(i) ==
    LET n == verifiers[i].attempt IN
    /\ verifiers[i].at = "fill"
    /\ \/ Store(n, ReportOf(i))
       \/ file[ArtifactPath(n)].kind = "report" /\ Store(n, Torn)
    /\ Goto(i, "say")

Say(i) ==
    /\ verifiers[i].at = "say"
    /\ Leave(i, IF Accepting(i) THEN "accept" ELSE "reject")
    /\ UNCHANGED file

(* The patch verifier: the artifact is read first.  The checkout is not    *)
(* looked at unless a required check is about it, and without any required *)
(* check nothing is accepted.                                              *)
ReadArtifact(i) ==
    LET n == verifiers[i].attempt
        readable == file[ArtifactPath(n)] = PatchOf(n) IN
    /\ verifiers[i].at = "artifact"
    /\ IF "base_matches" \in PatchChecks
       THEN verifiers' = [verifiers EXCEPT ![i].at = "candidate",
                                           ![i].readable = readable]
       ELSE Leave(i, IF PatchChecks # {} /\ readable THEN "accept" ELSE "reject")
    /\ UNCHANGED file

CaptureCandidate(i) ==
    /\ verifiers[i].at = "candidate"
    /\ \E look \in Looks(verifiers[i].look) :
          IF look.at # "done" THEN Peek(i, "candidate", look)
          ELSE Leave(i, IF verifiers[i].readable /\ Agree(look, Frozen(i))
                        THEN "accept" ELSE "reject")
    /\ UNCHANGED file

(* It exits without an answer, at any point: the profile is not the pinned *)
(* one, git fails, the report cannot be written.                           *)
ExitWithout(i) ==
    /\ verifiers[i].at # "gone"
    /\ Leave(i, "none")
    /\ UNCHANGED file

Verify(i) ==
    /\ \/ CaptureBefore(i)
       \/ RunCheck(i)
       \/ ChecksRan(i)
       \/ CaptureAfter(i)
       \/ WriteReport(i)
       \/ FillReport(i)
       \/ Say(i)
       \/ ReadArtifact(i)
       \/ CaptureCandidate(i)
       \/ ExitWithout(i)
    /\ UNCHANGED <<checkout, attempts, proc, deaths>>

-----------------------------------------------------------------------------
(* The controller.                                                         *)

At(p, s) == proc[p].at = s
Move(p, s) == proc' = [proc EXCEPT ![p].at = s]
Finish(p) == proc' = [proc EXCEPT ![p] = Idle]

NumberedFromZero == Len(attempts) - 1

Latest == Len(attempts)

(* The row of process p's attempt.                                         *)
Mine(p) == attempts[proc[p].attempt]

SetStage(n, s) == attempts' = [attempts EXCEPT ![n].stage = s]

PatchAccepted ==
    \E n \in DOMAIN attempts :
        attempts[n].node = "patch" /\ attempts[n].stage = "accepted"

NothingLive ==
    \A n \in DOMAIN attempts : attempts[n].stage \notin {"claimed", "sealed"}

CheckAccepted ==
    \E n \in DOMAIN attempts :
        attempts[n].node = "check" /\ attempts[n].stage = "accepted"

(* The next ready node is claimed: the check after the patch.              *)
Claim(p) ==
    /\ At(p, "idle") /\ NothingLive /\ ~CheckAccepted /\ Latest < MaxAttempts
    /\ attempts' = Append(attempts,
          [node |-> IF PatchAccepted THEN "check" ELSE "patch",
           stage |-> "claimed", frozen |-> NoLook, bytes |-> Absent, by |-> 0])
    /\ proc' = [proc EXCEPT ![p] = [Idle EXCEPT
          !.at = "freeze", !.attempt = Latest + 1]]
    /\ UNCHANGED <<checkout, file, verifiers>>

(* An attempt that is not the process's to seal any more is left alone.    *)
SealFailed(p) ==
    /\ IF Mine(p).stage = "claimed" THEN SetStage(proc[p].attempt, "stopped")
                                    ELSE UNCHANGED attempts
    /\ Finish(p)

(* The candidate is captured, look by look; evidence may be missing.       *)
Freeze(p) ==
    /\ At(p, "freeze")
    /\ \/ \E look \in Looks(proc[p].look) :
             IF look.at # "done"
             THEN /\ proc' = [proc EXCEPT ![p].look = look]
                  /\ UNCHANGED attempts
             ELSE /\ attempts' = [attempts EXCEPT ![proc[p].attempt].frozen = look]
                  /\ proc' = [proc EXCEPT
                        ![p].look = NoLook,
                        ![p].at = IF Mine(p).node = "patch" THEN "write"
                                                             ELSE "spawn"]
       \/ SealFailed(p)
    /\ UNCHANGED <<checkout, file, verifiers>>

WriteArtifact(p) ==
    /\ At(p, "write")
    /\ Store(proc[p].attempt, Torn)
    /\ Move(p, "fill")
    /\ UNCHANGED <<checkout, attempts, verifiers>>

FillArtifact(p) ==
    LET n == proc[p].attempt IN
    /\ At(p, "fill")
    /\ Store(n, PatchOf(n))
    /\ proc' = [proc EXCEPT ![p].at = "seal", ![p].bytes = PatchOf(n)]
    /\ UNCHANGED <<checkout, attempts, verifiers>>

(* A patch is verified after it was sealed, a check before.                *)
Seal(p) ==
    /\ At(p, "seal")
    /\ IF Mine(p).stage = "claimed"
       THEN /\ attempts' = [attempts EXCEPT
                  ![proc[p].attempt].stage = "sealed",
                  ![proc[p].attempt].bytes = proc[p].bytes]
            /\ IF Mine(p).node = "patch"
               THEN proc' = [proc EXCEPT ![p].at = "spawn", ![p].resumed = TRUE]
               ELSE Move(p, "admit")
       ELSE Finish(p) /\ UNCHANGED attempts
    /\ UNCHANGED <<checkout, file, verifiers>>

(* A step that finds a sealed attempt verifies it, whoever sealed it.      *)
Resume(p) ==
    /\ At(p, "idle")
    /\ \E n \in DOMAIN attempts :
          /\ attempts[n].stage = "sealed"
          /\ proc' = [proc EXCEPT ![p] = [Idle EXCEPT
                !.at = "spawn", !.attempt = n, !.resumed = TRUE]]
    /\ UNCHANGED <<checkout, file, attempts, verifiers>>

Spawn(p) ==
    /\ At(p, "spawn") /\ Len(verifiers) < MaxVerifiers
    /\ verifiers' = Append(verifiers,
          [attempt |-> proc[p].attempt,
           at |-> IF Mine(p).node = "patch" THEN "artifact" ELSE "before",
           look |-> NoLook, outcomes |-> <<>>, readable |-> FALSE, said |-> "none"])
    /\ proc' = [proc EXCEPT ![p].at = "wait",
                            ![p].verifier = Len(verifiers) + 1]
    /\ UNCHANGED <<checkout, file, attempts>>

(* The host kills a verifier that takes too long.                          *)
TimeOut(p) ==
    /\ At(p, "wait") /\ verifiers[proc[p].verifier].at # "gone"
    /\ Leave(proc[p].verifier, "none")
    /\ UNCHANGED <<checkout, file, attempts, proc, deaths>>

(* Without a verdict a fresh attempt fails; a sealed one stays sealed.     *)
Return(p) ==
    LET v == verifiers[proc[p].verifier] IN
    /\ At(p, "wait") /\ v.at = "gone"
    /\ \/ v.said = "none" /\ ~proc[p].resumed /\ SealFailed(p)
       \/ v.said = "none" /\ proc[p].resumed /\ Finish(p) /\ UNCHANGED attempts
       \/ /\ v.said # "none"
          /\ Move(p, IF proc[p].resumed THEN "admit" ELSE "read")
          /\ UNCHANGED attempts
    /\ UNCHANGED <<checkout, file, verifiers>>

ReadReport(p) ==
    /\ At(p, "read")
    /\ proc' = [proc EXCEPT ![p].at = "seal",
                            ![p].bytes = file[ArtifactPath(proc[p].attempt)]]
    /\ UNCHANGED <<checkout, file, attempts, verifiers>>

(* issue and admit; on a rejection the retry policy opens the node again.  *)
Admit(p) ==
    LET i == proc[p].verifier IN
    /\ At(p, "admit")
    /\ IF Mine(p).stage = "sealed"
       THEN attempts' = [attempts EXCEPT
               ![proc[p].attempt].stage =
                   IF verifiers[i].said = "accept" THEN "accepted" ELSE "stopped",
               ![proc[p].attempt].by = i]
       ELSE UNCHANGED attempts
    /\ Finish(p)
    /\ UNCHANGED <<checkout, file, verifiers>>

(* A process dies or exits with an error; its verifier goes on.            *)
Die(p) ==
    /\ ~At(p, "idle") /\ deaths < MaxDeaths
    /\ deaths' = deaths + 1
    /\ Finish(p)
    /\ UNCHANGED <<checkout, file, attempts, verifiers>>

Work(p) ==
    /\ \/ Claim(p)
       \/ Freeze(p)
       \/ WriteArtifact(p)
       \/ FillArtifact(p)
       \/ Seal(p)
       \/ Resume(p)
       \/ Spawn(p)
       \/ TimeOut(p)
       \/ Return(p)
       \/ ReadReport(p)
       \/ Admit(p)
    /\ UNCHANGED deaths

(* An operator reclaims a claim, whatever its owner is doing.              *)
Reclaim ==
    /\ \E n \in DOMAIN attempts :
          attempts[n].stage = "claimed" /\ SetStage(n, "stopped")
    /\ UNCHANGED <<checkout, file, verifiers, proc, deaths>>

Next ==
    \/ Edit
    \/ Commit
    \/ \E i \in DOMAIN verifiers : Verify(i)
    \/ \E p \in Procs : Work(p) \/ Die(p)
    \/ Reclaim

Spec == Init /\ [][Next]_vars

-----------------------------------------------------------------------------
(* Properties.                                                             *)

Judged(n) == attempts[n].by # 0

(* run_child of the software verifier: a candidate that is accepted passes *)
(* every required check, although every check and every look of the two    *)
(* captures is at the checkout of its own moment and anybody may edit or   *)
(* commit meanwhile - unless an edit was undone, which the captures cannot *)
(* see, or a frozen commit was captured again while somebody committed.    *)
AcceptedPasses ==
    ~returned =>
        \A n \in DOMAIN attempts :
            LET a == attempts[n] IN
            /\ a.node = "check" /\ a.stage = "accepted"
            /\ a.frozen.kind = "tree" \/ a.by \notin raced
            => \A k \in DOMAIN Required : Held(a.frozen) \in Passes[Required[k]]

VerifiedOnce(n) ==
    \A i, j \in DOMAIN verifiers :
        verifiers[i].attempt = n /\ verifiers[j].attempt = n => i = j

(* artifact_path and the order of writing, sealing and verifying: what a   *)
(* sealed attempt names by digest stays on disk, whatever verifiers that   *)
(* outlived their process still write - except that the software verifier  *)
(* run again for a sealed attempt replaces the report.                     *)
ArtifactAsSealed ==
    \A n \in DOMAIN attempts :
        /\ attempts[n].bytes # Absent
        /\ attempts[n].node = "patch" \/ VerifiedOnce(n)
        => file[ArtifactPath(n)] = attempts[n].bytes

(* execute_claim and verify_and_admit: what is sealed is whole and the      *)
(* attempt's own, never what another verifier or a killed one left in the  *)
(* file, and a verdict on a check that was verified once is the conclusion *)
(* of the sealed report.                                                   *)
VerdictIsReported ==
    \A n \in DOMAIN attempts :
        LET a == attempts[n] IN
        /\ a.bytes # Absent =>
              IF a.node = "patch" THEN a.bytes = PatchOf(n)
              ELSE a.bytes.kind = "report" /\ verifiers[a.bytes.of].attempt = n
        /\ Judged(n) /\ a.node = "check" /\ VerifiedOnce(n) =>
              a.bytes = ReportOf(a.by)

(* A check is about the candidate whose patch was accepted.                *)
SameCandidate ==
    \A m, n \in DOMAIN attempts :
        /\ attempts[m].node = "patch" /\ attempts[m].stage = "accepted"
        /\ attempts[n].node = "check" /\ attempts[n].stage = "accepted"
        => attempts[m].frozen = attempts[n].frozen
=============================================================================
