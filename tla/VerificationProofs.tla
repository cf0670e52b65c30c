------------------------- MODULE VerificationProofs -------------------------
(***************************************************************************)
(* An accepted candidate passes every required check, and what is sealed   *)
(* is whole, the attempt's own and what lies on disk, for any profile, any *)
(* contents of the checkout and any number of processes, attempts and      *)
(* verifiers.                                                              *)
(***************************************************************************)
EXTENDS Verification, SequenceTheorems, TLAPS

Passing(c) == \A k \in DOMAIN Required : c \in Passes[Required[k]]

(* The attempt verifier i works on.                                        *)
Subject(i) == attempts[verifiers[i].attempt]

(* Process p has a verifier that it started for the attempt it works on.   *)
HasVerifier(p) ==
    \/ proc[p].at \in {"wait", "read", "admit"}
    \/ proc[p].at = "seal" /\ Mine(p).node = "check"

(* A process that has yet to freeze an attempt is alone with it.           *)
Alone(p) ==
    /\ Mine(p).stage \in {"claimed", "stopped"}
    /\ \A q \in Procs \ {p} :
          proc[q].at # "idle" => proc[q].attempt # proc[p].attempt
    /\ \A i \in DOMAIN verifiers : verifiers[i].attempt # proc[p].attempt

Ownership ==
    \A p \in Procs :
        /\ proc[p].at \in {"write", "fill"} => Mine(p).node = "patch"
        /\ HasVerifier(p) =>
              /\ proc[p].verifier \in DOMAIN verifiers
              /\ verifiers[proc[p].verifier].attempt = proc[p].attempt
        /\ proc[p].at = "freeze" => Alone(p)

(* A commit overtook verifier i when it captured a frozen commit again.    *)
Overtaken(i) == Subject(i).frozen.kind = "commit" /\ i \in raced

(* What verifier i has found out, unless an edit was undone.  Once its     *)
(* checks run, the frozen candidate passed those that passed, or the       *)
(* checkout has moved away from it and can only come back by undoing; so   *)
(* what the second capture has seen is not the candidate either.           *)
Found(i) ==
    LET v == verifiers[i]
        f == Held(Subject(i).frozen) IN
    /\ v.look.kind = "tree"
    /\ v.at \in {"artifact", "candidate"} => Subject(i).node = "patch"
    /\ v.at = "before" => v.outcomes = <<>>
    /\ v.at \in {"checks", "after"} =>
          /\ f \in past
          /\ Len(v.outcomes) <= Len(Required)
          /\ ~returned /\ Accepting(i) =>
                \/ \A k \in DOMAIN v.outcomes : f \in Passes[Required[k]]
                \/ tree # f
    /\ v.at = "after" =>
          /\ Len(v.outcomes) = Len(Required)
          /\ v.look.at = "status" /\ i \notin raced => head = v.look.head
          /\ v.look.at = "files" /\ v.look.files = f /\ ~returned /\ Accepting(i)
                => Passing(f)
    /\ v.at \in {"write", "fill", "say"} /\ ~returned /\ Accepting(i)
          => Passing(f) \/ Overtaken(i)
    /\ v.said = "accept" /\ ~returned /\ Subject(i).node = "check"
          => Passing(f) \/ Overtaken(i)

Findings == \A i \in DOMAIN verifiers : Found(i)

(* What a capture shows whole was there, the files under the changed paths *)
(* as well as the commit.                                                  *)
Shown(l) ==
    /\ l.at # "head" => l.head \in past
    /\ l.at # "done" => l.kind = "tree"
    /\ l.at = "files" => l.files \in past
    /\ l.at = "done" /\ l.kind = "tree" => l.files \in past \cup {Mixed}

Captures ==
    /\ \A n \in DOMAIN attempts : Shown(attempts[n].frozen)
    /\ \A p \in Procs : Shown(proc[p].look)

VerificationInv ==
    TypeOK /\ Ownership /\ Captures /\ Findings /\ AcceptedPasses

-----------------------------------------------------------------------------
(* Rows of a table.                                                        *)

LEMMA SetRow ==
    ASSUME NEW S, NEW s \in Seq(S), NEW n \in DOMAIN s, NEW e \in S,
           NEW t, t = [s EXCEPT ![n] = e]
    PROVE  /\ t \in Seq(S) /\ Len(t) = Len(s) /\ DOMAIN t = DOMAIN s
           /\ t[n] = e
           /\ \A j \in DOMAIN s : j # n => t[j] = s[j]
<1>1. n \in 1..Len(s) /\ DOMAIN s = 1..Len(s)
  OBVIOUS
<1>2. t \in Seq(S) /\ Len(t) = Len(s)
  BY <1>1, ExceptSeq
<1>3. DOMAIN t = 1..Len(t)
  BY <1>2
<1> QED
  BY <1>1, <1>2, <1>3

LEMMA AddRow ==
    ASSUME NEW S, NEW s \in Seq(S), NEW e \in S, NEW t, t = Append(s, e)
    PROVE  /\ t \in Seq(S) /\ Len(t) = Len(s) + 1
           /\ DOMAIN t = DOMAIN s \cup {Len(s) + 1}
           /\ Len(s) + 1 \notin DOMAIN s
           /\ t[Len(s) + 1] = e
           /\ \A j \in DOMAIN s : t[j] = s[j]
<1>1. DOMAIN s = 1..Len(s) /\ Len(s) \in Nat
  OBVIOUS
<1>2. /\ t \in Seq(S) /\ Len(t) = Len(s) + 1
      /\ \A j \in 1..Len(s) : t[j] = s[j]
      /\ t[Len(s) + 1] = e
  BY AppendProperties
<1>3. DOMAIN t = 1..(Len(s) + 1)
  BY <1>2
<1> QED
  BY <1>1, <1>2, <1>3

-----------------------------------------------------------------------------
LEMMA LookTypes ==
    /\ NoLook \in LookType /\ NoLook.at = "head" /\ NoLook.kind = "tree"
    /\ Shown(NoLook)
    /\ \A i, s : Goto(i, s) => Peek(i, s, NoLook)
BY DEF LookType, NoLook, Unseen, Shown, Goto, Peek

LEMMA VerificationInit == Init => VerificationInv
<1> SUFFICES ASSUME Init PROVE VerificationInv
  OBVIOUS
<1>1. attempts \in Seq(AttemptType) /\ Len(attempts) = 0 /\ DOMAIN attempts = {}
  BY DEF Init
<1>2. verifiers \in Seq(VerifierType) /\ Len(verifiers) = 0 /\ DOMAIN verifiers = {}
  BY DEF Init
<1>3. Absent \in Bytes /\ Idle \in ProcType /\ Shown(NoLook) /\ Idle.look = NoLook
  BY WorkAssumption, LookTypes DEF Absent, Bytes, Idle, ProcType
<1>4. TypeOK
  <2>1. proc \in [Procs -> ProcType] /\ \A p \in Procs : proc[p].at = "idle"
    BY <1>3 DEF Init, Idle
  <2>2. file \in [1..MaxAttempts -> Bytes]
    BY <1>3 DEF Init
  <2>3. /\ {tree, head} \subseteq past /\ past \subseteq Contents
        /\ returned \in BOOLEAN /\ raced \subseteq DOMAIN verifiers
    BY DEF Init
  <2>5. deaths \in 0..MaxDeaths
    BY WorkAssumption DEF Init
  <2>4. Len(attempts) <= MaxAttempts /\ Len(verifiers) <= MaxVerifiers
    BY <1>1, <1>2, WorkAssumption
  <2> QED
    BY <1>1, <1>2, <2>1, <2>2, <2>3, <2>4, <2>5 DEF TypeOK
<1>5. Ownership
  BY DEF Init, Ownership, HasVerifier, Idle
<1>6. Findings /\ AcceptedPasses
  BY <1>1, <1>2 DEF Findings, AcceptedPasses
<1>7. Captures
  BY <1>1, <1>3 DEF Captures, Init
<1> QED
  BY <1>4, <1>5, <1>6, <1>7 DEF VerificationInv

(* One more look shows what is there.                                      *)
LEMMA NextLook ==
    ASSUME TypeOK, NEW l \in LookType, NEW m \in Looks(l)
    PROVE  /\ m \in LookType
           /\ Shown(l) => Shown(m)
           /\ l.at = "head" => m.at = "status" /\ m.head = head
           /\ l.at = "status" =>
                 \/ m.at = "done" /\ m.kind = "commit" /\ m.head = l.head
                       /\ tree = head
                 \/ m.at = "names"
           /\ l.at = "names" => m.at = "files" /\ m.files = tree
           /\ l.at = "files" =>
                 m.at = "done" /\ m.kind = l.kind /\ m.files \in {l.files, tree, Mixed}
           /\ l.at \in {"head", "status", "names", "files"}
           /\ m.at # "done" => m.kind = l.kind
<1>1. tree \in Contents /\ head \in Contents /\ {tree, head} \subseteq past
  BY DEF TypeOK
<1>2. l.at \in {"head", "status", "names", "files", "done"}
  BY DEF LookType
<1>3. CASE l.at = "head"
  <2>1. m = [l EXCEPT !.at = "status", !.head = head]
    BY <1>3 DEF Looks
  <2> QED
    BY <1>1, <1>3, <2>1 DEF LookType, Shown
<1>4. CASE l.at = "status"
  <2>1. m = IF tree = head THEN [l EXCEPT !.at = "done", !.kind = "commit"]
                           ELSE [l EXCEPT !.at = "names"]
    BY <1>4 DEF Looks
  <2> QED
    BY <1>1, <1>4, <2>1 DEF LookType, Shown
<1>5. CASE l.at = "names"
  <2>1. m = [l EXCEPT !.at = "files", !.files = tree]
    BY <1>5 DEF Looks
  <2> QED
    BY <1>1, <1>5, <2>1 DEF LookType, Shown
<1>6. CASE l.at = "files"
  <2>1. Looks(l) = {[l EXCEPT !.at = "done", !.files = c] :
               c \in IF tree = l.files THEN {tree} ELSE {l.files, tree, Mixed}}
    BY <1>6 DEF Looks
  <2>2. PICK c \in {l.files, tree, Mixed} : m = [l EXCEPT !.at = "done", !.files = c]
    BY <2>1
  <2>3. c \in Contents \cup {Unseen, Mixed}
    BY <1>1 DEF LookType
  <2> QED
    BY <1>1, <1>6, <2>2, <2>3 DEF LookType, Shown
<1>7. CASE l.at = "done"
  BY <1>7 DEF Looks
<1> QED
  BY <1>2, <1>3, <1>4, <1>5, <1>6, <1>7

(* An edit takes the checkout away from the frozen candidate, or back to   *)
(* it, which shows in `returned`.                                          *)
LEMMA EditKeeps ==
    ASSUME VerificationInv, Edit
    PROVE  VerificationInv'
<1> PICK c \in Contents \ {tree} :
         /\ tree' = c /\ past' = past \cup {c}
         /\ returned' = (returned \/ c \in past)
  BY DEF Edit
<1> UNCHANGED <<head, raced, file, attempts, verifiers, proc, deaths>>
  BY DEF Edit
<1>1. TypeOK'
  BY DEF VerificationInv, TypeOK
<1>2. Ownership'
  BY DEF VerificationInv, Ownership, HasVerifier, Alone, Mine
<1>3. Findings'
  <2> SUFFICES ASSUME NEW i \in DOMAIN verifiers PROVE Found(i)'
    BY DEF Findings
  <2>1. Found(i)
    BY DEF VerificationInv, Findings
  <2>2. returned => returned'
    OBVIOUS
  <2>3. ASSUME NEW f, tree # f, f \in past, ~returned' PROVE tree' # f
    BY <2>3
  <2>4. Subject(i)' = Subject(i) /\ Accepting(i)' = Accepting(i)
        /\ Overtaken(i)' = Overtaken(i)
    BY DEF Subject, Accepting, Overtaken
  <2> QED
    BY <2>1, <2>2, <2>3, <2>4 DEF Found, Passing, Held
<1>4. AcceptedPasses'
  BY DEF VerificationInv, AcceptedPasses
<1>5. Captures'
  BY DEF VerificationInv, Captures, Shown
<1> QED
  BY <1>1, <1>2, <1>3, <1>4, <1>5 DEF VerificationInv

(* A commit leaves the checkout alone; a capture it may mislead is one it  *)
(* overtakes.                                                              *)
LEMMA CommitKeeps ==
    ASSUME VerificationInv, Commit
    PROVE  VerificationInv'
<1>1. /\ head' = tree
      /\ raced' = raced \cup
            {i \in DOMAIN verifiers :
                verifiers[i].at = "after" /\ verifiers[i].look.at = "status"}
      /\ UNCHANGED <<tree, past, returned, file, attempts, verifiers, proc, deaths>>
  BY DEF Commit
<1>2. TypeOK'
  BY <1>1 DEF VerificationInv, TypeOK
<1>3. Ownership'
  BY <1>1 DEF VerificationInv, Ownership, HasVerifier, Alone, Mine
<1>4. Findings'
  <2> SUFFICES ASSUME NEW i \in DOMAIN verifiers PROVE Found(i)'
    BY <1>1 DEF Findings
  <2>1. Found(i)
    BY DEF VerificationInv, Findings
  <2>2. Subject(i)' = Subject(i) /\ Accepting(i)' = Accepting(i)
        /\ (Overtaken(i) => Overtaken(i)')
    BY <1>1 DEF Subject, Accepting, Overtaken
  <2>3. verifiers[i].at = "after" /\ verifiers[i].look.at = "status" => i \in raced'
    BY <1>1
  <2> QED
    BY <1>1, <2>1, <2>2, <2>3 DEF Found, Passing, Held
<1>5. AcceptedPasses'
  BY <1>1 DEF VerificationInv, AcceptedPasses
<1>6. Captures'
  BY <1>1 DEF VerificationInv, Captures, Shown
<1> QED
  BY <1>2, <1>3, <1>4, <1>5, <1>6 DEF VerificationInv

(* Verifier i takes a step: what it finds is all there is to show.         *)
LEMMA VerifierMoves ==
    ASSUME VerificationInv, NEW i \in DOMAIN verifiers, NEW e \in VerifierType,
           e.attempt = verifiers[i].attempt,
           verifiers' = [verifiers EXCEPT ![i] = e],
           UNCHANGED <<checkout, attempts, proc, deaths>>,
           file' \in [1..MaxAttempts -> Bytes],
           Found(i)'
    PROVE  VerificationInv'
<1>1. /\ verifiers' \in Seq(VerifierType) /\ Len(verifiers') = Len(verifiers)
      /\ DOMAIN verifiers' = DOMAIN verifiers
      /\ verifiers'[i] = e
      /\ \A j \in DOMAIN verifiers : j # i => verifiers'[j] = verifiers[j]
  <2>1. verifiers \in Seq(VerifierType)
    BY DEF VerificationInv, TypeOK
  <2> QED
    BY <2>1, SetRow
<1>2. \A j \in DOMAIN verifiers : verifiers'[j].attempt = verifiers[j].attempt
  BY <1>1
<1>3. TypeOK'
  BY <1>1, <1>2 DEF VerificationInv, TypeOK, checkout
<1>4. Ownership'
  BY <1>1, <1>2 DEF VerificationInv, Ownership, HasVerifier, Alone, Mine
<1>5. Findings'
  <2> SUFFICES ASSUME NEW j \in DOMAIN verifiers, j # i PROVE Found(j)'
    BY <1>1 DEF Findings
  <2>1. Found(j)
    BY DEF VerificationInv, Findings
  <2>2. verifiers'[j] = verifiers[j] /\ Subject(j)' = Subject(j)
    BY <1>1 DEF Subject
  <2> QED
    BY <2>1, <2>2 DEF Found, Passing, Accepting, Overtaken, Held, checkout
<1>6. AcceptedPasses'
  BY DEF VerificationInv, AcceptedPasses, checkout
<1>7. Captures'
  BY DEF VerificationInv, Captures, Shown, checkout
<1> QED
  BY <1>3, <1>4, <1>5, <1>6, <1>7 DEF VerificationInv

(* A verifier that leaves without an answer has nothing to answer for.     *)
LEMMA LeaveKeeps ==
    ASSUME VerificationInv, NEW i \in DOMAIN verifiers, NEW a \in Answers,
           Leave(i, a),
           a = "accept" /\ ~returned /\ Subject(i).node = "check"
               => Passing(Held(Subject(i).frozen)) \/ Overtaken(i),
           UNCHANGED <<checkout, file, attempts, proc, deaths>>
    PROVE  VerificationInv'
<1> DEFINE e == [verifiers[i] EXCEPT !.at = "gone", !.look = NoLook,
                                     !.outcomes = <<>>, !.readable = FALSE,
                                     !.said = a]
<1>1. verifiers \in Seq(VerifierType) /\ verifiers[i] \in VerifierType
  BY DEF VerificationInv, TypeOK
<1>2. e \in VerifierType
  <2>1. <<>> \in Seq({"passed", "failed"}) /\ NoLook \in LookType
    BY LookTypes
  <2>2. ASSUME NEW v \in VerifierType, NEW x \in Seq({"passed", "failed"}),
               NEW l \in LookType
        PROVE  [v EXCEPT !.at = "gone", !.look = l, !.outcomes = x,
                         !.readable = FALSE, !.said = a] \in VerifierType
    BY <2>2 DEF VerifierType
  <2> QED
    BY <1>1, <2>1, <2>2
<1>3. /\ e.attempt = verifiers[i].attempt /\ e.at = "gone" /\ e.said = a
      /\ e.look.kind = "tree"
  BY <1>1, LookTypes DEF VerifierType
<1>4. verifiers' = [verifiers EXCEPT ![i] = e]
  BY <1>1 DEF Leave
<1>5. verifiers'[i] = e
  BY <1>1, <1>2, <1>4, SetRow
<1>6. Subject(i)' = Subject(i)
  BY <1>3, <1>5 DEF Subject
<1>7. Found(i)'
  <2>1. verifiers'[i].at = "gone" /\ verifiers'[i].said = a
        /\ verifiers'[i].look.kind = "tree"
    BY <1>3, <1>5
  <2> QED
    BY <1>6, <2>1 DEF Found, Passing, Overtaken, Held, checkout
<1>8. file' \in [1..MaxAttempts -> Bytes]
  BY DEF VerificationInv, TypeOK
<1> HIDE DEF e
<1> QED
  BY <1>2, <1>3, <1>4, <1>7, <1>8, VerifierMoves

(* The same for a step that only moves on, or looks.                       *)
LEMMA PeekRow ==
    ASSUME TypeOK, NEW i \in DOMAIN verifiers,
           NEW s \in {"before", "checks", "after", "write", "fill", "say",
                      "artifact", "candidate", "gone"},
           NEW look \in LookType, Peek(i, s, look)
    PROVE  /\ verifiers[i] \in VerifierType
           /\ verifiers'[i] \in VerifierType
           /\ verifiers' = [verifiers EXCEPT ![i] = verifiers'[i]]
           /\ verifiers'[i].attempt = verifiers[i].attempt
           /\ verifiers'[i].at = s
           /\ verifiers'[i].look = look
           /\ verifiers'[i].outcomes = verifiers[i].outcomes
           /\ verifiers'[i].said = verifiers[i].said
<1> DEFINE e == [verifiers[i] EXCEPT !.at = s, !.look = look]
<1>1. verifiers \in Seq(VerifierType) /\ verifiers[i] \in VerifierType
  BY DEF TypeOK
<1>2. e \in VerifierType
  BY <1>1 DEF VerifierType
<1>3. verifiers' = [verifiers EXCEPT ![i] = e]
  BY <1>1 DEF Peek
<1>4. verifiers'[i] = e
  BY <1>1, <1>2, <1>3, SetRow
<1>5. /\ e.attempt = verifiers[i].attempt /\ e.at = s /\ e.look = look
      /\ e.outcomes = verifiers[i].outcomes /\ e.said = verifiers[i].said
  BY <1>1 DEF VerifierType
<1> QED
  BY <1>1, <1>2, <1>3, <1>4, <1>5

(* A step of verifier i that only moves on, and may write its file.        *)
LEMMA PeekKeeps ==
    ASSUME VerificationInv, NEW i \in DOMAIN verifiers,
           NEW s \in {"before", "checks", "after", "write", "fill", "say",
                      "artifact", "candidate", "gone"},
           NEW look \in LookType, Peek(i, s, look),
           UNCHANGED <<checkout, attempts, proc, deaths>>,
           file' \in [1..MaxAttempts -> Bytes],
           Found(i)'
    PROVE  VerificationInv'
<1>1. TypeOK
  BY DEF VerificationInv
<1> PICK e : e = verifiers'[i]
  OBVIOUS
<1>2. /\ e \in VerifierType /\ verifiers' = [verifiers EXCEPT ![i] = e]
      /\ e.attempt = verifiers[i].attempt
  BY <1>1, PeekRow
<1> QED
  BY <1>2, VerifierMoves

(* The frozen candidate passed the checks so far, or the checkout is not   *)
(* the frozen candidate any more: the checks read the checkout, not it.    *)
LEMMA RunCheckKeeps ==
    ASSUME VerificationInv, NEW i \in DOMAIN verifiers, RunCheck(i),
           UNCHANGED <<checkout, attempts, proc, deaths>>
    PROVE  VerificationInv'
<1> DEFINE v == verifiers[i]
           k == Len(v.outcomes) + 1
           f == Held(Subject(i).frozen)
<1>1. v \in VerifierType /\ v.at = "checks" /\ Found(i)
  BY DEF VerificationInv, TypeOK, Findings, RunCheck
<1>2. PICK o \in {"passed", "failed"} :
         /\ o = "passed" => tree \in Passes[Required[k]]
         /\ verifiers' = [verifiers EXCEPT ![i].outcomes = Append(@, o)]
  BY DEF RunCheck
<1> DEFINE e == [v EXCEPT !.outcomes = Append(v.outcomes, o)]
<1>3. /\ v.outcomes \in Seq({"passed", "failed"})
      /\ Append(v.outcomes, o) \in Seq({"passed", "failed"})
      /\ Len(Append(v.outcomes, o)) = k /\ k \in Nat
      /\ DOMAIN Append(v.outcomes, o) = DOMAIN v.outcomes \cup {k}
      /\ k \notin DOMAIN v.outcomes
      /\ Append(v.outcomes, o)[k] = o
      /\ \A j \in DOMAIN v.outcomes : Append(v.outcomes, o)[j] = v.outcomes[j]
  <2>1. v.outcomes \in Seq({"passed", "failed"})
    BY <1>1 DEF VerifierType
  <2>2. k \in Nat
    BY <2>1
  <2> QED
    BY <2>1, <2>2, AddRow
<1>4. e \in VerifierType
  <2>1. ASSUME NEW w \in VerifierType, NEW x \in Seq({"passed", "failed"})
        PROVE  [w EXCEPT !.outcomes = x] \in VerifierType
    BY <2>1 DEF VerifierType
  <2> QED
    BY <1>1, <1>3, <2>1
<1>5. /\ e.attempt = v.attempt /\ e.at = v.at /\ e.said = v.said
      /\ e.look = v.look /\ e.outcomes = Append(v.outcomes, o)
  BY <1>1 DEF VerifierType
<1>6. verifiers' = [verifiers EXCEPT ![i] = e]
  BY <1>2
<1>7. verifiers'[i] = e
  <2>1. verifiers \in Seq(VerifierType)
    BY DEF VerificationInv, TypeOK
  <2> HIDE DEF e, v, k
  <2> QED
    BY <1>4, <1>6, <2>1, SetRow
<1> HIDE DEF e
<1>8. Subject(i)' = Subject(i)
  BY <1>5, <1>7 DEF Subject
<1>9. Found(i)'
  <2>1. k <= Len(Required)
    BY DEF RunCheck
  <2>2. f \in past' /\ Len(verifiers'[i].outcomes) <= Len(Required)
    <3>1. f \in past
      BY <1>1 DEF Found
    <3> QED
      BY <1>3, <1>5, <1>7, <2>1, <3>1 DEF checkout
  <2>3. ASSUME ~returned, Accepting(i)'
        PROVE  (\A j \in DOMAIN verifiers'[i].outcomes : f \in Passes[Required[j]])
                  \/ tree # f
    <3>1. \A j \in DOMAIN v.outcomes : v.outcomes[j] = "passed"
      BY <1>3, <1>5, <1>7, <2>3 DEF Accepting
    <3>2. o = "passed"
      BY <1>3, <1>5, <1>7, <2>3 DEF Accepting
    <3>3. (\A j \in DOMAIN v.outcomes : f \in Passes[Required[j]]) \/ tree # f
      BY <1>1, <2>3, <3>1 DEF Found, Accepting
    <3> QED
      BY <1>2, <1>3, <1>5, <1>7, <3>2, <3>3
  <2>4. /\ verifiers'[i].at = "checks" /\ verifiers'[i].said = v.said
        /\ verifiers'[i].look.kind = "tree"
    BY <1>1, <1>5, <1>7 DEF Found
  <2>5. v.said = "accept" /\ ~returned /\ Subject(i).node = "check"
            => Passing(f) \/ Overtaken(i)
    BY <1>1 DEF Found
  <2> QED
    BY <1>8, <2>2, <2>3, <2>4, <2>5 DEF Found, Passing, Overtaken, Held, checkout
<1>10. file' \in [1..MaxAttempts -> Bytes]
  BY DEF RunCheck, VerificationInv, TypeOK
<1> QED
  BY <1>4, <1>5, <1>6, <1>9, <1>10, VerifierMoves

LEMMA StoreFile ==
    ASSUME TypeOK, NEW n \in 1..MaxAttempts, NEW b \in Bytes, Store(n, b)
    PROVE  file' \in [1..MaxAttempts -> Bytes]
BY DEF TypeOK, Store, ArtifactPath

LEMMA FileTypes ==
    /\ Absent \in Bytes /\ Torn \in Bytes
    /\ \A n \in Nat : PatchOf(n) \in Bytes /\ ReportOf(n) \in Bytes
BY DEF Bytes, Absent, Torn, PatchOf, ReportOf

LEMMA VerifyKeeps ==
    ASSUME VerificationInv, NEW i \in DOMAIN verifiers, Verify(i)
    PROVE  VerificationInv'
<1> DEFINE v == verifiers[i]
<1>1. /\ TypeOK /\ v \in VerifierType /\ Found(i)
      /\ UNCHANGED <<checkout, attempts, proc, deaths>>
      /\ v.attempt \in 1..MaxAttempts /\ v.outcomes \in Seq({"passed", "failed"})
      /\ i \in Nat
  <2>1. v \in VerifierType
    BY DEF VerificationInv, TypeOK
  <2>2. v.attempt \in 1..MaxAttempts /\ v.outcomes \in Seq({"passed", "failed"})
    BY <2>1 DEF VerifierType
  <2>3. i \in Nat
    BY DEF VerificationInv, TypeOK
  <2> QED
    BY <2>1, <2>2, <2>3 DEF VerificationInv, Findings, Verify
<1>2. file \in [1..MaxAttempts -> Bytes]
  BY <1>1 DEF TypeOK
<1> DEFINE f == Held(Subject(i).frozen)
<1>20. /\ v.look \in LookType /\ NoLook \in LookType /\ Subject(i).frozen \in LookType
       /\ Shown(Subject(i).frozen)
  <2>1. v.look \in LookType
    BY <1>1 DEF VerifierType
  <2>2. attempts \in Seq(AttemptType) /\ v.attempt \in DOMAIN attempts
    BY <1>1 DEF TypeOK
  <2>3. Subject(i) \in AttemptType
    BY <2>2 DEF Subject
  <2>4. Shown(Subject(i).frozen)
    BY <2>2 DEF VerificationInv, Captures, Subject
  <2> QED
    BY <2>1, <2>3, <2>4, LookTypes DEF AttemptType
<1>21. ASSUME NEW look \in Looks(v.look), look.at # "done",
              v.at \in {"before", "candidate"}, Peek(i, v.at, look),
              UNCHANGED file
       PROVE  VerificationInv'
  <2>1. look \in LookType /\ look.kind = "tree"
    BY <1>1, <1>20, <1>21, NextLook DEF Found
  <2>2. /\ verifiers'[i].at = v.at /\ verifiers'[i].outcomes = v.outcomes
        /\ verifiers'[i].look = look
        /\ verifiers'[i].said = v.said /\ Subject(i)' = Subject(i)
    BY <1>1, <1>21, <2>1, PeekRow DEF Subject
  <2>3. Found(i)'
    BY <1>1, <1>21, <2>1, <2>2 DEF Found, Passing, Overtaken, Held, checkout
  <2> QED
    BY <1>1, <1>2, <1>21, <2>1, <2>3, PeekKeeps
<1>3. CASE CaptureBefore(i)
  <2>1. PICK look \in Looks(v.look) :
           IF look.at # "done" THEN Peek(i, "before", look)
           ELSE IF Agree(look, Frozen(i)) THEN Goto(i, "checks")
           ELSE Leave(i, "none")
    BY <1>3 DEF CaptureBefore
  <2>2. v.at = "before" /\ UNCHANGED file
    BY <1>3 DEF CaptureBefore
  <2>3. CASE look.at # "done"
    BY <1>21, <2>1, <2>2, <2>3
  <2>4. CASE look.at = "done" /\ Agree(look, Frozen(i))
    <3>1. Peek(i, "checks", NoLook)
      BY <2>1, <2>4, LookTypes
    <3>2. /\ verifiers'[i].at = "checks" /\ verifiers'[i].outcomes = <<>>
          /\ verifiers'[i].look = NoLook
          /\ verifiers'[i].said = v.said /\ Subject(i)' = Subject(i)
      BY <1>1, <1>20, <2>2, <3>1, PeekRow DEF Found, Subject
    <3>3. f \in past
      BY <1>20, <2>4 DEF Agree, Frozen, Subject, Shown, Held, LookType
    <3>4. Len(Required) \in Nat
      BY WorkAssumption
    <3>5. Found(i)'
      BY <1>1, <3>2, <3>3, <3>4, LookTypes DEF Found, Passing, Overtaken, Held, checkout
    <3> QED
      BY <1>1, <1>2, <1>20, <2>2, <3>1, <3>5, PeekKeeps
  <2>5. CASE look.at = "done" /\ ~Agree(look, Frozen(i))
    BY <1>1, <2>1, <2>2, <2>5, LeaveKeeps DEF Answers
  <2> QED
    BY <2>3, <2>4, <2>5
<1>4. CASE RunCheck(i)
  BY <1>1, <1>4, RunCheckKeeps
<1>22. CASE ChecksRan(i)
  <2>1. /\ v.at = "checks" /\ Len(v.outcomes) = Len(Required)
        /\ Peek(i, "after", NoLook) /\ UNCHANGED file
    BY <1>22, LookTypes DEF ChecksRan
  <2>2. /\ verifiers'[i].at = "after" /\ verifiers'[i].outcomes = v.outcomes
        /\ verifiers'[i].look = NoLook
        /\ verifiers'[i].said = v.said /\ Subject(i)' = Subject(i)
    BY <1>1, <1>20, <2>1, PeekRow DEF Subject
  <2>3. Accepting(i)' = Accepting(i)
    BY <2>2 DEF Accepting
  <2>4. Found(i)'
    BY <1>1, <2>1, <2>2, <2>3, LookTypes DEF Found, Passing, Overtaken, Held, checkout
  <2> QED
    BY <1>1, <1>2, <1>20, <2>1, <2>4, PeekKeeps
<1>5. CASE CaptureAfter(i)
  <2>1. PICK look \in Looks(v.look) :
           IF look.at # "done" THEN Peek(i, "after", look)
           ELSE IF CaptureAgrees(i, look) THEN Goto(i, "write")
           ELSE Leave(i, "none")
    BY <1>5 DEF CaptureAfter
  <2>2. v.at = "after" /\ UNCHANGED file
    BY <1>5 DEF CaptureAfter
  <2>3. Len(v.outcomes) = Len(Required) /\ DOMAIN v.outcomes = DOMAIN Required
    BY <1>1, <2>2, WorkAssumption DEF Found
  <2>4. ~returned /\ Accepting(i) => Passing(f) \/ tree # f
    BY <1>1, <2>2, <2>3 DEF Found, Passing
  <2>5. CASE look.at # "done"
    <3>1. Peek(i, "after", look) /\ look \in LookType /\ look.kind = "tree"
      BY <1>1, <1>20, <2>1, <2>5, NextLook DEF Found
    <3>2. /\ verifiers'[i].at = "after" /\ verifiers'[i].outcomes = v.outcomes
          /\ verifiers'[i].look = look
          /\ verifiers'[i].said = v.said /\ Subject(i)' = Subject(i)
      BY <1>1, <3>1, PeekRow DEF Subject
    <3>3. Accepting(i)' = Accepting(i)
      BY <3>2 DEF Accepting
    <3>4. look.at = "status" => look.head = head
      BY <1>1, <1>20, <2>5, NextLook
    <3>5. look.at = "files" => look.files = tree
      BY <1>1, <1>20, <2>5, NextLook
    <3>6. Found(i)'
      BY <1>1, <2>2, <2>3, <2>4, <3>1, <3>2, <3>3, <3>4, <3>5
         DEF Found, Passing, Overtaken, Held, checkout
    <3> QED
      BY <1>1, <1>2, <2>2, <3>1, <3>6, PeekKeeps
  <2>6. CASE look.at = "done" /\ CaptureAgrees(i, look)
    <3>1. Peek(i, "write", NoLook)
      BY <2>1, <2>6, LookTypes
    <3>2. look = Subject(i).frozen /\ look.files # Mixed
      BY <2>6 DEF CaptureAgrees, Agree, Frozen, Subject
    <3>3. /\ verifiers'[i].at = "write" /\ verifiers'[i].outcomes = v.outcomes
          /\ verifiers'[i].look = NoLook
          /\ verifiers'[i].said = v.said /\ Subject(i)' = Subject(i)
      BY <1>1, <1>20, <3>1, PeekRow DEF Subject
    <3>4. Accepting(i)' = Accepting(i)
      BY <3>3 DEF Accepting
    <3>5. ASSUME v.look.at = "status"
          PROVE  ~returned /\ Accepting(i) => Passing(f) \/ Overtaken(i)
      <4>1. look.kind = "commit" /\ look.head = v.look.head /\ tree = head
        BY <1>1, <1>20, <2>6, <3>5, NextLook
      <4>2. i \in raced \/ head = v.look.head
        BY <1>1, <2>2, <3>5 DEF Found
      <4>3. Overtaken(i) \/ tree = f
        BY <3>2, <4>1, <4>2 DEF Overtaken, Held
      <4> QED
        BY <2>4, <4>3
    <3>6. ASSUME v.look.at = "files"
          PROVE  ~returned /\ Accepting(i) => Passing(f) \/ Overtaken(i)
      <4>1. look.kind = "tree" /\ look.files \in {v.look.files, tree, Mixed}
        BY <1>1, <1>20, <3>6, NextLook DEF Found
      <4>2. f = v.look.files \/ f = tree
        BY <3>2, <4>1 DEF Held
      <4>3. v.look.files = f /\ ~returned /\ Accepting(i) => Passing(f)
        BY <1>1, <2>2, <3>6 DEF Found
      <4> QED
        BY <2>4, <4>2, <4>3
    <3>7. ~returned /\ Accepting(i) => Passing(f) \/ Overtaken(i)
      <4>1. v.look.at \in {"status", "files"}
        BY <1>1, <1>20, <2>6, NextLook
      <4> QED
        BY <3>5, <3>6, <4>1
    <3>8. Found(i)'
      BY <1>1, <3>3, <3>4, <3>7, LookTypes DEF Found, Passing, Overtaken, Held, checkout
    <3> QED
      BY <1>1, <1>2, <1>20, <2>2, <3>1, <3>8, PeekKeeps
  <2>7. CASE look.at = "done" /\ ~CaptureAgrees(i, look)
    BY <1>1, <2>1, <2>2, <2>7, LeaveKeeps DEF Answers
  <2> QED
    BY <2>5, <2>6, <2>7
<1>6. ASSUME NEW s \in {"fill", "say"}, Goto(i, s), v.at \in {"write", "fill"},
             file' \in [1..MaxAttempts -> Bytes]
      PROVE  VerificationInv'
  <2>4. Peek(i, s, NoLook)
    BY <1>6, LookTypes
  <2>1. /\ verifiers'[i].at = s /\ verifiers'[i].outcomes = v.outcomes
        /\ verifiers'[i].look = NoLook
        /\ verifiers'[i].said = v.said /\ Subject(i)' = Subject(i)
    <3>1. s \in {"before", "checks", "after", "write", "fill", "say",
                 "artifact", "candidate", "gone"}
      BY <1>6
    <3>2. /\ verifiers'[i].at = s /\ verifiers'[i].outcomes = v.outcomes
          /\ verifiers'[i].look = NoLook /\ verifiers'[i].said = v.said
          /\ verifiers'[i].attempt = v.attempt
      BY <1>1, <1>20, <2>4, <3>1, PeekRow
    <3> QED
      BY <1>1, <3>2 DEF Subject
  <2>2. Accepting(i)' = Accepting(i)
    BY <2>1 DEF Accepting
  <2>3. Found(i)'
    BY <1>1, <1>6, <2>1, <2>2, LookTypes DEF Found, Passing, Overtaken, Held, checkout
  <2> QED
    BY <1>1, <1>6, <1>20, <2>3, <2>4, PeekKeeps
<1>7. CASE WriteReport(i)
  BY <1>1, <1>6, <1>7, FileTypes, StoreFile DEF WriteReport
<1>8. CASE FillReport(i)
  <2>1. file' \in [1..MaxAttempts -> Bytes]
    BY <1>1, <1>8, FileTypes, StoreFile DEF FillReport
  <2> QED
    BY <1>6, <1>8, <2>1 DEF FillReport
<1>9. CASE Say(i)
  <2>1. CASE Accepting(i)
    <3>1. Leave(i, "accept") /\ v.at = "say" /\ UNCHANGED file
      BY <1>9, <2>1 DEF Say
    <3>2. ~returned => Passing(f) \/ Overtaken(i)
      BY <1>1, <2>1, <3>1 DEF Found
    <3> QED
      BY <1>1, <3>1, <3>2, LeaveKeeps DEF Answers
  <2>2. CASE ~Accepting(i)
    <3>1. Leave(i, "reject") /\ UNCHANGED file
      BY <1>9, <2>2 DEF Say
    <3> QED
      BY <1>1, <3>1, LeaveKeeps DEF Answers
  <2> QED
    BY <2>1, <2>2
<1>10. CASE ReadArtifact(i)
  <2> DEFINE w == file[ArtifactPath(v.attempt)] = PatchOf(v.attempt)
             e == [v EXCEPT !.at = "candidate", !.readable = w]
  <2>9. v.at = "artifact" /\ UNCHANGED file
    BY <1>10 DEF ReadArtifact
  <2>10. CASE "base_matches" \notin PatchChecks
    <3>1. Subject(i).node = "patch"
      BY <1>1, <2>9 DEF Found
    <3>2. PICK a \in {"accept", "reject"} : Leave(i, a)
      BY <1>10, <2>10 DEF ReadArtifact
    <3> QED
      BY <1>1, <2>9, <3>1, <3>2, LeaveKeeps DEF Answers
  <2>11. SUFFICES ASSUME "base_matches" \in PatchChecks PROVE VerificationInv'
    BY <2>10
  <2>1. v.at = "artifact" /\ verifiers' = [verifiers EXCEPT ![i] = e]
        /\ UNCHANGED file
    BY <1>10, <2>11 DEF ReadArtifact
  <2>2. e \in VerifierType /\ e.attempt = v.attempt
    <3>1. ASSUME NEW x \in VerifierType, NEW b \in BOOLEAN
          PROVE  /\ [x EXCEPT !.at = "candidate", !.readable = b] \in VerifierType
                 /\ [x EXCEPT !.at = "candidate", !.readable = b].attempt = x.attempt
      BY <3>1 DEF VerifierType
    <3>2. w \in BOOLEAN
      OBVIOUS
    <3> QED
      BY <1>1, <3>1, <3>2
  <2>3. e.at = "candidate" /\ e.said = v.said /\ e.look = v.look
    BY <1>1 DEF VerifierType
  <2>4. verifiers'[i] = e
    <3>1. verifiers \in Seq(VerifierType)
      BY <1>1 DEF TypeOK
    <3> HIDE DEF e
    <3> QED
      BY <2>1, <2>2, <3>1, SetRow
  <2> HIDE DEF e
  <2>5. Subject(i)' = Subject(i)
    BY <1>1, <2>2, <2>4 DEF Subject
  <2>6. Found(i)'
    BY <1>1, <2>1, <2>3, <2>4, <2>5 DEF Found, Passing, Overtaken, Held, checkout
  <2> QED
    BY <1>1, <1>2, <2>1, <2>2, <2>6, VerifierMoves
<1>11. CASE CaptureCandidate(i)
  <2>1. Subject(i).node = "patch"
    BY <1>1, <1>11 DEF Found, CaptureCandidate
  <2>2. PICK look \in Looks(v.look) :
           IF look.at # "done" THEN Peek(i, "candidate", look)
           ELSE Leave(i, IF v.readable /\ Agree(look, Frozen(i))
                         THEN "accept" ELSE "reject")
    BY <1>11 DEF CaptureCandidate
  <2>3. v.at = "candidate" /\ UNCHANGED file
    BY <1>11 DEF CaptureCandidate
  <2>4. CASE look.at # "done"
    BY <1>21, <2>2, <2>3, <2>4
  <2>5. CASE look.at = "done"
    <3>1. PICK a \in {"accept", "reject"} : Leave(i, a)
      BY <2>2, <2>5
    <3> QED
      BY <1>1, <2>1, <2>3, <3>1, LeaveKeeps DEF Answers
  <2> QED
    BY <2>4, <2>5
<1>12. CASE ExitWithout(i)
  BY <1>1, <1>12, LeaveKeeps DEF ExitWithout, Answers
<1> QED
  BY <1>3, <1>4, <1>5, <1>7, <1>8, <1>9, <1>10, <1>11, <1>12, <1>22 DEF Verify

-----------------------------------------------------------------------------
(* The controller.  A process goes to row r and may change the stage of    *)
(* the attempt it works on; it comes to an attempt of somebody else only   *)
(* when that is sealed.                                                    *)
LEMMA ProcessMoves ==
    ASSUME VerificationInv, NEW p \in Procs, NEW r \in ProcType,
           proc' = [proc EXCEPT ![p] = r],
           UNCHANGED <<checkout, verifiers>>,
           file' \in [1..MaxAttempts -> Bytes], deaths' \in 0..MaxDeaths,
           attempts' \in Seq(AttemptType), Len(attempts') = Len(attempts),
           \A n \in DOMAIN attempts :
               /\ attempts'[n].node = attempts[n].node
               /\ attempts'[n].frozen = attempts[n].frozen
               /\ attempts'[n].stage # attempts[n].stage =>
                     proc[p].at # "idle" /\ n = proc[p].attempt,
           r.at # "freeze",
           r.at # "idle" =>
               /\ r.attempt \in DOMAIN attempts
               /\ \/ proc[p].at # "idle" /\ r.attempt = proc[p].attempt
                  \/ attempts[r.attempt].stage = "sealed",
           r.at \in {"write", "fill"} => attempts[r.attempt].node = "patch",
           (\/ r.at \in {"wait", "read", "admit"}
            \/ r.at = "seal" /\ attempts[r.attempt].node = "check")
               => /\ r.verifier \in DOMAIN verifiers
                  /\ verifiers[r.verifier].attempt = r.attempt,
           r.look \in {proc[p].look, NoLook},
           AcceptedPasses'
    PROVE  VerificationInv'
<1>1. TypeOK /\ Ownership /\ Findings
  BY DEF VerificationInv
<1>2. DOMAIN attempts' = DOMAIN attempts
  BY <1>1 DEF TypeOK
<1>3. proc'[p] = r /\ \A q \in Procs \ {p} : proc'[q] = proc[q]
  BY <1>1 DEF TypeOK
<1>4. proc' \in [Procs -> ProcType]
  BY <1>1 DEF TypeOK
<1>5. TypeOK'
  <2>1. \A q \in Procs :
           /\ proc'[q].at # "idle" => proc'[q].attempt \in DOMAIN attempts'
           /\ proc'[q].at \in {"wait", "read", "admit"} =>
                 proc'[q].verifier \in DOMAIN verifiers'
    BY <1>1, <1>2, <1>3 DEF TypeOK
  <2>2. /\ {tree, head}' \subseteq past' /\ past' \subseteq Contents
        /\ returned' \in BOOLEAN /\ raced' \subseteq DOMAIN verifiers'
        /\ Len(attempts') <= MaxAttempts
        /\ verifiers' \in Seq(VerifierType) /\ Len(verifiers') <= MaxVerifiers
        /\ \A i \in DOMAIN verifiers' : verifiers'[i].attempt \in DOMAIN attempts'
    BY <1>1, <1>2 DEF TypeOK, checkout
  <2> QED
    BY <1>4, <2>1, <2>2 DEF TypeOK
<1>6. Ownership'
  <2> SUFFICES ASSUME NEW q \in Procs
               PROVE  /\ proc'[q].at \in {"write", "fill"} => Mine(q)'.node = "patch"
                      /\ HasVerifier(q)' =>
                            /\ proc'[q].verifier \in DOMAIN verifiers'
                            /\ verifiers'[proc'[q].verifier].attempt = proc'[q].attempt
                      /\ proc'[q].at = "freeze" => Alone(q)'
    BY DEF Ownership
  <2>1. CASE q = p
    <3>1. proc'[q] = r /\ Mine(q)' = attempts'[r.attempt]
      BY <1>3, <2>1 DEF Mine
    <3>2. r.at # "idle" => Mine(q)'.node = attempts[r.attempt].node
      BY <3>1
    <3>3. proc'[q].at \in {"write", "fill"} => Mine(q)'.node = "patch"
      BY <3>1, <3>2
    <3>4. HasVerifier(q)' =>
             /\ proc'[q].verifier \in DOMAIN verifiers'
             /\ verifiers'[proc'[q].verifier].attempt = proc'[q].attempt
      BY <3>1, <3>2 DEF HasVerifier
    <3> QED
      BY <3>1, <3>3, <3>4
  <2>2. CASE q # p
    <3>1. proc'[q] = proc[q]
      BY <1>3, <2>2
    <3>2. proc[q].at # "idle" => Mine(q)'.node = Mine(q).node
      BY <1>1, <3>1 DEF TypeOK, Mine
    <3>3. ASSUME proc[q].at = "freeze" PROVE Alone(q)'
      <4>1. Alone(q) /\ proc[q].attempt \in DOMAIN attempts
        BY <1>1, <3>3 DEF Ownership, TypeOK
      <4>2. r.at # "idle" => r.attempt # proc[q].attempt
        BY <2>2, <4>1 DEF Alone, Mine
      <4>3. Mine(q)'.stage = Mine(q).stage
        BY <2>2, <3>1, <4>1 DEF Alone, Mine
      <4>4. \A o \in Procs \ {q} :
               proc'[o].at # "idle" => proc'[o].attempt # proc'[q].attempt
        BY <1>3, <3>1, <4>1, <4>2 DEF Alone
      <4> QED
        BY <3>1, <4>1, <4>3, <4>4 DEF Alone
    <3> QED
      BY <1>1, <3>1, <3>2, <3>3 DEF Ownership, HasVerifier
  <2> QED
    BY <2>1, <2>2
<1>7. Findings'
  <2> SUFFICES ASSUME NEW i \in DOMAIN verifiers PROVE Found(i)'
    BY DEF Findings
  <2>1. Found(i) /\ verifiers[i].attempt \in DOMAIN attempts
    BY <1>1 DEF Findings, TypeOK
  <2>2. /\ Subject(i)'.node = Subject(i).node
        /\ Subject(i)'.frozen = Subject(i).frozen
    BY <2>1 DEF Subject
  <2> QED
    BY <2>1, <2>2 DEF Found, Passing, Accepting, Overtaken, Held, checkout
<1>8. Captures'
  <2>1. /\ \A n \in DOMAIN attempts : Shown(attempts[n].frozen)
        /\ \A q \in Procs : Shown(proc[q].look)
    BY DEF VerificationInv, Captures
  <2>2. \A q \in Procs : proc'[q].look \in {proc[q].look, NoLook}
    BY <1>3
  <2>3. \A l : Shown(l) => Shown(l)'
    BY DEF Shown, checkout
  <2>4. \A q \in Procs : Shown(proc'[q].look)
    BY <2>1, <2>2, LookTypes
  <2>5. \A n \in DOMAIN attempts' : Shown(attempts'[n].frozen)
    BY <1>2, <2>1
  <2> QED
    BY <2>4, <2>5 DEF Captures, Shown, checkout
<1> QED
  BY <1>5, <1>6, <1>7, <1>8 DEF VerificationInv

LEMMA IdleRow ==
    Idle \in ProcType /\ Idle.at = "idle" /\ Idle.look = NoLook
<1>1. Absent \in Bytes /\ 0 \in 0..MaxAttempts /\ 0 \in 0..MaxVerifiers
  BY FileTypes, WorkAssumption
<1> QED
  BY <1>1, LookTypes DEF Idle, ProcType

(* What holds of a process that is not idle.                               *)
LEMMA BusyProcess ==
    ASSUME VerificationInv, NEW p \in Procs, proc[p].at # "idle"
    PROVE  /\ proc[p] \in ProcType
           /\ proc[p].attempt \in DOMAIN attempts
           /\ proc[p].attempt \in 1..MaxAttempts
           /\ attempts \in Seq(AttemptType)
           /\ Mine(p) \in AttemptType
           /\ file \in [1..MaxAttempts -> Bytes] /\ deaths \in 0..MaxDeaths
           /\ AcceptedPasses
           /\ proc[p].at \in {"write", "fill"} => Mine(p).node = "patch"
           /\ HasVerifier(p) =>
                 /\ proc[p].verifier \in DOMAIN verifiers
                 /\ verifiers[proc[p].verifier].attempt = proc[p].attempt
<1>1. TypeOK /\ Ownership
  BY DEF VerificationInv
<1>2. /\ attempts \in Seq(AttemptType) /\ proc[p].attempt \in DOMAIN attempts
      /\ Len(attempts) <= MaxAttempts
  BY <1>1 DEF TypeOK
<1>3. proc[p].attempt \in 1..MaxAttempts /\ Mine(p) \in AttemptType
  BY <1>2, WorkAssumption DEF Mine
<1>4. /\ proc[p] \in ProcType /\ file \in [1..MaxAttempts -> Bytes]
      /\ deaths \in 0..MaxDeaths
  BY <1>1 DEF TypeOK
<1> QED
  BY <1>1, <1>2, <1>3, <1>4 DEF Ownership, VerificationInv

(* A step that leaves the attempts alone.                                  *)
LEMMA JustMoves ==
    ASSUME VerificationInv, NEW p \in Procs, NEW r \in ProcType,
           proc[p].at # "idle",
           proc' = [proc EXCEPT ![p] = r],
           UNCHANGED <<checkout, verifiers, attempts>>,
           file' \in [1..MaxAttempts -> Bytes], deaths' \in 0..MaxDeaths,
           r.at # "freeze",
           r.at # "idle" => r.attempt = proc[p].attempt,
           r.at \in {"write", "fill"} => Mine(p).node = "patch",
           (\/ r.at \in {"wait", "read", "admit"}
            \/ r.at = "seal" /\ Mine(p).node = "check")
               => HasVerifier(p) /\ r.verifier = proc[p].verifier,
           r.look \in {proc[p].look, NoLook}
    PROVE  VerificationInv'
<1>1. /\ attempts \in Seq(AttemptType) /\ proc[p].attempt \in DOMAIN attempts
      /\ HasVerifier(p) =>
            /\ proc[p].verifier \in DOMAIN verifiers
            /\ verifiers[proc[p].verifier].attempt = proc[p].attempt
  BY BusyProcess
<1>2. AcceptedPasses'
  BY DEF VerificationInv, AcceptedPasses, checkout
<1> QED
  BY <1>1, <1>2, ProcessMoves DEF Mine

(* A step that puts row e in the place of the process's attempt, with the  *)
(* candidate it had.                                                       *)
LEMMA StageMoves ==
    ASSUME VerificationInv, NEW p \in Procs, NEW r \in ProcType,
           NEW e \in AttemptType,
           proc[p].at # "idle",
           proc' = [proc EXCEPT ![p] = r],
           attempts' = [attempts EXCEPT ![proc[p].attempt] = e],
           e.node = Mine(p).node, e.frozen = Mine(p).frozen,
           /\ e.stage = "accepted" /\ e.node = "check" /\ ~returned
           /\ e.frozen.kind = "tree" \/ e.by \notin raced
           => Passing(Held(e.frozen)),
           UNCHANGED <<checkout, verifiers, file, deaths>>,
           r.at \in {"idle", "seal", "spawn", "admit"},
           r.at # "idle" => r.attempt = proc[p].attempt,
           (\/ r.at = "admit"
            \/ r.at = "seal" /\ Mine(p).node = "check")
               => HasVerifier(p) /\ r.verifier = proc[p].verifier,
           r.look \in {proc[p].look, NoLook}
    PROVE  VerificationInv'
<1> DEFINE n == proc[p].attempt
<1>1. /\ attempts \in Seq(AttemptType) /\ n \in DOMAIN attempts
      /\ file \in [1..MaxAttempts -> Bytes] /\ deaths \in 0..MaxDeaths
      /\ HasVerifier(p) =>
            /\ proc[p].verifier \in DOMAIN verifiers
            /\ verifiers[proc[p].verifier].attempt = n
  BY BusyProcess
<1>2. /\ attempts' \in Seq(AttemptType) /\ Len(attempts') = Len(attempts)
      /\ DOMAIN attempts' = DOMAIN attempts /\ attempts'[n] = e
      /\ \A m \in DOMAIN attempts : m # n => attempts'[m] = attempts[m]
  BY <1>1, SetRow
<1>3. \A m \in DOMAIN attempts :
         /\ attempts'[m].node = attempts[m].node
         /\ attempts'[m].frozen = attempts[m].frozen
         /\ attempts'[m].stage # attempts[m].stage => m = n
  BY <1>2 DEF Mine
<1>4. AcceptedPasses'
  BY <1>2 DEF VerificationInv, AcceptedPasses, Passing, checkout
<1>5. /\ file' \in [1..MaxAttempts -> Bytes] /\ deaths' \in 0..MaxDeaths
  BY <1>1
<1>6. r.at # "freeze"
  OBVIOUS
<1>7. r.at # "idle" =>
        /\ r.attempt \in DOMAIN attempts
        /\ \/ proc[p].at # "idle" /\ r.attempt = proc[p].attempt
           \/ attempts[r.attempt].stage = "sealed"
  BY <1>1
<1>8. r.at \in {"write", "fill"} => attempts[r.attempt].node = "patch"
  OBVIOUS
<1>9. (\/ r.at \in {"wait", "read", "admit"}
       \/ r.at = "seal" /\ attempts[r.attempt].node = "check")
        => /\ r.verifier \in DOMAIN verifiers
           /\ verifiers[r.verifier].attempt = r.attempt
  BY <1>1 DEF Mine
<1>10. \A m \in DOMAIN attempts :
         /\ attempts'[m].node = attempts[m].node
         /\ attempts'[m].frozen = attempts[m].frozen
         /\ attempts'[m].stage # attempts[m].stage =>
               proc[p].at # "idle" /\ m = proc[p].attempt
  BY <1>3
<1> QED
  BY <1>2, <1>4, <1>5, <1>6, <1>7, <1>8, <1>9, <1>10, ProcessMoves

LEMMA FinishKeeps ==
    ASSUME VerificationInv, NEW p \in Procs, proc[p].at # "idle", Finish(p),
           UNCHANGED <<checkout, verifiers, attempts, file>>,
           deaths' \in 0..MaxDeaths
    PROVE  VerificationInv'
<1>1. Idle \in ProcType /\ Idle.at = "idle" /\ Idle.look = NoLook
  BY IdleRow
<1>2. file' \in [1..MaxAttempts -> Bytes]
  BY BusyProcess
<1>3. proc' = [proc EXCEPT ![p] = Idle]
  BY DEF Finish
<1> QED
  BY <1>1, <1>2, <1>3, JustMoves

(* A step of a process that keeps its attempt and its verifier.            *)
LEMMA MoveKeeps ==
    ASSUME VerificationInv, NEW p \in Procs, proc[p].at # "idle",
           NEW s \in {"write", "fill", "spawn", "read", "admit"}, Move(p, s),
           UNCHANGED <<checkout, verifiers, attempts, deaths>>,
           file' \in [1..MaxAttempts -> Bytes],
           s \in {"write", "fill"} => Mine(p).node = "patch",
           s \in {"read", "admit"} => HasVerifier(p)
    PROVE  VerificationInv'
<1> DEFINE r == [proc[p] EXCEPT !.at = s]
<1>1. /\ proc[p] \in ProcType /\ deaths' \in 0..MaxDeaths
  BY BusyProcess
<1>2. /\ r \in ProcType /\ r.at = s /\ r.attempt = proc[p].attempt
      /\ r.verifier = proc[p].verifier /\ r.look = proc[p].look
  BY <1>1 DEF ProcType
<1>3. proc' = [proc EXCEPT ![p] = r]
  BY DEF Move
<1> HIDE DEF r
<1> QED
  BY <1>1, <1>2, <1>3, JustMoves

LEMMA SealFailedKeeps ==
    ASSUME VerificationInv, NEW p \in Procs, proc[p].at # "idle", SealFailed(p),
           UNCHANGED <<checkout, verifiers, file, deaths>>
    PROVE  VerificationInv'
<1>1. CASE Mine(p).stage = "claimed"
  <2> DEFINE e == [Mine(p) EXCEPT !.stage = "stopped"]
  <2>1. /\ Mine(p) \in AttemptType /\ attempts \in Seq(AttemptType)
        /\ proc[p].attempt \in DOMAIN attempts
    BY BusyProcess
  <2>2. /\ e \in AttemptType /\ e.node = Mine(p).node
        /\ e.frozen = Mine(p).frozen /\ e.stage = "stopped"
    BY <2>1 DEF AttemptType, Stages
  <2>3. attempts' = [attempts EXCEPT ![proc[p].attempt] = e]
    BY <1>1, <2>1 DEF SealFailed, SetStage, Mine
  <2>4. /\ Idle \in ProcType /\ Idle.at = "idle" /\ Idle.look = NoLook
        /\ proc' = [proc EXCEPT ![p] = Idle]
    BY IdleRow DEF SealFailed, Finish
  <2> HIDE DEF e
  <2> QED
    BY <2>2, <2>3, <2>4, StageMoves
<1>2. CASE Mine(p).stage # "claimed"
  <2>1. deaths' \in 0..MaxDeaths
    BY BusyProcess
  <2> QED
    BY <1>2, <2>1, FinishKeeps DEF SealFailed
<1> QED
  BY <1>1, <1>2

LEMMA WriteArtifactKeeps ==
    ASSUME VerificationInv, NEW p \in Procs, WriteArtifact(p), UNCHANGED deaths
    PROVE  VerificationInv'
<1>1. /\ At(p, "write") /\ Store(proc[p].attempt, Torn) /\ Move(p, "fill")
      /\ UNCHANGED <<checkout, attempts, verifiers>> /\ TypeOK
  BY DEF WriteArtifact, VerificationInv
<1>2. proc[p].at = "write"
  BY <1>1 DEF At
<1>3. proc[p].attempt \in 1..MaxAttempts /\ Mine(p).node = "patch"
  BY <1>2, BusyProcess
<1>4. file' \in [1..MaxAttempts -> Bytes]
  BY <1>1, <1>3, FileTypes, StoreFile
<1> QED
  BY <1>1, <1>2, <1>3, <1>4, MoveKeeps

LEMMA FillArtifactKeeps ==
    ASSUME VerificationInv, NEW p \in Procs, FillArtifact(p), UNCHANGED deaths
    PROVE  VerificationInv'
<1> DEFINE n == proc[p].attempt
           r == [proc[p] EXCEPT !.at = "seal", !.bytes = PatchOf(n)]
<1>1. /\ proc[p].at = "fill" /\ Store(n, PatchOf(n)) /\ TypeOK
      /\ proc' = [proc EXCEPT ![p].at = "seal", ![p].bytes = PatchOf(n)]
      /\ UNCHANGED <<checkout, attempts, verifiers>>
  BY DEF FillArtifact, At, VerificationInv
<1>2. /\ n \in 1..MaxAttempts /\ Mine(p).node = "patch" /\ proc[p] \in ProcType
      /\ deaths' \in 0..MaxDeaths
  BY <1>1, BusyProcess
<1>3. PatchOf(n) \in Bytes
  BY <1>2, FileTypes
<1>4. file' \in [1..MaxAttempts -> Bytes]
  BY <1>1, <1>2, <1>3, StoreFile
<1>5. r \in ProcType /\ r.at = "seal" /\ r.attempt = n /\ r.look = proc[p].look
  BY <1>2, <1>3 DEF ProcType
<1>6. proc' = [proc EXCEPT ![p] = r]
  BY <1>1
<1> HIDE DEF r
<1> QED
  BY <1>1, <1>2, <1>4, <1>5, <1>6, JustMoves

LEMMA ReadReportKeeps ==
    ASSUME VerificationInv, NEW p \in Procs, ReadReport(p), UNCHANGED deaths
    PROVE  VerificationInv'
<1> DEFINE b == file[ArtifactPath(proc[p].attempt)]
           r == [proc[p] EXCEPT !.at = "seal", !.bytes = b]
<1>1. /\ proc[p].at = "read"
      /\ proc' = [proc EXCEPT ![p].at = "seal", ![p].bytes = b]
      /\ UNCHANGED <<checkout, file, attempts, verifiers>>
  BY DEF ReadReport, At
<1>2. /\ proc[p].attempt \in 1..MaxAttempts /\ proc[p] \in ProcType
      /\ file \in [1..MaxAttempts -> Bytes] /\ deaths' \in 0..MaxDeaths
  BY <1>1, BusyProcess
<1>3. b \in Bytes
  BY <1>2 DEF ArtifactPath
<1>4. /\ r \in ProcType /\ r.at = "seal" /\ r.attempt = proc[p].attempt
      /\ r.verifier = proc[p].verifier /\ r.look = proc[p].look
  BY <1>2, <1>3 DEF ProcType
<1>5. proc' = [proc EXCEPT ![p] = r] /\ HasVerifier(p)
  BY <1>1 DEF HasVerifier
<1> HIDE DEF r, b
<1> QED
  BY <1>1, <1>2, <1>4, <1>5, JustMoves

LEMMA ReturnKeeps ==
    ASSUME VerificationInv, NEW p \in Procs, Return(p), UNCHANGED deaths
    PROVE  VerificationInv'
<1> DEFINE v == verifiers[proc[p].verifier]
<1>1. /\ proc[p].at = "wait" /\ UNCHANGED <<checkout, file, verifiers>>
      /\ \/ SealFailed(p)
         \/ Finish(p) /\ UNCHANGED attempts
         \/ (Move(p, "admit") \/ Move(p, "read")) /\ UNCHANGED attempts
  BY DEF Return, At
<1>2. /\ file' \in [1..MaxAttempts -> Bytes] /\ deaths' \in 0..MaxDeaths
      /\ HasVerifier(p)
  BY <1>1, BusyProcess DEF HasVerifier
<1>3. CASE SealFailed(p)
  BY <1>1, <1>3, SealFailedKeeps
<1>4. CASE Finish(p) /\ UNCHANGED attempts
  BY <1>1, <1>2, <1>4, FinishKeeps
<1>5. CASE (Move(p, "admit") \/ Move(p, "read")) /\ UNCHANGED attempts
  BY <1>1, <1>2, <1>5, MoveKeeps
<1> QED
  BY <1>1, <1>3, <1>4, <1>5

LEMMA DieKeeps ==
    ASSUME VerificationInv, NEW p \in Procs, Die(p)
    PROVE  VerificationInv'
<1>1. /\ proc[p].at # "idle" /\ Finish(p)
      /\ UNCHANGED <<checkout, file, attempts, verifiers>>
  BY DEF Die, At
<1>2. deaths' \in 0..MaxDeaths
  BY WorkAssumption DEF Die, VerificationInv, TypeOK
<1> QED
  BY <1>1, <1>2, FinishKeeps

LEMMA TimeOutKeeps ==
    ASSUME VerificationInv, NEW p \in Procs, TimeOut(p), UNCHANGED deaths
    PROVE  VerificationInv'
<1>1. /\ proc[p].at = "wait" /\ Leave(proc[p].verifier, "none")
      /\ UNCHANGED <<checkout, file, attempts, proc, deaths>>
  BY DEF TimeOut, At
<1>2. proc[p].verifier \in DOMAIN verifiers
  BY <1>1, BusyProcess DEF HasVerifier
<1> QED
  BY <1>1, <1>2, LeaveKeeps DEF Answers

LEMMA SealKeeps ==
    ASSUME VerificationInv, NEW p \in Procs, Seal(p), UNCHANGED deaths
    PROVE  VerificationInv'
<1> DEFINE e == [Mine(p) EXCEPT !.stage = "sealed", !.bytes = proc[p].bytes]
           r == [proc[p] EXCEPT !.at = "spawn", !.resumed = TRUE]
           a == [proc[p] EXCEPT !.at = "admit"]
<1>1. proc[p].at = "seal" /\ UNCHANGED <<checkout, file, verifiers>>
  BY DEF Seal, At
<1>2. /\ proc[p] \in ProcType /\ Mine(p) \in AttemptType
      /\ attempts \in Seq(AttemptType) /\ proc[p].attempt \in DOMAIN attempts
      /\ deaths' \in 0..MaxDeaths
  BY <1>1, BusyProcess
<1>3. /\ e \in AttemptType /\ e.node = Mine(p).node
      /\ e.frozen = Mine(p).frozen /\ e.stage = "sealed"
  <2>1. proc[p].bytes \in Bytes
    BY <1>2 DEF ProcType
  <2>2. ASSUME NEW x \in AttemptType, NEW b \in Bytes
        PROVE  [x EXCEPT !.stage = "sealed", !.bytes = b] \in AttemptType
    BY <2>2 DEF AttemptType, Stages
  <2> QED
    BY <1>2, <2>1, <2>2 DEF AttemptType
<1>4. CASE Mine(p).stage = "claimed"
  <2>1. attempts' = [attempts EXCEPT ![proc[p].attempt] = e]
    BY <1>2, <1>4 DEF Seal, Mine
  <2>2. CASE Mine(p).node = "patch"
    <3>1. /\ r \in ProcType /\ r.at = "spawn" /\ r.attempt = proc[p].attempt
          /\ r.look = proc[p].look
      BY <1>2 DEF ProcType
    <3>2. proc' = [proc EXCEPT ![p] = r]
      BY <1>4, <2>2 DEF Seal
    <3> HIDE DEF e, r
    <3> QED
      BY <1>1, <1>2, <1>3, <2>1, <3>1, <3>2, StageMoves
  <2>3. CASE Mine(p).node # "patch"
    <3>1. /\ a \in ProcType /\ a.at = "admit" /\ a.attempt = proc[p].attempt
          /\ a.verifier = proc[p].verifier /\ a.look = proc[p].look
      BY <1>2 DEF ProcType
    <3>2. proc' = [proc EXCEPT ![p] = a]
      BY <1>4, <2>3 DEF Seal, Move
    <3>3. HasVerifier(p)
      BY <1>1, <1>2, <2>3 DEF HasVerifier, AttemptType, Nodes
    <3> HIDE DEF e, a
    <3> QED
      BY <1>1, <1>2, <1>3, <2>1, <3>1, <3>2, <3>3, StageMoves
  <2> QED
    BY <2>2, <2>3
<1>5. CASE Mine(p).stage # "claimed"
  BY <1>1, <1>2, <1>5, FinishKeeps DEF Seal
<1> QED
  BY <1>4, <1>5

(* The verdict of a verifier that accepts is what it found.                *)
LEMMA AdmitKeeps ==
    ASSUME VerificationInv, NEW p \in Procs, Admit(p), UNCHANGED deaths
    PROVE  VerificationInv'
<1> DEFINE i == proc[p].verifier
           q == IF verifiers[i].said = "accept" THEN "accepted" ELSE "stopped"
           e == [Mine(p) EXCEPT !.stage = q, !.by = i]
<1>1. /\ proc[p].at = "admit" /\ Finish(p)
      /\ UNCHANGED <<checkout, file, verifiers>>
  BY DEF Admit, At
<1>2. /\ Mine(p) \in AttemptType /\ attempts \in Seq(AttemptType)
      /\ proc[p].attempt \in DOMAIN attempts /\ deaths' \in 0..MaxDeaths
      /\ i \in DOMAIN verifiers /\ verifiers[i].attempt = proc[p].attempt
  BY <1>1, BusyProcess DEF HasVerifier
<1>3. CASE Mine(p).stage = "sealed"
  <2>1. attempts' = [attempts EXCEPT ![proc[p].attempt] = e]
    BY <1>2, <1>3 DEF Admit, Mine
  <2>2. i \in Nat
    BY <1>2 DEF VerificationInv, TypeOK
  <2>3. /\ e \in AttemptType /\ e.node = Mine(p).node
        /\ e.frozen = Mine(p).frozen /\ e.stage = q /\ e.by = i
    <3>1. ASSUME NEW x \in AttemptType, NEW b \in Nat, NEW t \in Stages
          PROVE  [x EXCEPT !.stage = t, !.by = b] \in AttemptType
      BY <3>1 DEF AttemptType
    <3> QED
      BY <1>2, <2>2, <3>1 DEF AttemptType, Stages
  <2>4. Found(i) /\ Subject(i) = Mine(p)
    BY <1>2 DEF VerificationInv, Findings, Subject, Mine
  <2>5. /\ e.stage = "accepted" /\ e.node = "check" /\ ~returned
        /\ e.frozen.kind = "tree" \/ e.by \notin raced
        => Passing(Held(e.frozen))
    <3>1. Overtaken(i) => e.frozen.kind = "commit" /\ e.by \in raced
      BY <2>3, <2>4 DEF Overtaken
    <3> QED
      BY <2>3, <2>4, <3>1 DEF Found
  <2>6. /\ Idle \in ProcType /\ Idle.at = "idle" /\ Idle.look = NoLook
        /\ proc' = [proc EXCEPT ![p] = Idle]
    BY <1>1, IdleRow DEF Finish
  <2> HIDE DEF e
  <2> QED
    BY <1>1, <2>1, <2>3, <2>5, <2>6, StageMoves
<1>4. CASE Mine(p).stage # "sealed"
  BY <1>1, <1>2, <1>4, FinishKeeps DEF Admit
<1> QED
  BY <1>3, <1>4

(* A process takes up an attempt somebody sealed.                          *)
LEMMA ResumeKeeps ==
    ASSUME VerificationInv, NEW p \in Procs, Resume(p), UNCHANGED deaths
    PROVE  VerificationInv'
<1>1. PICK n \in DOMAIN attempts :
         /\ attempts[n].stage = "sealed"
         /\ proc' = [proc EXCEPT ![p] = [Idle EXCEPT
               !.at = "spawn", !.attempt = n, !.resumed = TRUE]]
  BY DEF Resume
<1> DEFINE r == [Idle EXCEPT !.at = "spawn", !.attempt = n, !.resumed = TRUE]
<1>2. /\ UNCHANGED <<checkout, file, attempts, verifiers>> /\ TypeOK
      /\ attempts \in Seq(AttemptType)
  BY DEF Resume, VerificationInv, TypeOK
<1>3. n \in 0..MaxAttempts
  BY <1>2, WorkAssumption DEF TypeOK
<1>4. r \in ProcType /\ r.at = "spawn" /\ r.attempt = n /\ r.look = NoLook
  BY <1>3, IdleRow DEF ProcType
<1>5. file' \in [1..MaxAttempts -> Bytes] /\ deaths' \in 0..MaxDeaths
  BY <1>2 DEF TypeOK
<1>6. AcceptedPasses'
  BY <1>2 DEF VerificationInv, AcceptedPasses, checkout
<1> HIDE DEF r
<1>7. proc' = [proc EXCEPT ![p] = r]
  BY <1>1 DEF r
<1> QED
  BY <1>1, <1>2, <1>4, <1>5, <1>6, <1>7, ProcessMoves

(* Reclaim stops a claimed attempt under its owner.                        *)
LEMMA ReclaimKeeps ==
    ASSUME VerificationInv, Reclaim
    PROVE  VerificationInv'
<1>1. PICK n \in DOMAIN attempts :
         attempts[n].stage = "claimed" /\ SetStage(n, "stopped")
  BY DEF Reclaim
<1> DEFINE e == [attempts[n] EXCEPT !.stage = "stopped"]
<1>2. /\ UNCHANGED <<checkout, file, verifiers, proc, deaths>> /\ TypeOK
      /\ Ownership /\ Findings /\ attempts \in Seq(AttemptType)
  BY DEF Reclaim, VerificationInv, TypeOK
<1>3. /\ e \in AttemptType /\ e.stage = "stopped" /\ e.node = attempts[n].node
      /\ e.frozen = attempts[n].frozen /\ e.by = attempts[n].by
  <2>1. attempts[n] \in AttemptType
    BY <1>2
  <2> QED
    BY <2>1 DEF AttemptType, Stages
<1>4. attempts' = [attempts EXCEPT ![n] = e]
  BY <1>1 DEF SetStage
<1> HIDE DEF e
<1>5. /\ attempts' \in Seq(AttemptType) /\ Len(attempts') = Len(attempts)
      /\ DOMAIN attempts' = DOMAIN attempts /\ attempts'[n] = e
      /\ \A m \in DOMAIN attempts : m # n => attempts'[m] = attempts[m]
  BY <1>2, <1>3, <1>4, SetRow
<1>6. \A m \in DOMAIN attempts :
         /\ attempts'[m].node = attempts[m].node
         /\ attempts'[m].frozen = attempts[m].frozen
         /\ attempts'[m].by = attempts[m].by
         /\ attempts'[m].stage \in {attempts[m].stage, "stopped"}
  BY <1>3, <1>5
<1>7. TypeOK'
  BY <1>2, <1>5 DEF TypeOK, checkout
<1>8. Ownership'
  <2>1. \A p \in Procs : proc[p].at # "idle" =>
           /\ Mine(p)'.node = Mine(p).node
           /\ Mine(p)'.stage \in {Mine(p).stage, "stopped"}
    BY <1>2, <1>6 DEF TypeOK, Mine
  <2>2. \A p \in Procs : proc[p].at = "freeze" => Alone(p)'
    BY <1>2, <2>1 DEF Ownership, Alone
  <2> QED
    BY <1>2, <2>1, <2>2 DEF Ownership, HasVerifier
<1>9. Findings'
  <2> SUFFICES ASSUME NEW i \in DOMAIN verifiers PROVE Found(i)'
    BY <1>2 DEF Findings
  <2>1. Found(i) /\ verifiers[i].attempt \in DOMAIN attempts
    BY <1>2 DEF Findings, TypeOK
  <2>2. /\ Subject(i)'.node = Subject(i).node
        /\ Subject(i)'.frozen = Subject(i).frozen
    BY <1>2, <1>6, <2>1 DEF Subject
  <2> QED
    BY <1>2, <2>1, <2>2 DEF Found, Passing, Accepting, Overtaken, Held, checkout
<1>10. AcceptedPasses'
  <2>1. \A m \in DOMAIN attempts : attempts'[m].stage = "accepted"
            => attempts[m].stage = "accepted"
    BY <1>6
  <2> QED
    BY <1>2, <1>5, <1>6, <2>1 DEF VerificationInv, AcceptedPasses, Held, checkout
<1>11. Captures'
  <2>1. \A m \in DOMAIN attempts' : Shown(attempts'[m].frozen)
    BY <1>5, <1>6 DEF VerificationInv, Captures
  <2>2. \A q \in Procs : Shown(proc[q].look)
    BY DEF VerificationInv, Captures
  <2> QED
    BY <1>2, <2>1, <2>2 DEF Captures, Shown, checkout
<1> QED
  BY <1>7, <1>8, <1>9, <1>10, <1>11 DEF VerificationInv

(* A new attempt is alone with its process and has no verifier.            *)
LEMMA ClaimKeeps ==
    ASSUME VerificationInv, NEW p \in Procs, Claim(p), UNCHANGED deaths
    PROVE  VerificationInv'
<1> DEFINE n == Len(attempts) + 1
           e == [node |-> IF PatchAccepted THEN "check" ELSE "patch",
                 stage |-> "claimed", frozen |-> NoLook, bytes |-> Absent, by |-> 0]
           r == [Idle EXCEPT !.at = "freeze", !.attempt = n]
<1>1. /\ Len(attempts) < MaxAttempts /\ attempts' = Append(attempts, e)
      /\ proc' = [proc EXCEPT ![p] = r]
      /\ UNCHANGED <<checkout, file, verifiers>>
  BY DEF Claim, Latest
<1>2. /\ TypeOK /\ Ownership /\ Findings /\ AcceptedPasses
      /\ attempts \in Seq(AttemptType)
  BY DEF VerificationInv, TypeOK
<1>3. e \in AttemptType /\ e.stage = "claimed" /\ e.frozen = NoLook
  BY FileTypes, LookTypes DEF AttemptType, Nodes, Stages
<1> HIDE DEF e
<1>4. /\ attempts' \in Seq(AttemptType) /\ Len(attempts') = n
      /\ DOMAIN attempts' = DOMAIN attempts \cup {n} /\ n \notin DOMAIN attempts
      /\ attempts'[n] = e /\ \A m \in DOMAIN attempts : attempts'[m] = attempts[m]
  BY <1>1, <1>2, <1>3, AddRow
<1>5. n \in 1..MaxAttempts /\ n \in 0..MaxAttempts
  BY <1>1, <1>2, WorkAssumption
<1> HIDE DEF n
<1>6. r \in ProcType /\ r.at = "freeze" /\ r.attempt = n /\ r.look = NoLook
  BY <1>5, IdleRow DEF ProcType
<1> HIDE DEF r
<1>7. proc'[p] = r /\ \A q \in Procs \ {p} : proc'[q] = proc[q]
  BY <1>1, <1>2 DEF TypeOK
<1>8. proc' \in [Procs -> ProcType]
  BY <1>1, <1>2, <1>6 DEF TypeOK
<1>9. TypeOK'
  <2>1. Len(attempts') <= MaxAttempts
    BY <1>4, <1>5
  <2>2. \A q \in Procs :
           /\ proc'[q].at # "idle" => proc'[q].attempt \in DOMAIN attempts'
           /\ proc'[q].at \in {"wait", "read", "admit"} =>
                 proc'[q].verifier \in DOMAIN verifiers'
    BY <1>1, <1>2, <1>4, <1>6, <1>7 DEF TypeOK
  <2>3. /\ {tree, head}' \subseteq past' /\ past' \subseteq Contents
        /\ returned' \in BOOLEAN /\ raced' \subseteq DOMAIN verifiers'
        /\ file' \in [1..MaxAttempts -> Bytes] /\ deaths' \in 0..MaxDeaths
        /\ verifiers' \in Seq(VerifierType) /\ Len(verifiers') <= MaxVerifiers
        /\ \A i \in DOMAIN verifiers' : verifiers'[i].attempt \in DOMAIN attempts'
    BY <1>1, <1>2, <1>4 DEF TypeOK, checkout
  <2> QED
    BY <1>4, <1>8, <2>1, <2>2, <2>3 DEF TypeOK
<1>10. Ownership'
  <2>1. Alone(p)'
    <3>1. Mine(p)'.stage = "claimed"
      BY <1>3, <1>4, <1>6, <1>7 DEF Mine
    <3>2. \A q \in Procs \ {p} : proc[q].at # "idle" => proc[q].attempt # n
      BY <1>2, <1>4 DEF TypeOK
    <3>3. \A i \in DOMAIN verifiers : verifiers[i].attempt # n
      BY <1>2, <1>4 DEF TypeOK
    <3> QED
      BY <1>1, <1>6, <1>7, <3>1, <3>2, <3>3 DEF Alone
  <2>2. ASSUME NEW q \in Procs \ {p}, proc[q].at # "idle"
        PROVE  Mine(q)' = Mine(q)
    BY <1>2, <1>4, <1>7, <2>2 DEF TypeOK, Mine
  <2>3. ASSUME NEW q \in Procs \ {p}, proc[q].at = "freeze"
        PROVE  Alone(q)'
    <3>1. Alone(q) /\ proc[q].attempt \in DOMAIN attempts
      BY <1>2, <2>3 DEF Ownership, TypeOK
    <3>2. proc'[p].attempt # proc'[q].attempt
      BY <1>4, <1>6, <1>7, <3>1
    <3> QED
      BY <1>1, <1>7, <2>2, <2>3, <3>1, <3>2 DEF Alone
  <2>4. /\ proc'[p].at = "freeze"
        /\ \A q \in Procs \ {p} : proc'[q] = proc[q] /\ verifiers' = verifiers
    BY <1>1, <1>6, <1>7
  <2> QED
    BY <1>2, <2>1, <2>2, <2>3, <2>4 DEF Ownership, HasVerifier
<1>11. Findings'
  <2> SUFFICES ASSUME NEW i \in DOMAIN verifiers PROVE Found(i)'
    BY <1>1 DEF Findings
  <2>1. Found(i) /\ verifiers[i].attempt \in DOMAIN attempts
    BY <1>2 DEF Findings, TypeOK
  <2>2. Subject(i)' = Subject(i)
    BY <1>1, <1>4, <2>1 DEF Subject
  <2> QED
    BY <1>1, <2>1, <2>2 DEF Found, Passing, Accepting, Overtaken, Held, checkout
<1>12. AcceptedPasses'
  BY <1>1, <1>2, <1>3, <1>4 DEF AcceptedPasses, checkout
<1>13. Captures'
  <2>1. \A l : Shown(l) => Shown(l)'
    BY <1>1 DEF Shown, checkout
  <2>2. \A m \in DOMAIN attempts' : Shown(attempts'[m].frozen)
    BY <1>3, <1>4, LookTypes DEF VerificationInv, Captures
  <2>3. \A q \in Procs : Shown(proc'[q].look)
    BY <1>6, <1>7, LookTypes DEF VerificationInv, Captures
  <2> QED
    BY <1>1, <2>2, <2>3 DEF Captures, Shown, checkout
<1> QED
  BY <1>9, <1>10, <1>11, <1>12, <1>13 DEF VerificationInv

(* A process that is still capturing looks once more.                      *)
LEMMA LookKeeps ==
    ASSUME VerificationInv, NEW p \in Procs, NEW look \in LookType, Shown(look),
           proc[p].at = "freeze", proc' = [proc EXCEPT ![p].look = look],
           UNCHANGED <<checkout, file, attempts, verifiers, deaths>>
    PROVE  VerificationInv'
<1>1. /\ TypeOK /\ Ownership /\ Captures /\ Findings /\ AcceptedPasses
      /\ proc[p] \in ProcType /\ proc \in [Procs -> ProcType]
  BY DEF VerificationInv, TypeOK
<1>2. /\ proc'[p] = [proc[p] EXCEPT !.look = look]
      /\ [proc[p] EXCEPT !.look = look] \in ProcType
      /\ proc'[p].look = look
  BY <1>1 DEF ProcType
<1>3. \A q \in Procs : /\ proc'[q].at = proc[q].at
                       /\ proc'[q].attempt = proc[q].attempt
                       /\ proc'[q].verifier = proc[q].verifier
                       /\ q # p => proc'[q].look = proc[q].look
  BY <1>1 DEF ProcType
<1>4. proc' \in [Procs -> ProcType]
  BY <1>1, <1>2
<1>5. TypeOK'
  BY <1>1, <1>3, <1>4 DEF TypeOK, checkout
<1>6. Ownership'
  BY <1>1, <1>3 DEF Ownership, HasVerifier, Alone, Mine
<1>7. Findings'
  <2> SUFFICES ASSUME NEW i \in DOMAIN verifiers PROVE Found(i)'
    BY DEF Findings
  <2>1. Found(i) /\ Subject(i)' = Subject(i)
    BY <1>1 DEF Findings, Subject
  <2> QED
    BY <2>1 DEF Found, Passing, Accepting, Overtaken, Held, checkout
<1>8. AcceptedPasses'
  BY <1>1 DEF AcceptedPasses, checkout
<1>9. Captures'
  <2>1. \A q \in Procs : Shown(proc'[q].look)
    BY <1>1, <1>2, <1>3 DEF Captures
  <2> QED
    BY <1>1, <2>1 DEF Captures, Shown, checkout
<1> QED
  BY <1>5, <1>6, <1>7, <1>8, <1>9 DEF VerificationInv

(* No verifier has looked at an attempt before it is frozen.               *)
LEMMA FreezeKeeps ==
    ASSUME VerificationInv, NEW p \in Procs, Freeze(p), UNCHANGED deaths
    PROVE  VerificationInv'
<1> DEFINE n == proc[p].attempt
           s == IF Mine(p).node = "patch" THEN "write" ELSE "spawn"
<1>1. proc[p].at = "freeze" /\ UNCHANGED <<checkout, file, verifiers>>
  BY DEF Freeze, At
<1>2. /\ TypeOK /\ Ownership /\ Findings /\ AcceptedPasses
      /\ attempts \in Seq(AttemptType) /\ n \in DOMAIN attempts
      /\ Mine(p) \in AttemptType /\ proc[p] \in ProcType /\ Alone(p)
  BY <1>1, BusyProcess DEF VerificationInv, Ownership
<1>3. CASE SealFailed(p)
  BY <1>1, <1>3, SealFailedKeeps
<1>4. ASSUME NEW look \in Looks(proc[p].look), look.at # "done",
             proc' = [proc EXCEPT ![p].look = look], UNCHANGED attempts
      PROVE  VerificationInv'
  <2>1. look \in LookType /\ Shown(look)
    BY <1>2, <1>4, NextLook DEF VerificationInv, Captures, ProcType
  <2> QED
    BY <1>1, <1>2, <1>4, <2>1, LookKeeps
<1>5. ASSUME NEW look \in Looks(proc[p].look),
             attempts' = [attempts EXCEPT ![n].frozen = look],
             proc' = [proc EXCEPT ![p].look = NoLook, ![p].at = s]
      PROVE  VerificationInv'
  <2> DEFINE e == [Mine(p) EXCEPT !.frozen = look]
             r == [proc[p] EXCEPT !.look = NoLook, !.at = s]
  <2>12. look \in LookType /\ Shown(look)
    BY <1>2, <1>5, NextLook DEF VerificationInv, Captures, ProcType
  <2>1. /\ e \in AttemptType /\ e.node = Mine(p).node /\ e.stage = Mine(p).stage
        /\ e.frozen = look
    <3>2. ASSUME NEW x \in AttemptType, NEW c \in LookType
          PROVE  [x EXCEPT !.frozen = c] \in AttemptType
      BY <3>2 DEF AttemptType
    <3> QED
      BY <1>2, <2>12, <3>2 DEF AttemptType
  <2>2. attempts' = [attempts EXCEPT ![n] = e]
    BY <1>2, <1>5 DEF Mine
  <2>3. r \in ProcType /\ r.at = s /\ r.attempt = n /\ r.look = NoLook
    BY <1>2, LookTypes DEF ProcType
  <2>4. proc' = [proc EXCEPT ![p] = r]
    BY <1>5
  <2> HIDE DEF e
  <2>5. /\ attempts' \in Seq(AttemptType) /\ Len(attempts') = Len(attempts)
        /\ DOMAIN attempts' = DOMAIN attempts /\ attempts'[n] = e
        /\ \A m \in DOMAIN attempts : m # n => attempts'[m] = attempts[m]
    BY <1>2, <2>1, <2>2, SetRow
  <2> HIDE DEF r
  <2>6. proc'[p] = r /\ \A q \in Procs \ {p} : proc'[q] = proc[q]
    BY <1>2, <2>4 DEF TypeOK
  <2>7. proc' \in [Procs -> ProcType]
    BY <1>2, <2>3, <2>4 DEF TypeOK
  <2>8. TypeOK'
    <3>1. \A q \in Procs :
             /\ proc'[q].at # "idle" => proc'[q].attempt \in DOMAIN attempts'
             /\ proc'[q].at \in {"wait", "read", "admit"} =>
                   proc'[q].verifier \in DOMAIN verifiers'
      BY <1>1, <1>2, <2>3, <2>5, <2>6 DEF TypeOK
    <3>2. /\ {tree, head}' \subseteq past' /\ past' \subseteq Contents
          /\ returned' \in BOOLEAN /\ raced' \subseteq DOMAIN verifiers'
          /\ file' \in [1..MaxAttempts -> Bytes] /\ deaths' \in 0..MaxDeaths
          /\ Len(attempts') <= MaxAttempts
          /\ verifiers' \in Seq(VerifierType) /\ Len(verifiers') <= MaxVerifiers
          /\ \A i \in DOMAIN verifiers' : verifiers'[i].attempt \in DOMAIN attempts'
      BY <1>1, <1>2, <2>5 DEF TypeOK, checkout
    <3> QED
      BY <2>5, <2>7, <3>1, <3>2 DEF TypeOK
  <2>9. Ownership'
    <3>1. ASSUME NEW q \in Procs \ {p}, proc[q].at # "idle"
          PROVE  Mine(q)' = Mine(q)
      BY <1>2, <2>5, <2>6, <3>1 DEF TypeOK, Mine, Alone
    <3>2. ASSUME NEW q \in Procs \ {p}, proc[q].at = "freeze"
          PROVE  Alone(q)'
      <4>1. Alone(q)
        BY <1>2, <3>2 DEF Ownership
      <4>2. proc'[p].attempt = proc[p].attempt
        BY <2>3, <2>6
      <4>3. \A o \in Procs \ {q} :
               proc'[o].at # "idle" => proc'[o].attempt # proc'[q].attempt
        BY <1>1, <2>6, <3>2, <4>1, <4>2 DEF Alone
      <4> QED
        BY <1>1, <2>6, <3>1, <3>2, <4>1, <4>3 DEF Alone
    <3>3. /\ proc'[p].at \in {"write", "fill"} => Mine(p)'.node = "patch"
          /\ ~HasVerifier(p)' /\ proc'[p].at # "freeze"
      <4>1. Mine(p)' = e
        BY <2>3, <2>5, <2>6 DEF Mine
      <4> QED
        BY <2>1, <2>3, <2>6, <4>1 DEF HasVerifier
    <3> QED
      BY <1>1, <1>2, <2>6, <3>1, <3>2, <3>3 DEF Ownership, HasVerifier
  <2>10. Findings'
    <3> SUFFICES ASSUME NEW i \in DOMAIN verifiers PROVE Found(i)'
      BY <1>1 DEF Findings
    <3>1. Found(i) /\ verifiers[i].attempt \in DOMAIN attempts
      BY <1>2 DEF Findings, TypeOK
    <3>2. Subject(i)' = Subject(i)
      BY <1>1, <1>2, <2>5, <3>1 DEF Subject, Alone
    <3> QED
      BY <1>1, <3>1, <3>2 DEF Found, Passing, Accepting, Overtaken, Held, checkout
  <2>11. AcceptedPasses'
    <3>1. attempts'[n].stage # "accepted"
      BY <1>2, <2>1, <2>5 DEF Alone
    <3> QED
      BY <1>1, <1>2, <2>5, <3>1 DEF AcceptedPasses, checkout
  <2>13. Captures'
    <3>1. \A m \in DOMAIN attempts' : Shown(attempts'[m].frozen)
      BY <2>1, <2>5, <2>12 DEF VerificationInv, Captures
    <3>2. \A q \in Procs : Shown(proc'[q].look)
      BY <2>3, <2>6, LookTypes DEF VerificationInv, Captures
    <3> QED
      BY <1>1, <3>1, <3>2 DEF Captures, Shown, checkout
  <2> QED
    BY <2>8, <2>9, <2>10, <2>11, <2>13 DEF VerificationInv
<1> QED
  BY <1>3, <1>4, <1>5 DEF Freeze

(* A verifier starts with nothing found.                                   *)
LEMMA SpawnKeeps ==
    ASSUME VerificationInv, NEW p \in Procs, Spawn(p), UNCHANGED deaths
    PROVE  VerificationInv'
<1> DEFINE n == Len(verifiers) + 1
           v == [attempt |-> proc[p].attempt,
                 at |-> IF Mine(p).node = "patch" THEN "artifact" ELSE "before",
                 look |-> NoLook, outcomes |-> <<>>, readable |-> FALSE,
                 said |-> "none"]
           r == [proc[p] EXCEPT !.at = "wait", !.verifier = n]
<1>1. /\ proc[p].at = "spawn" /\ Len(verifiers) < MaxVerifiers
      /\ verifiers' = Append(verifiers, v) /\ proc' = [proc EXCEPT ![p] = r]
      /\ UNCHANGED <<checkout, file, attempts>>
  BY DEF Spawn, At
<1>2. /\ TypeOK /\ Ownership /\ Findings /\ AcceptedPasses
      /\ verifiers \in Seq(VerifierType) /\ proc[p].attempt \in DOMAIN attempts
      /\ proc[p].attempt \in 1..MaxAttempts /\ proc[p] \in ProcType
  BY <1>1, BusyProcess DEF VerificationInv, TypeOK
<1>3. /\ v \in VerifierType /\ v.attempt = proc[p].attempt /\ v.said = "none"
      /\ v.at \in {"artifact", "before"} /\ v.outcomes = <<>>
      /\ v.at = "artifact" => Mine(p).node = "patch"
      /\ v.look = NoLook
  <2>1. <<>> \in Seq({"passed", "failed"})
    OBVIOUS
  <2> QED
    BY <1>2, <2>1, LookTypes DEF VerifierType, Answers
<1> HIDE DEF v
<1>4. /\ verifiers' \in Seq(VerifierType) /\ Len(verifiers') = n
      /\ DOMAIN verifiers' = DOMAIN verifiers \cup {n} /\ verifiers'[n] = v
      /\ \A j \in DOMAIN verifiers : verifiers'[j] = verifiers[j]
      /\ n \notin DOMAIN verifiers
  BY <1>1, <1>2, <1>3, AddRow
<1>5. n \in 0..MaxVerifiers /\ n <= MaxVerifiers
  BY <1>1, <1>2, WorkAssumption
<1>6. r \in ProcType /\ r.at = "wait" /\ r.attempt = proc[p].attempt
      /\ r.verifier = n /\ r.look = proc[p].look
  BY <1>2, <1>5 DEF ProcType
<1> HIDE DEF n, r
<1>7. proc'[p] = r /\ \A q \in Procs \ {p} : proc'[q] = proc[q]
  BY <1>1, <1>2 DEF TypeOK
<1>8. proc' \in [Procs -> ProcType]
  BY <1>1, <1>2, <1>6 DEF TypeOK
<1>9. \A j \in DOMAIN verifiers' : verifiers'[j].attempt \in DOMAIN attempts'
  BY <1>1, <1>2, <1>3, <1>4 DEF TypeOK
<1>10. TypeOK'
  <2>1. \A q \in Procs :
           /\ proc'[q].at # "idle" => proc'[q].attempt \in DOMAIN attempts'
           /\ proc'[q].at \in {"wait", "read", "admit"} =>
                 proc'[q].verifier \in DOMAIN verifiers'
    BY <1>1, <1>2, <1>4, <1>6, <1>7 DEF TypeOK
  <2>2. /\ {tree, head}' \subseteq past' /\ past' \subseteq Contents
        /\ returned' \in BOOLEAN /\ raced' \subseteq DOMAIN verifiers'
        /\ file' \in [1..MaxAttempts -> Bytes] /\ deaths' \in 0..MaxDeaths
        /\ attempts' \in Seq(AttemptType) /\ Len(attempts') <= MaxAttempts
    BY <1>1, <1>2, <1>4, BusyProcess DEF TypeOK, checkout, Spawn
  <2>3. Len(verifiers') <= MaxVerifiers
    BY <1>4, <1>5
  <2> QED
    BY <1>4, <1>8, <1>9, <2>1, <2>2, <2>3 DEF TypeOK
<1>11. Ownership'
  <2> SUFFICES ASSUME NEW q \in Procs
               PROVE  /\ proc'[q].at \in {"write", "fill"} => Mine(q)'.node = "patch"
                      /\ HasVerifier(q)' =>
                            /\ proc'[q].verifier \in DOMAIN verifiers'
                            /\ verifiers'[proc'[q].verifier].attempt = proc'[q].attempt
                      /\ proc'[q].at = "freeze" => Alone(q)'
    BY DEF Ownership
  <2>1. CASE q = p
    BY <1>3, <1>4, <1>6, <1>7, <2>1
  <2>2. CASE q # p
    <3>1. proc'[q] = proc[q] /\ Mine(q)' = Mine(q)
      BY <1>1, <1>7, <2>2 DEF Mine
    <3>2. ASSUME proc[q].at = "freeze" PROVE Alone(q)'
      <4>1. Alone(q)
        BY <1>2, <3>2 DEF Ownership
      <4>2. proc[p].attempt # proc[q].attempt
        BY <1>1, <2>2, <4>1 DEF Alone
      <4>3. \A j \in DOMAIN verifiers' : verifiers'[j].attempt # proc[q].attempt
        BY <1>3, <1>4, <4>1, <4>2 DEF Alone
      <4>4. \A o \in Procs \ {q} :
               proc'[o].at # "idle" => proc'[o].attempt # proc'[q].attempt
        BY <1>6, <1>7, <3>1, <4>1, <4>2 DEF Alone
      <4> QED
        BY <3>1, <4>1, <4>3, <4>4 DEF Alone
    <3> QED
      BY <1>2, <1>4, <3>1, <3>2 DEF Ownership, HasVerifier
  <2> QED
    BY <2>1, <2>2
<1>12. Findings'
  <2>1. ASSUME NEW i, i = n PROVE Found(i)'
    <3>1. verifiers'[i] = v /\ Subject(i)' = Mine(p)
      BY <1>1, <1>3, <1>4, <2>1 DEF Subject, Mine
    <3> QED
      BY <1>3, <3>1, LookTypes DEF Found
  <2>2. ASSUME NEW i \in DOMAIN verifiers PROVE Found(i)'
    <3>1. Found(i) /\ verifiers'[i] = verifiers[i] /\ Subject(i)' = Subject(i)
      BY <1>1, <1>2, <1>4 DEF Findings, Subject
    <3> QED
      BY <1>1, <3>1 DEF Found, Passing, Accepting, Overtaken, Held, checkout
  <2> QED
    BY <1>4, <2>1, <2>2 DEF Findings
<1>13. AcceptedPasses'
  BY <1>1, <1>2 DEF AcceptedPasses, checkout
<1>14. Captures'
  <2>1. \A q \in Procs : Shown(proc'[q].look)
    BY <1>6, <1>7 DEF VerificationInv, Captures
  <2> QED
    BY <1>1, <2>1 DEF VerificationInv, Captures, Shown, checkout
<1> QED
  BY <1>10, <1>11, <1>12, <1>13, <1>14 DEF VerificationInv

-----------------------------------------------------------------------------
LEMMA VerificationStep ==
    ASSUME VerificationInv, [Next]_vars
    PROVE  VerificationInv'
<1>1. CASE Edit
  BY <1>1, EditKeeps
<1>7. CASE Commit
  BY <1>7, CommitKeeps
<1>2. ASSUME NEW i \in DOMAIN verifiers, Verify(i) PROVE VerificationInv'
  BY <1>2, VerifyKeeps
<1>3. ASSUME NEW p \in Procs, Work(p) PROVE VerificationInv'
  BY <1>3, ClaimKeeps, FreezeKeeps, WriteArtifactKeeps, FillArtifactKeeps,
     SealKeeps, ResumeKeeps, SpawnKeeps, TimeOutKeeps, ReturnKeeps,
     ReadReportKeeps, AdmitKeeps DEF Work
<1>4. ASSUME NEW p \in Procs, Die(p) PROVE VerificationInv'
  BY <1>4, DieKeeps
<1>5. CASE Reclaim
  BY <1>5, ReclaimKeeps
<1>6. CASE UNCHANGED vars
  <2> USE <1>6 DEF vars, checkout
  <2>1. TypeOK'
    BY DEF VerificationInv, TypeOK
  <2>2. Ownership'
    BY DEF VerificationInv, Ownership, HasVerifier, Alone, Mine
  <2>3. Findings'
    BY DEF VerificationInv, Findings, Found, Subject, Accepting, Passing,
           Overtaken, Held
  <2>4. AcceptedPasses'
    BY DEF VerificationInv, AcceptedPasses
  <2>5. Captures'
    BY DEF VerificationInv, Captures, Shown
  <2> QED
    BY <2>1, <2>2, <2>3, <2>4, <2>5 DEF VerificationInv
<1> QED
  BY <1>1, <1>2, <1>3, <1>4, <1>5, <1>6, <1>7 DEF Next

(* Every variable keeps its type, and a process or verifier that holds an  *)
(* attempt holds one that was claimed.                                     *)
THEOREM VerificationTypes == Spec => []TypeOK
<1>1. VerificationInv => TypeOK
  BY DEF VerificationInv
<1> QED
  BY VerificationInit, VerificationStep, <1>1, PTL DEF Spec

(* Two captures around the checks are enough, though each is several looks *)
(* at the checkout: whatever a developer, a surviving check or another     *)
(* verifier does to it, however many processes and verifiers die or are    *)
(* killed, a candidate is only accepted when it passes every required      *)
(* check, unless an edit was undone, or a frozen commit was captured again *)
(* while somebody committed between the looks at HEAD and at the status.   *)
THEOREM AcceptedCandidatesPass == Spec => []AcceptedPasses
<1>1. VerificationInv => AcceptedPasses
  BY DEF VerificationInv
<1> QED
  BY VerificationInit, VerificationStep, <1>1, PTL DEF Spec

-----------------------------------------------------------------------------
(* What is sealed is what lies on disk.                                    *)

Unsealed(n) == attempts[n].bytes = Absent

(* An attempt is verified once before it is sealed; its result is its own  *)
(* patch, or the report of one of its verifiers that gave an answer.       *)
RowSealed(n) ==
    LET a == attempts[n] IN
    /\ Unsealed(n) => VerifiedOnce(n)
    /\ ~Unsealed(n) /\ a.node = "patch" =>
          a.bytes = PatchOf(n) /\ file[n] = PatchOf(n)
    /\ ~Unsealed(n) /\ a.node = "check" =>
          \E i \in DOMAIN verifiers :
              /\ a.bytes = ReportOf(i)
              /\ verifiers[i].attempt = n /\ verifiers[i].said # "none"
    /\ Judged(n) =>
          ~Unsealed(n) /\ a.by \in DOMAIN verifiers /\ verifiers[a.by].attempt = n
    /\ a.stage = "sealed" => ~Unsealed(n)

(* A process that has an unsealed attempt has it alone, and carries what   *)
(* the file holds to the seal.                                             *)
Carries(p) ==
    LET w == proc[p]
        n == proc[p].attempt IN
    /\ Unsealed(n) => \A q \in Procs \ {p} :
                         proc[q].at # "idle" => proc[q].attempt # n
    /\ w.at # "admit" => (w.resumed <=> ~Unsealed(n))
    /\ w.at \in {"freeze", "write", "fill", "seal", "read"} => ~w.resumed
    /\ w.at = "admit" => ~Unsealed(n)
    /\ w.at \in {"freeze", "spawn"} /\ Unsealed(n) =>
          \A i \in DOMAIN verifiers : verifiers[i].attempt # n
    /\ w.at \in {"spawn", "wait", "read"} /\ Unsealed(n) => Mine(p).node = "check"
    /\ w.at = "read" => verifiers[w.verifier].said # "none"
    /\ w.at = "seal" /\ Mine(p).node = "patch" =>
          w.bytes = PatchOf(n) /\ file[n] = PatchOf(n)
    /\ w.at = "seal" /\ Mine(p).node = "check" =>
          w.bytes = ReportOf(w.verifier) /\ verifiers[w.verifier].said # "none"

(* The report of the only verifier of a check attempt is whole once it is  *)
(* written.                                                                *)
Reported(i) ==
    LET v == verifiers[i]
        n == verifiers[i].attempt IN
    /\ v.at \in {"before", "checks", "after", "write", "fill", "say"} =>
          Subject(i).node = "check"
    /\ v.said # "none" => v.at = "gone"
    /\ VerifiedOnce(n) /\ v.at = "fill" => file[n] = Torn
    /\ VerifiedOnce(n) /\ Subject(i).node = "check"
          /\ (v.at = "say" \/ v.said # "none") => file[n] = ReportOf(i)

SealInv ==
    /\ \A n \in DOMAIN attempts : RowSealed(n)
    /\ \A p \in Procs : proc[p].at # "idle" => Carries(p)
    /\ \A i \in DOMAIN verifiers : Reported(i)

LEMMA Kinds ==
    /\ \A n : PatchOf(n) # Absent /\ ReportOf(n) # Absent
              /\ PatchOf(n).kind = "patch" /\ ReportOf(n).kind = "report"
              /\ ReportOf(n).of = n
    /\ \A m, n : ReportOf(m) = ReportOf(n) => m = n
    /\ Torn.kind = "torn"
  BY DEF PatchOf, ReportOf, Absent, Torn

LEMMA SealInit == Init => SealInv
<1> SUFFICES ASSUME Init PROVE SealInv
  OBVIOUS
<1>1. DOMAIN attempts = {} /\ DOMAIN verifiers = {}
  BY DEF Init
<1>2. \A p \in Procs : proc[p].at = "idle"
  BY DEF Init, Idle
<1> QED
  BY <1>1, <1>2 DEF SealInv

(* A step of a verifier, which only writes the file of its attempt, and    *)
(* none of a patch.                                                        *)
LEMMA VerifierSeals ==
    ASSUME VerificationInv, SealInv, NEW i \in DOMAIN verifiers,
           verifiers[i].at # "gone", NEW e \in VerifierType,
           e.attempt = verifiers[i].attempt,
           verifiers' = [verifiers EXCEPT ![i] = e],
           UNCHANGED <<attempts, proc>>,
           \A m \in 1..MaxAttempts :
               file'[m] # file[m] =>
                   m = verifiers[i].attempt /\ Subject(i).node = "check",
           Reported(i)'
    PROVE  SealInv'
<1>1. /\ TypeOK /\ Ownership
      /\ verifiers \in Seq(VerifierType) /\ verifiers[i].attempt \in DOMAIN attempts
      /\ DOMAIN attempts \subseteq 1..MaxAttempts
  BY WorkAssumption DEF VerificationInv, TypeOK
<1>2. /\ DOMAIN verifiers' = DOMAIN verifiers /\ verifiers'[i] = e
      /\ \A j \in DOMAIN verifiers : j # i => verifiers'[j] = verifiers[j]
  BY <1>1, SetRow
<1>3. \A j \in DOMAIN verifiers : verifiers'[j].attempt = verifiers[j].attempt
  BY <1>2
<1>4. \A m : VerifiedOnce(m)' <=> VerifiedOnce(m)
  BY <1>2, <1>3 DEF VerifiedOnce
<1>5. verifiers[i].said = "none"
  BY DEF SealInv, Reported
<1>6. \A j \in DOMAIN verifiers : verifiers[j].said # "none" => verifiers'[j] = verifiers[j]
  BY <1>2, <1>5
<1>7. ASSUME NEW n \in DOMAIN attempts PROVE RowSealed(n)'
  <2>1. RowSealed(n)
    BY DEF SealInv
  <2>2. attempts[n].node = "patch" => file'[n] = file[n]
    BY <1>1 DEF Subject
  <2> QED
    BY <1>2, <1>3, <1>4, <1>6, <2>1, <2>2 DEF RowSealed, Unsealed, Judged
<1>8. ASSUME NEW p \in Procs, proc[p].at # "idle" PROVE Carries(p)'
  <2>1. Carries(p) /\ proc[p].attempt \in DOMAIN attempts
    BY <1>1, <1>8 DEF SealInv, TypeOK
  <2>2. Mine(p).node = "patch" => file'[proc[p].attempt] = file[proc[p].attempt]
    BY <1>1, <2>1 DEF Subject, Mine
  <2>3. HasVerifier(p) => proc[p].verifier \in DOMAIN verifiers
    BY <1>1 DEF Ownership
  <2> QED
    BY <1>2, <1>3, <1>6, <2>1, <2>2, <2>3 DEF Carries, Unsealed, Mine, HasVerifier
<1>9. ASSUME NEW j \in DOMAIN verifiers, j # i PROVE Reported(j)'
  <2>1. Reported(j) /\ verifiers'[j] = verifiers[j] /\ Subject(j)' = Subject(j)
        /\ verifiers[j].attempt \in DOMAIN attempts
    BY <1>1, <1>2, <1>9 DEF SealInv, Subject, TypeOK
  <2>2. VerifiedOnce(verifiers[j].attempt) => verifiers[j].attempt # verifiers[i].attempt
    BY <1>9 DEF VerifiedOnce
  <2>3. VerifiedOnce(verifiers[j].attempt) =>
           file'[verifiers[j].attempt] = file[verifiers[j].attempt]
    BY <1>1, <2>1, <2>2
  <2> QED
    BY <1>4, <2>1, <2>3 DEF Reported
<1> QED
  BY <1>2, <1>7, <1>8, <1>9 DEF SealInv

LEMMA LeaveSeals ==
    ASSUME VerificationInv, SealInv, NEW i \in DOMAIN verifiers,
           verifiers[i].at # "gone", NEW a \in Answers, Leave(i, a),
           a # "none" /\ Subject(i).node = "check"
               /\ VerifiedOnce(verifiers[i].attempt)
               => file[verifiers[i].attempt] = ReportOf(i),
           UNCHANGED <<file, attempts, proc>>
    PROVE  SealInv'
<1> DEFINE e == [verifiers[i] EXCEPT !.at = "gone", !.look = NoLook,
                                     !.outcomes = <<>>, !.readable = FALSE,
                                     !.said = a]
<1>1. verifiers \in Seq(VerifierType) /\ verifiers[i] \in VerifierType
  BY DEF VerificationInv, TypeOK
<1>2. e \in VerifierType
  <2>1. <<>> \in Seq({"passed", "failed"}) /\ NoLook \in LookType
    BY LookTypes
  <2>2. ASSUME NEW v \in VerifierType, NEW x \in Seq({"passed", "failed"}),
               NEW l \in LookType
        PROVE  [v EXCEPT !.at = "gone", !.look = l, !.outcomes = x,
                         !.readable = FALSE, !.said = a] \in VerifierType
    BY <2>2 DEF VerifierType
  <2> QED
    BY <1>1, <2>1, <2>2
<1>3. /\ e.attempt = verifiers[i].attempt /\ e.at = "gone" /\ e.said = a
  BY <1>1 DEF VerifierType
<1>4. verifiers' = [verifiers EXCEPT ![i] = e]
  BY <1>1 DEF Leave
<1> HIDE DEF e
<1>5. /\ verifiers'[i] = e /\ DOMAIN verifiers' = DOMAIN verifiers
      /\ \A j \in DOMAIN verifiers : j # i => verifiers'[j] = verifiers[j]
  BY <1>1, <1>2, <1>4, SetRow
<1>6. \A m : VerifiedOnce(m)' <=> VerifiedOnce(m)
  <2>1. \A j \in DOMAIN verifiers : verifiers'[j].attempt = verifiers[j].attempt
    BY <1>3, <1>5
  <2> QED
    BY <1>5, <2>1 DEF VerifiedOnce
<1>7. Subject(i)' = Subject(i)
  BY <1>3, <1>5 DEF Subject
<1>8. Reported(i)'
  BY <1>3, <1>5, <1>6, <1>7 DEF Reported
<1> QED
  BY <1>2, <1>3, <1>4, <1>8, VerifierSeals

(* A verifier that goes on, or looks.                                      *)
LEMMA PeekSeals ==
    ASSUME VerificationInv, SealInv, NEW i \in DOMAIN verifiers,
           verifiers[i].at # "gone",
           NEW s \in {"before", "checks", "after", "write", "fill", "say",
                      "candidate"},
           NEW look \in LookType, Peek(i, s, look),
           UNCHANGED <<attempts, proc>>,
           s # "candidate" => Subject(i).node = "check",
           \A m \in 1..MaxAttempts : file'[m] # file[m] => m = verifiers[i].attempt,
           s = "candidate" => UNCHANGED file,
           s = "fill" => file'[verifiers[i].attempt] = Torn,
           s = "say" /\ VerifiedOnce(verifiers[i].attempt) =>
               file'[verifiers[i].attempt] = ReportOf(i)
    PROVE  SealInv'
<1> PICK e : e = verifiers'[i]
  OBVIOUS
<1>1. TypeOK /\ verifiers \in Seq(VerifierType) /\ Reported(i)
  BY DEF VerificationInv, TypeOK, SealInv
<1>2. /\ e \in VerifierType /\ verifiers' = [verifiers EXCEPT ![i] = e]
      /\ verifiers'[i] = e /\ verifiers'[i].attempt = verifiers[i].attempt
      /\ verifiers'[i].at = s /\ verifiers'[i].said = verifiers[i].said
  BY <1>1, PeekRow
<1>3. /\ DOMAIN verifiers' = DOMAIN verifiers
      /\ \A j \in DOMAIN verifiers : j # i => verifiers'[j] = verifiers[j]
  BY <1>1, <1>2, SetRow
<1>4. \A m : VerifiedOnce(m)' <=> VerifiedOnce(m)
  <2>1. \A j \in DOMAIN verifiers : verifiers'[j].attempt = verifiers[j].attempt
    BY <1>2, <1>3
  <2> QED
    BY <1>3, <2>1 DEF VerifiedOnce
<1>5. Subject(i)' = Subject(i)
  BY <1>2 DEF Subject
<1>6. Reported(i)'
  BY <1>1, <1>2, <1>4, <1>5 DEF Reported
<1>7. e.attempt = verifiers[i].attempt
  BY <1>2
<1> QED
  BY <1>2, <1>6, <1>7, VerifierSeals

(* Storing the file of an attempt leaves the others alone.                 *)
LEMMA StoredFile ==
    ASSUME TypeOK, NEW n \in 1..MaxAttempts, NEW b, Store(n, b)
    PROVE  file'[n] = b /\ \A m \in 1..MaxAttempts : m # n => file'[m] = file[m]
  BY DEF TypeOK, Store, ArtifactPath

LEMMA VerifySeals ==
    ASSUME VerificationInv, SealInv, NEW i \in DOMAIN verifiers, Verify(i)
    PROVE  SealInv'
<1> DEFINE n == verifiers[i].attempt
<1>1. /\ TypeOK /\ Reported(i) /\ Found(i) /\ n \in 1..MaxAttempts
      /\ n \in DOMAIN attempts /\ attempts \in Seq(AttemptType)
      /\ verifiers[i] \in VerifierType
      /\ UNCHANGED <<attempts, proc>>
  BY WorkAssumption DEF VerificationInv, SealInv, Findings, Verify, TypeOK
<1>2. "none" \in Answers /\ "accept" \in Answers /\ "reject" \in Answers
  BY DEF Answers
<1>12. /\ NoLook \in LookType
       /\ \A look \in Looks(verifiers[i].look) : look \in LookType
       /\ \A s : Goto(i, s) => Peek(i, s, NoLook)
       /\ attempts[n].node \in {"patch", "check"}
  <2>1. verifiers[i].look \in LookType /\ attempts[n] \in AttemptType
    BY <1>1 DEF VerifierType
  <2> QED
    BY <1>1, <2>1, NextLook, LookTypes DEF AttemptType, Nodes
<1>3. CASE CaptureBefore(i)
  <2>1. verifiers[i].at = "before" /\ Subject(i).node = "check" /\ UNCHANGED file
    BY <1>1, <1>3 DEF CaptureBefore, Reported
  <2>2. ASSUME NEW look \in LookType, Peek(i, "before", look) \/ Peek(i, "checks", look)
        PROVE  SealInv'
    BY <1>1, <2>1, <2>2, PeekSeals
  <2>3. CASE Leave(i, "none")
    BY <1>1, <1>2, <2>1, <2>3, LeaveSeals
  <2> QED
    BY <1>3, <1>12, <2>2, <2>3 DEF CaptureBefore
<1>4. CASE RunCheck(i)
  <2>1. verifiers[i].at = "checks" /\ UNCHANGED file
    BY <1>4 DEF RunCheck
  <2>2. PICK o \in {"passed", "failed"} :
           verifiers' = [verifiers EXCEPT ![i].outcomes = Append(@, o)]
    BY <1>4 DEF RunCheck
  <2> DEFINE e == [verifiers[i] EXCEPT !.outcomes = Append(verifiers[i].outcomes, o)]
  <2>3. Append(verifiers[i].outcomes, o) \in Seq({"passed", "failed"})
    BY <1>1 DEF VerifierType
  <2>4. e \in VerifierType
    BY <1>1, <2>3 DEF VerifierType
  <2>5. e.attempt = n /\ e.at = "checks" /\ e.said = verifiers[i].said
    BY <1>1, <2>1 DEF VerifierType
  <2>6. verifiers' = [verifiers EXCEPT ![i] = e]
    BY <1>1, <2>2
  <2> HIDE DEF e
  <2>7. verifiers'[i] = e
    BY <1>1, <2>4, <2>6, SetRow DEF TypeOK
  <2>8. Subject(i)' = Subject(i)
    BY <1>1, <2>5, <2>7 DEF Subject
  <2>9. Reported(i)'
    BY <1>1, <2>1, <2>5, <2>7, <2>8 DEF Reported
  <2> QED
    BY <1>1, <2>1, <2>4, <2>5, <2>6, <2>9, VerifierSeals
<1>13. CASE ChecksRan(i)
  <2>1. verifiers[i].at = "checks" /\ Subject(i).node = "check" /\ UNCHANGED file
    BY <1>1, <1>13 DEF ChecksRan, Reported
  <2>2. Peek(i, "after", NoLook)
    BY <1>12, <1>13 DEF ChecksRan
  <2> QED
    BY <1>1, <1>12, <2>1, <2>2, PeekSeals
<1>5. CASE CaptureAfter(i)
  <2>1. verifiers[i].at = "after" /\ Subject(i).node = "check" /\ UNCHANGED file
    BY <1>1, <1>5 DEF CaptureAfter, Reported
  <2>2. ASSUME NEW look \in LookType, Peek(i, "after", look) \/ Peek(i, "write", look)
        PROVE  SealInv'
    BY <1>1, <2>1, <2>2, PeekSeals
  <2>3. CASE Leave(i, "none")
    BY <1>1, <1>2, <2>1, <2>3, LeaveSeals
  <2> QED
    BY <1>5, <1>12, <2>2, <2>3 DEF CaptureAfter
<1>6. CASE WriteReport(i)
  <2>1. verifiers[i].at = "write" /\ Subject(i).node = "check"
        /\ Peek(i, "fill", NoLook)
    BY <1>1, <1>6, <1>12 DEF WriteReport, Reported
  <2>2. file'[n] = Torn /\ \A m \in 1..MaxAttempts : m # n => file'[m] = file[m]
    BY <1>1, <1>6, StoredFile DEF WriteReport
  <2> QED
    BY <1>1, <1>12, <2>1, <2>2, PeekSeals
<1>7. CASE FillReport(i)
  <2>1. verifiers[i].at = "fill" /\ Subject(i).node = "check"
        /\ Peek(i, "say", NoLook)
    BY <1>1, <1>7, <1>12 DEF FillReport, Reported
  <2>2. PICK b : Store(n, b) /\ (b = ReportOf(i) \/ file[n].kind = "report")
    BY <1>7 DEF FillReport, ArtifactPath
  <2>3. file'[n] = b /\ \A m \in 1..MaxAttempts : m # n => file'[m] = file[m]
    BY <1>1, <2>2, StoredFile
  <2>4. VerifiedOnce(n) => file[n] = Torn
    BY <1>1, <2>1 DEF Reported
  <2>5. VerifiedOnce(n) => b = ReportOf(i)
    BY <2>2, <2>4, Kinds
  <2> QED
    BY <1>1, <1>12, <2>1, <2>3, <2>5, PeekSeals
<1>8. CASE Say(i)
  <2>1. verifiers[i].at = "say" /\ UNCHANGED file
    BY <1>8 DEF Say
  <2>2. Subject(i).node = "check" /\ VerifiedOnce(n) => file[n] = ReportOf(i)
    BY <1>1, <2>1 DEF Reported
  <2>3. Leave(i, "accept") \/ Leave(i, "reject")
    BY <1>8 DEF Say
  <2> QED
    BY <1>1, <1>2, <2>1, <2>2, <2>3, LeaveSeals
<1>9. CASE ReadArtifact(i)
  <2>1. verifiers[i].at = "artifact" /\ UNCHANGED file
    BY <1>9 DEF ReadArtifact
  <2>9. CASE "base_matches" \notin PatchChecks
    <3>1. Leave(i, "accept") \/ Leave(i, "reject")
      BY <1>9, <2>9 DEF ReadArtifact
    <3>2. Subject(i).node = "patch"
      BY <1>1, <2>1 DEF Found
    <3> QED
      BY <1>1, <1>2, <2>1, <3>1, <3>2, LeaveSeals
  <2>10. SUFFICES ASSUME "base_matches" \in PatchChecks PROVE SealInv'
    BY <2>9
  <2>2. PICK b \in BOOLEAN : verifiers' = [verifiers EXCEPT
            ![i].at = "candidate", ![i].readable = b]
    BY <1>9, <2>10 DEF ReadArtifact
  <2> DEFINE e == [verifiers[i] EXCEPT !.at = "candidate", !.readable = b]
  <2>3. e \in VerifierType
    BY <1>1 DEF VerifierType
  <2>4. e.attempt = n /\ e.at = "candidate" /\ e.said = verifiers[i].said
    BY <1>1 DEF VerifierType
  <2>5. verifiers' = [verifiers EXCEPT ![i] = e]
    BY <1>1, <2>2
  <2> HIDE DEF e
  <2>6. verifiers'[i] = e
    BY <1>1, <2>3, <2>5, SetRow DEF TypeOK
  <2>7. Subject(i)' = Subject(i)
    BY <1>1, <2>4, <2>6 DEF Subject
  <2>8. Reported(i)'
    BY <1>1, <2>1, <2>4, <2>6, <2>7 DEF Reported
  <2> QED
    BY <1>1, <2>1, <2>3, <2>4, <2>5, <2>8, VerifierSeals
<1>10. CASE CaptureCandidate(i)
  <2>1. verifiers[i].at = "candidate" /\ UNCHANGED file /\ Subject(i).node = "patch"
    BY <1>1, <1>10 DEF CaptureCandidate, Found
  <2>2. ASSUME NEW look \in LookType, Peek(i, "candidate", look)
        PROVE  SealInv'
    BY <1>1, <2>1, <2>2, PeekSeals
  <2>3. CASE Leave(i, "accept") \/ Leave(i, "reject")
    BY <1>1, <1>2, <2>1, <2>3, LeaveSeals
  <2> QED
    BY <1>10, <1>12, <2>2, <2>3 DEF CaptureCandidate
<1>11. CASE ExitWithout(i)
  BY <1>1, <1>2, <1>11, LeaveSeals DEF ExitWithout
<1> QED
  BY <1>3, <1>4, <1>5, <1>6, <1>7, <1>8, <1>9, <1>10, <1>11, <1>13 DEF Verify

(* A process goes to row r.  It writes no file but that of its own patch,  *)
(* before that is sealed, and changes no row but its own; it leaves sealed *)
(* bytes alone, and comes to an attempt of somebody else only when that is *)
(* sealed.                                                                 *)
LEMMA ProcessSeals ==
    ASSUME VerificationInv, SealInv, NEW p \in Procs, NEW r \in ProcType,
           proc' = [proc EXCEPT ![p] = r],
           UNCHANGED verifiers, DOMAIN attempts' = DOMAIN attempts,
           \A m \in DOMAIN attempts :
               /\ attempts'[m].node = attempts[m].node
               /\ attempts'[m].bytes # attempts[m].bytes => Unsealed(m)
               /\ attempts'[m] # attempts[m] =>
                     proc[p].at # "idle" /\ m = proc[p].attempt,
           \A m \in 1..MaxAttempts :
               file'[m] # file[m] =>
                   proc[p].at \in {"write", "fill"} /\ m = proc[p].attempt,
           \A m \in DOMAIN attempts :
               proc[p].at # "idle" /\ m = proc[p].attempt => RowSealed(m)',
           r.at # "idle" =>
               /\ Carries(p)'
               /\ \/ proc[p].at # "idle" /\ r.attempt = proc[p].attempt
                  \/ ~Unsealed(r.attempt)
    PROVE  SealInv'
<1>1. /\ TypeOK /\ Ownership /\ DOMAIN attempts \subseteq 1..MaxAttempts
      /\ \A q \in Procs : proc[q].at # "idle" => proc[q].attempt \in DOMAIN attempts
      /\ \A i \in DOMAIN verifiers : verifiers[i].attempt \in DOMAIN attempts
      /\ proc'[p] = r /\ \A q \in Procs \ {p} : proc'[q] = proc[q]
  BY WorkAssumption DEF VerificationInv, TypeOK
<1>2. \A m : VerifiedOnce(m)' <=> VerifiedOnce(m)
  BY DEF VerifiedOnce
<1>3. proc[p].at \in {"write", "fill"} =>
         Unsealed(proc[p].attempt) /\ Mine(p).node = "patch"
  BY <1>1 DEF SealInv, Carries, Ownership
<1>4. ASSUME NEW m \in DOMAIN attempts, proc[p].at = "idle" \/ m # proc[p].attempt
      PROVE  attempts'[m] = attempts[m] /\ file'[m] = file[m]
  BY <1>1, <1>4
<1>5. ASSUME NEW m \in DOMAIN attempts PROVE RowSealed(m)'
  <2>1. CASE proc[p].at # "idle" /\ m = proc[p].attempt
    BY <2>1
  <2>2. CASE proc[p].at = "idle" \/ m # proc[p].attempt
    <3>1. attempts'[m] = attempts[m] /\ file'[m] = file[m] /\ RowSealed(m)
      BY <1>4, <2>2 DEF SealInv
    <3> QED
      BY <1>2, <3>1 DEF RowSealed, Unsealed, Judged
  <2> QED
    BY <2>1, <2>2
<1>6. ASSUME NEW q \in Procs \ {p}, proc[q].at # "idle" PROVE Carries(q)'
  <2> DEFINE n == proc[q].attempt
  <2>1. /\ Carries(q) /\ n \in DOMAIN attempts /\ proc'[q] = proc[q]
        /\ HasVerifier(q) => proc[q].verifier \in DOMAIN verifiers
    BY <1>1, <1>6 DEF SealInv, Ownership
  <2>2. CASE proc[p].at = "idle" \/ n # proc[p].attempt
    <3>1. attempts'[n] = attempts[n] /\ file'[n] = file[n]
      BY <1>4, <2>1, <2>2
    <3>2. Unsealed(n) => \A o \in Procs \ {q} : proc'[o].at # "idle" => proc'[o].attempt # n
      <4>1. Unsealed(n) => \A o \in Procs \ {q} : proc[o].at # "idle" => proc[o].attempt # n
        BY <2>1 DEF Carries
      <4>2. Unsealed(n) /\ r.at # "idle" => r.attempt # n
        BY <2>2
      <4> QED
        BY <1>1, <4>1, <4>2
    <3> QED
      BY <2>1, <3>1, <3>2 DEF Carries, Unsealed, Mine
  <2>3. CASE proc[p].at # "idle" /\ n = proc[p].attempt
    <3>1. ~Unsealed(n) /\ proc[q].at \notin {"freeze", "write", "fill", "seal", "read"}
      BY <1>6, <2>1, <2>3 DEF Carries
    <3>2. ~Unsealed(n)'
      BY <2>1, <3>1 DEF Unsealed
    <3> QED
      BY <2>1, <3>1, <3>2 DEF Carries, Unsealed, Mine
  <2> QED
    BY <2>2, <2>3
<1>7. ASSUME NEW i \in DOMAIN verifiers PROVE Reported(i)'
  <2>1. /\ Reported(i) /\ Subject(i)'.node = Subject(i).node
        /\ Subject(i).node = "check" =>
              file'[verifiers[i].attempt] = file[verifiers[i].attempt]
    BY <1>1, <1>3 DEF SealInv, Subject, Mine
  <2> QED
    BY <1>2, <2>1 DEF Reported
<1> QED
  BY <1>1, <1>5, <1>6, <1>7 DEF SealInv

(* A step that leaves the attempts and the files alone.                    *)
LEMMA JustCarries ==
    ASSUME VerificationInv, SealInv, NEW p \in Procs, NEW r \in ProcType,
           proc[p].at # "idle", proc' = [proc EXCEPT ![p] = r],
           UNCHANGED <<verifiers, attempts, file>>,
           r.at # "idle" => Carries(p)' /\ r.attempt = proc[p].attempt
    PROVE  SealInv'
<1>1. proc[p].attempt \in DOMAIN attempts /\ RowSealed(proc[p].attempt)
  BY BusyProcess DEF SealInv
<1>2. \A m \in DOMAIN attempts : RowSealed(m)'
  BY DEF SealInv, RowSealed, Unsealed, Judged, VerifiedOnce
<1> QED
  BY <1>1, <1>2, ProcessSeals

(* A step that puts row e in the place of the process's attempt.           *)
LEMMA RowSeals ==
    ASSUME VerificationInv, SealInv, NEW p \in Procs, NEW r \in ProcType,
           NEW e \in AttemptType, proc[p].at # "idle",
           proc' = [proc EXCEPT ![p] = r],
           attempts' = [attempts EXCEPT ![proc[p].attempt] = e],
           UNCHANGED <<verifiers, file>>,
           e.node = Mine(p).node,
           e.bytes # Mine(p).bytes => Unsealed(proc[p].attempt),
           \A m \in DOMAIN attempts :
               m = proc[p].attempt /\ attempts'[m] = e => RowSealed(m)',
           r.at # "idle" => Carries(p)' /\ r.attempt = proc[p].attempt
    PROVE  SealInv'
<1> DEFINE n == proc[p].attempt
<1>1. n \in DOMAIN attempts /\ attempts \in Seq(AttemptType)
  BY BusyProcess
<1>2. /\ DOMAIN attempts' = DOMAIN attempts /\ attempts'[n] = e
      /\ \A m \in DOMAIN attempts : m # n => attempts'[m] = attempts[m]
  BY <1>1, SetRow
<1>3. \A m \in DOMAIN attempts :
         /\ attempts'[m].node = attempts[m].node
         /\ attempts'[m].bytes # attempts[m].bytes => Unsealed(m)
         /\ attempts'[m] # attempts[m] =>
               proc[p].at # "idle" /\ m = proc[p].attempt
  BY <1>2 DEF Mine
<1>4. \A m \in DOMAIN attempts :
         proc[p].at # "idle" /\ m = proc[p].attempt => RowSealed(m)'
  BY <1>2
<1> QED
  BY <1>2, <1>3, <1>4, ProcessSeals

(* The stages change under the processes, and nothing becomes sealed.      *)
LEMMA StagesSeal ==
    ASSUME SealInv, UNCHANGED <<verifiers, proc, file>>,
           DOMAIN attempts' = DOMAIN attempts,
           \A m \in DOMAIN attempts :
               /\ attempts'[m].node = attempts[m].node
               /\ attempts'[m].bytes = attempts[m].bytes
               /\ attempts'[m].by = attempts[m].by
               /\ attempts'[m].stage = "sealed" => attempts[m].stage = "sealed",
           TypeOK
    PROVE  SealInv'
<1>1. /\ \A p \in Procs : proc[p].at # "idle" => proc[p].attempt \in DOMAIN attempts
      /\ \A i \in DOMAIN verifiers : verifiers[i].attempt \in DOMAIN attempts
  BY DEF TypeOK
<1>2. \A m : VerifiedOnce(m)' <=> VerifiedOnce(m)
  BY DEF VerifiedOnce
<1>3. ASSUME NEW m \in DOMAIN attempts PROVE RowSealed(m)'
  BY <1>2 DEF SealInv, RowSealed, Unsealed, Judged
<1>4. ASSUME NEW p \in Procs, proc[p].at # "idle" PROVE Carries(p)'
  <2>1. Carries(p) /\ proc[p].attempt \in DOMAIN attempts
    BY <1>1, <1>4 DEF SealInv
  <2> QED
    BY <2>1 DEF Carries, Unsealed, Mine
<1>5. ASSUME NEW i \in DOMAIN verifiers PROVE Reported(i)'
  <2>1. Reported(i) /\ Subject(i)'.node = Subject(i).node
    BY <1>1 DEF SealInv, Subject
  <2> QED
    BY <1>2, <2>1 DEF Reported
<1> QED
  BY <1>3, <1>4, <1>5 DEF SealInv

LEMMA FinishSeals ==
    ASSUME VerificationInv, SealInv, NEW p \in Procs, proc[p].at # "idle",
           Finish(p), UNCHANGED <<verifiers, attempts, file>>
    PROVE  SealInv'
  BY IdleRow, JustCarries DEF Finish

LEMMA SealFailedSeals ==
    ASSUME VerificationInv, SealInv, NEW p \in Procs, proc[p].at # "idle",
           SealFailed(p), UNCHANGED <<verifiers, file>>
    PROVE  SealInv'
<1>1. CASE Mine(p).stage = "claimed"
  <2> DEFINE e == [Mine(p) EXCEPT !.stage = "stopped"]
  <2>1. /\ Mine(p) \in AttemptType /\ attempts \in Seq(AttemptType)
        /\ proc[p].attempt \in DOMAIN attempts
    BY BusyProcess
  <2>2. /\ e \in AttemptType /\ e.node = Mine(p).node
        /\ e.bytes = Mine(p).bytes /\ e.by = Mine(p).by /\ e.stage = "stopped"
    BY <2>1 DEF AttemptType, Stages
  <2>3. attempts' = [attempts EXCEPT ![proc[p].attempt] = e]
    BY <1>1, <2>1 DEF SealFailed, SetStage, Mine
  <2> HIDE DEF e
  <2>4. \A m \in DOMAIN attempts :
           m = proc[p].attempt /\ attempts'[m] = e => RowSealed(m)'
    BY <2>2 DEF SealInv, RowSealed, Unsealed, Judged, VerifiedOnce, Mine
  <2>5. Idle \in ProcType /\ Idle.at = "idle" /\ proc' = [proc EXCEPT ![p] = Idle]
    BY IdleRow DEF SealFailed, Finish
  <2> QED
    BY <2>2, <2>3, <2>4, <2>5, RowSeals
<1>2. CASE Mine(p).stage # "claimed"
  BY <1>2, FinishSeals DEF SealFailed
<1> QED
  BY <1>1, <1>2

(* What a process at a given place knows of its attempt.                   *)
LEMMA Carried ==
    ASSUME VerificationInv, SealInv, NEW p \in Procs, proc[p].at # "idle"
    PROVE  /\ Carries(p) /\ RowSealed(proc[p].attempt)
           /\ proc[p] \in ProcType /\ Mine(p) \in AttemptType
           /\ Mine(p) = attempts[proc[p].attempt]
           /\ attempts \in Seq(AttemptType)
           /\ proc[p].attempt \in DOMAIN attempts
           /\ proc[p].attempt \in 1..MaxAttempts
           /\ Mine(p).node \in {"patch", "check"}
           /\ \A r : proc' = [proc EXCEPT ![p] = r] =>
                 proc'[p] = r /\ \A q \in Procs \ {p} : proc'[q] = proc[q]
<1>1. /\ proc[p] \in ProcType /\ Mine(p) \in AttemptType
      /\ attempts \in Seq(AttemptType)
      /\ proc[p].attempt \in DOMAIN attempts
      /\ proc[p].attempt \in 1..MaxAttempts
  BY BusyProcess
<1>2. Mine(p).node \in {"patch", "check"}
  BY <1>1 DEF AttemptType, Nodes
<1>3. proc \in [Procs -> ProcType]
  BY DEF VerificationInv, TypeOK
<1> QED
  BY <1>1, <1>2, <1>3 DEF SealInv, Mine

LEMMA FreezeSeals ==
    ASSUME VerificationInv, SealInv, NEW p \in Procs, Freeze(p)
    PROVE  SealInv'
<1> DEFINE n == proc[p].attempt
           s == IF Mine(p).node = "patch" THEN "write" ELSE "spawn"
<1>1. proc[p].at = "freeze" /\ UNCHANGED <<file, verifiers>>
  BY DEF Freeze, At
<1>2. /\ Carries(p) /\ RowSealed(n) /\ proc[p] \in ProcType
      /\ Mine(p) \in AttemptType /\ Mine(p) = attempts[n]
      /\ attempts \in Seq(AttemptType) /\ n \in DOMAIN attempts
      /\ Mine(p).node \in {"patch", "check"} /\ NoLook \in LookType
      /\ \A look \in Looks(proc[p].look) : look \in LookType
  <2>1. proc[p].look \in LookType
    BY <1>1, Carried DEF ProcType
  <2> QED
    BY <1>1, <2>1, Carried, NextLook, LookTypes DEF VerificationInv
<1>3. CASE SealFailed(p)
  BY <1>1, <1>3, SealFailedSeals
<1>5. ASSUME NEW look \in LookType,
             proc' = [proc EXCEPT ![p].look = look], UNCHANGED attempts
      PROVE  SealInv'
  <2> DEFINE r == [proc[p] EXCEPT !.look = look]
  <2>1. /\ r \in ProcType /\ r.at = "freeze" /\ r.attempt = n
        /\ r.resumed = proc[p].resumed /\ r.verifier = proc[p].verifier
        /\ r.bytes = proc[p].bytes
    BY <1>1, <1>2 DEF ProcType
  <2>2. proc' = [proc EXCEPT ![p] = r]
    BY <1>5
  <2> HIDE DEF r
  <2>3. proc'[p] = r /\ \A q \in Procs \ {p} : proc'[q] = proc[q]
    BY <1>1, <2>2, Carried
  <2>4. Carries(p)'
    BY <1>1, <1>2, <1>5, <2>1, <2>3 DEF Carries, Unsealed, Mine
  <2> QED
    BY <1>1, <1>5, <2>1, <2>2, <2>4, JustCarries
<1>4. ASSUME NEW look \in LookType,
             attempts' = [attempts EXCEPT ![n].frozen = look],
             proc' = [proc EXCEPT ![p].look = NoLook, ![p].at = s]
      PROVE  SealInv'
  <2> DEFINE e == [Mine(p) EXCEPT !.frozen = look]
             r == [proc[p] EXCEPT !.look = NoLook, !.at = s]
  <2>1. ASSUME NEW x \in AttemptType, NEW c \in LookType
        PROVE  /\ [x EXCEPT !.frozen = c] \in AttemptType
               /\ [x EXCEPT !.frozen = c].node = x.node
               /\ [x EXCEPT !.frozen = c].bytes = x.bytes
               /\ [x EXCEPT !.frozen = c].by = x.by
               /\ [x EXCEPT !.frozen = c].stage = x.stage
    BY <2>1 DEF AttemptType
  <2>2. /\ e \in AttemptType /\ e.node = Mine(p).node /\ e.bytes = Mine(p).bytes
        /\ e.by = Mine(p).by /\ e.stage = Mine(p).stage
    BY <1>2, <2>1
  <2>3. attempts' = [attempts EXCEPT ![n] = e]
    BY <1>2, <1>4
  <2>4. /\ r \in ProcType /\ r.at = s /\ r.attempt = n
        /\ r.resumed = proc[p].resumed
    BY <1>2 DEF ProcType
  <2>5. proc' = [proc EXCEPT ![p] = r]
    BY <1>4
  <2> HIDE DEF e, r
  <2>6. proc'[p] = r /\ \A q \in Procs \ {p} : proc'[q] = proc[q]
    BY <1>1, <2>5, Carried
  <2>7. /\ attempts'[n] = e
    BY <1>2, <2>2, <2>3, SetRow
  <2>8. \A m \in DOMAIN attempts :
           m = n /\ attempts'[m] = e => RowSealed(m)'
    BY <1>1, <1>2, <2>2 DEF RowSealed, Unsealed, Judged, VerifiedOnce
  <2>9. Carries(p)'
    BY <1>1, <1>2, <2>2, <2>4, <2>6, <2>7 DEF Carries, Unsealed, Mine
  <2> QED
    BY <1>1, <1>2, <2>2, <2>3, <2>4, <2>5, <2>8, <2>9, RowSeals
<1> QED
  BY <1>2, <1>3, <1>4, <1>5 DEF Freeze

LEMMA WriteArtifactSeals ==
    ASSUME VerificationInv, SealInv, NEW p \in Procs, WriteArtifact(p)
    PROVE  SealInv'
<1> DEFINE n == proc[p].attempt
           r == [proc[p] EXCEPT !.at = "fill"]
<1>1. /\ proc[p].at = "write" /\ Store(n, Torn) /\ TypeOK
      /\ proc' = [proc EXCEPT ![p] = r] /\ UNCHANGED <<attempts, verifiers>>
  BY DEF WriteArtifact, At, Move, VerificationInv
<1>2. /\ Carries(p) /\ RowSealed(n) /\ proc[p] \in ProcType
      /\ n \in DOMAIN attempts /\ n \in 1..MaxAttempts
  BY <1>1, Carried
<1>3. file'[n] = Torn /\ \A m \in 1..MaxAttempts : m # n => file'[m] = file[m]
  BY <1>1, <1>2, StoredFile
<1>4. /\ r \in ProcType /\ r.at = "fill" /\ r.attempt = n
      /\ r.resumed = proc[p].resumed
  BY <1>2 DEF ProcType
<1> HIDE DEF r
<1>5. proc'[p] = r /\ \A q \in Procs \ {p} : proc'[q] = proc[q]
  BY <1>1, Carried
<1>6. Unsealed(n)
  BY <1>1, <1>2 DEF Carries
<1>7. \A m \in DOMAIN attempts : m = n => RowSealed(m)'
  BY <1>1, <1>2, <1>6 DEF RowSealed, Unsealed, Judged, VerifiedOnce
<1>8. Carries(p)'
  BY <1>1, <1>2, <1>4, <1>5 DEF Carries, Unsealed, Mine
<1> QED
  BY <1>1, <1>3, <1>4, <1>7, <1>8, ProcessSeals

LEMMA FillArtifactSeals ==
    ASSUME VerificationInv, SealInv, NEW p \in Procs, FillArtifact(p)
    PROVE  SealInv'
<1> DEFINE n == proc[p].attempt
           r == [proc[p] EXCEPT !.at = "seal", !.bytes = PatchOf(n)]
<1>1. /\ proc[p].at = "fill" /\ Store(n, PatchOf(n)) /\ TypeOK
      /\ proc' = [proc EXCEPT ![p] = r] /\ UNCHANGED <<attempts, verifiers>>
  BY DEF FillArtifact, At, VerificationInv
<1>2. /\ Carries(p) /\ RowSealed(n) /\ proc[p] \in ProcType
      /\ n \in DOMAIN attempts /\ n \in 1..MaxAttempts /\ Mine(p).node = "patch"
  BY <1>1, Carried, BusyProcess
<1>3. /\ file'[n] = PatchOf(n)
      /\ \A m \in 1..MaxAttempts : m # n => file'[m] = file[m]
  BY <1>1, <1>2, StoredFile
<1>4. /\ r \in ProcType /\ r.at = "seal" /\ r.attempt = n
      /\ r.resumed = proc[p].resumed /\ r.bytes = PatchOf(n)
  <2>1. PatchOf(n) \in Bytes
    BY <1>2, FileTypes
  <2> QED
    BY <1>2, <2>1 DEF ProcType
<1> HIDE DEF r
<1>5. proc'[p] = r /\ \A q \in Procs \ {p} : proc'[q] = proc[q]
  BY <1>1, Carried
<1>6. Unsealed(n)
  BY <1>1, <1>2 DEF Carries
<1>7. \A m \in DOMAIN attempts : m = n => RowSealed(m)'
  BY <1>1, <1>2, <1>6 DEF RowSealed, Unsealed, Judged, VerifiedOnce
<1>8. Carries(p)'
  BY <1>1, <1>2, <1>3, <1>4, <1>5 DEF Carries, Unsealed, Mine
<1> QED
  BY <1>1, <1>3, <1>4, <1>7, <1>8, ProcessSeals

(* A report is read when its verifier has said what it found: it is whole, *)
(* and no other verifier has worked on the attempt.                        *)
LEMMA ReadReportSeals ==
    ASSUME VerificationInv, SealInv, NEW p \in Procs, ReadReport(p)
    PROVE  SealInv'
<1> DEFINE n == proc[p].attempt
           i == proc[p].verifier
           r == [proc[p] EXCEPT !.at = "seal", !.bytes = file[n]]
<1>1. /\ proc[p].at = "read" /\ proc' = [proc EXCEPT ![p] = r]
      /\ UNCHANGED <<attempts, verifiers, file>>
  BY DEF ReadReport, At, ArtifactPath
<1>2. /\ Carries(p) /\ RowSealed(n) /\ proc[p] \in ProcType
      /\ n \in DOMAIN attempts /\ n \in 1..MaxAttempts
      /\ i \in DOMAIN verifiers /\ verifiers[i].attempt = n
      /\ Mine(p) = attempts[n]
  BY <1>1, Carried, BusyProcess DEF HasVerifier
<1>3. Unsealed(n) /\ Mine(p).node = "check" /\ verifiers[i].said # "none"
  BY <1>1, <1>2 DEF Carries
<1>4. file[n] = ReportOf(i)
  <2>1. VerifiedOnce(n) /\ Subject(i).node = "check" /\ Reported(i)
    BY <1>2, <1>3 DEF RowSealed, Subject, SealInv
  <2> QED
    BY <1>2, <1>3, <2>1 DEF Reported
<1>5. /\ r \in ProcType /\ r.at = "seal" /\ r.attempt = n /\ r.verifier = i
      /\ r.resumed = proc[p].resumed /\ r.bytes = file[n]
  <2>1. file[n] \in Bytes
    BY <1>2 DEF VerificationInv, TypeOK
  <2> QED
    BY <1>2, <2>1 DEF ProcType
<1> HIDE DEF r
<1>6. proc'[p] = r /\ \A q \in Procs \ {p} : proc'[q] = proc[q]
  BY <1>1, Carried
<1>7. Carries(p)'
  BY <1>1, <1>2, <1>3, <1>4, <1>5, <1>6 DEF Carries, Unsealed, Mine
<1> QED
  BY <1>1, <1>5, <1>7, JustCarries

LEMMA ReturnSeals ==
    ASSUME VerificationInv, SealInv, NEW p \in Procs, Return(p)
    PROVE  SealInv'
<1> DEFINE n == proc[p].attempt
           i == proc[p].verifier
<1>1. /\ proc[p].at = "wait" /\ UNCHANGED <<file, verifiers>>
      /\ \/ SealFailed(p)
         \/ Finish(p) /\ UNCHANGED attempts
         \/ /\ verifiers[i].said # "none" /\ UNCHANGED attempts
            /\ Move(p, IF proc[p].resumed THEN "admit" ELSE "read")
  BY DEF Return, At
<1>2. CASE SealFailed(p)
  BY <1>1, <1>2, SealFailedSeals
<1>3. CASE Finish(p) /\ UNCHANGED attempts
  BY <1>1, <1>3, FinishSeals
<1>4. CASE /\ verifiers[i].said # "none" /\ UNCHANGED attempts
           /\ Move(p, IF proc[p].resumed THEN "admit" ELSE "read")
  <2> DEFINE s == IF proc[p].resumed THEN "admit" ELSE "read"
             r == [proc[p] EXCEPT !.at = s]
  <2>1. Carries(p) /\ proc[p] \in ProcType
    BY <1>1, Carried
  <2>2. /\ r \in ProcType /\ r.at = s /\ r.attempt = n /\ r.verifier = i
        /\ r.resumed = proc[p].resumed
    BY <2>1 DEF ProcType
  <2>3. proc' = [proc EXCEPT ![p] = r]
    BY <1>4 DEF Move
  <2> HIDE DEF r
  <2>4. proc'[p] = r /\ \A q \in Procs \ {p} : proc'[q] = proc[q]
    BY <1>1, <2>3, Carried
  <2>5. Carries(p)'
    BY <1>1, <1>4, <2>1, <2>2, <2>4 DEF Carries, Unsealed, Mine
  <2> QED
    BY <1>1, <1>4, <2>2, <2>3, <2>5, JustCarries
<1> QED
  BY <1>1, <1>2, <1>3, <1>4

(* What is sealed is the patch that was filled, or the report that was     *)
(* read, and no file changed since.                                        *)
LEMMA SealSeals ==
    ASSUME VerificationInv, SealInv, NEW p \in Procs, Seal(p)
    PROVE  SealInv'
<1> DEFINE n == proc[p].attempt
           e == [Mine(p) EXCEPT !.stage = "sealed", !.bytes = proc[p].bytes]
           r == [proc[p] EXCEPT !.at = "spawn", !.resumed = TRUE]
           a == [proc[p] EXCEPT !.at = "admit"]
<1>1. proc[p].at = "seal" /\ UNCHANGED <<file, verifiers>>
  BY DEF Seal, At
<1>2. /\ Carries(p) /\ RowSealed(n) /\ proc[p] \in ProcType
      /\ Mine(p) \in AttemptType /\ Mine(p) = attempts[n]
      /\ attempts \in Seq(AttemptType) /\ n \in DOMAIN attempts
      /\ Mine(p).node \in {"patch", "check"}
  BY <1>1, Carried
<1>3. CASE Mine(p).stage # "claimed"
  BY <1>1, <1>3, FinishSeals DEF Seal
<1>4. CASE Mine(p).stage = "claimed"
  <2>1. ASSUME NEW x \in AttemptType, NEW b \in Bytes
        PROVE  /\ [x EXCEPT !.stage = "sealed", !.bytes = b] \in AttemptType
               /\ [x EXCEPT !.stage = "sealed", !.bytes = b].node = x.node
               /\ [x EXCEPT !.stage = "sealed", !.bytes = b].bytes = b
               /\ [x EXCEPT !.stage = "sealed", !.bytes = b].by = x.by
    BY <2>1 DEF AttemptType, Stages
  <2>2. /\ e \in AttemptType /\ e.node = Mine(p).node
        /\ e.bytes = proc[p].bytes /\ e.by = Mine(p).by
    BY <1>2, <2>1 DEF ProcType
  <2>3. attempts' = [attempts EXCEPT ![n] = e]
    BY <1>2, <1>4 DEF Seal
  <2> HIDE DEF e
  <2>4. attempts'[n] = e
    BY <1>2, <2>2, <2>3, SetRow
  <2>5. Unsealed(n) /\ e.bytes # Absent
    BY <1>1, <1>2, <2>2, Kinds DEF Carries
  <2>6. Mine(p).node = "check" =>
           /\ proc[p].verifier \in DOMAIN verifiers
           /\ verifiers[proc[p].verifier].attempt = n
    BY <1>1, BusyProcess DEF HasVerifier
  <2>7. /\ Mine(p).node = "patch" => e.bytes = PatchOf(n) /\ file[n] = PatchOf(n)
        /\ Mine(p).node = "check" =>
              /\ e.bytes = ReportOf(proc[p].verifier)
              /\ verifiers[proc[p].verifier].said # "none"
    BY <1>1, <1>2, <2>2 DEF Carries
  <2>8. \A m \in DOMAIN attempts :
           m = n /\ attempts'[m] = e => RowSealed(m)'
    BY <1>1, <1>2, <2>2, <2>5, <2>6, <2>7 DEF RowSealed, Unsealed, Judged
  <2>9. CASE Mine(p).node = "patch"
    <3>1. /\ r \in ProcType /\ r.at = "spawn" /\ r.attempt = n /\ r.resumed
      BY <1>2 DEF ProcType
    <3>2. proc' = [proc EXCEPT ![p] = r]
      BY <1>4, <2>9 DEF Seal
    <3> HIDE DEF r
    <3>3. proc'[p] = r /\ \A q \in Procs \ {p} : proc'[q] = proc[q]
      BY <1>1, <3>2, Carried
    <3>4. Carries(p)'
      BY <2>4, <2>5, <3>1, <3>3 DEF Carries, Unsealed, Mine
    <3> QED
      BY <1>1, <2>2, <2>3, <2>5, <2>8, <3>1, <3>2, <3>4, RowSeals
  <2>10. CASE Mine(p).node # "patch"
    <3>1. /\ a \in ProcType /\ a.at = "admit" /\ a.attempt = n
      BY <1>2 DEF ProcType
    <3>2. proc' = [proc EXCEPT ![p] = a]
      BY <1>4, <2>10 DEF Seal, Move
    <3> HIDE DEF a
    <3>3. proc'[p] = a /\ \A q \in Procs \ {p} : proc'[q] = proc[q]
      BY <1>1, <3>2, Carried
    <3>4. Carries(p)'
      BY <2>4, <2>5, <3>1, <3>3 DEF Carries, Unsealed, Mine
    <3> QED
      BY <1>1, <2>2, <2>3, <2>5, <2>8, <3>1, <3>2, <3>4, RowSeals
  <2> QED
    BY <2>9, <2>10
<1> QED
  BY <1>3, <1>4

LEMMA AdmitSeals ==
    ASSUME VerificationInv, SealInv, NEW p \in Procs, Admit(p)
    PROVE  SealInv'
<1> DEFINE n == proc[p].attempt
           i == proc[p].verifier
           q == IF verifiers[i].said = "accept" THEN "accepted" ELSE "stopped"
           e == [Mine(p) EXCEPT !.stage = q, !.by = i]
<1>1. proc[p].at = "admit" /\ Finish(p) /\ UNCHANGED <<file, verifiers>>
  BY DEF Admit, At
<1>2. /\ Carries(p) /\ RowSealed(n)
      /\ Mine(p) \in AttemptType /\ Mine(p) = attempts[n]
      /\ attempts \in Seq(AttemptType) /\ n \in DOMAIN attempts
      /\ i \in DOMAIN verifiers /\ verifiers[i].attempt = n /\ i \in Nat
  <2>1. DOMAIN verifiers \subseteq Nat
    BY DEF VerificationInv, TypeOK
  <2> QED
    BY <1>1, <2>1, Carried, BusyProcess DEF HasVerifier
<1>3. CASE Mine(p).stage # "sealed"
  BY <1>1, <1>3, FinishSeals DEF Admit
<1>4. CASE Mine(p).stage = "sealed"
  <2>1. /\ e \in AttemptType /\ e.node = Mine(p).node /\ e.bytes = Mine(p).bytes
        /\ e.by = i /\ e.stage = q
    <3>1. q \in Stages
      BY DEF Stages
    <3>2. Mine(p) \in AttemptType /\ i \in Nat
      BY <1>2
    <3> HIDE DEF q, i
    <3>3. /\ [Mine(p) EXCEPT !.stage = q, !.by = i] \in AttemptType
          /\ [Mine(p) EXCEPT !.stage = q, !.by = i].node = Mine(p).node
          /\ [Mine(p) EXCEPT !.stage = q, !.by = i].bytes = Mine(p).bytes
          /\ [Mine(p) EXCEPT !.stage = q, !.by = i].by = i
          /\ [Mine(p) EXCEPT !.stage = q, !.by = i].stage = q
      BY <3>1, <3>2 DEF AttemptType
    <3> QED
      BY <3>3
  <2>2. attempts' = [attempts EXCEPT ![n] = e]
    BY <1>2, <1>4 DEF Admit
  <2> HIDE DEF e
  <2>3. \A m \in DOMAIN attempts :
           m = n /\ attempts'[m] = e => RowSealed(m)'
    <3>1. ~Unsealed(n)
      BY <1>2, <1>4 DEF RowSealed
    <3> QED
      BY <1>1, <1>2, <2>1, <3>1 DEF RowSealed, Unsealed, Judged
  <2>4. Idle \in ProcType /\ Idle.at = "idle" /\ proc' = [proc EXCEPT ![p] = Idle]
    BY <1>1, IdleRow DEF Finish
  <2> QED
    BY <1>1, <2>1, <2>2, <2>3, <2>4, RowSeals
<1> QED
  BY <1>3, <1>4

LEMMA ResumeSeals ==
    ASSUME VerificationInv, SealInv, NEW p \in Procs, Resume(p)
    PROVE  SealInv'
<1>1. PICK n \in DOMAIN attempts :
         /\ attempts[n].stage = "sealed"
         /\ proc' = [proc EXCEPT ![p] = [Idle EXCEPT
               !.at = "spawn", !.attempt = n, !.resumed = TRUE]]
  BY DEF Resume
<1> DEFINE r == [Idle EXCEPT !.at = "spawn", !.attempt = n, !.resumed = TRUE]
<1>2. /\ UNCHANGED <<file, attempts, verifiers>> /\ TypeOK
      /\ proc[p].at = "idle" /\ attempts \in Seq(AttemptType)
      /\ proc \in [Procs -> ProcType]
  BY DEF Resume, At, VerificationInv, TypeOK
<1>3. n \in 0..MaxAttempts
  BY <1>2, WorkAssumption DEF TypeOK
<1>4. r \in ProcType /\ r.at = "spawn" /\ r.attempt = n /\ r.resumed
  BY <1>3, IdleRow DEF ProcType
<1> HIDE DEF r
<1>5. proc' = [proc EXCEPT ![p] = r]
  BY <1>1 DEF r
<1>6. ~Unsealed(n)
  BY <1>1 DEF SealInv, RowSealed
<1>7. proc'[p] = r
  BY <1>2, <1>5
<1>8. Carries(p)'
  BY <1>2, <1>4, <1>6, <1>7 DEF Carries, Unsealed, Mine
<1> QED
  BY <1>2, <1>4, <1>5, <1>6, <1>8, ProcessSeals

LEMMA TimeOutSeals ==
    ASSUME VerificationInv, SealInv, NEW p \in Procs, TimeOut(p)
    PROVE  SealInv'
<1>1. /\ proc[p].at = "wait" /\ Leave(proc[p].verifier, "none")
      /\ verifiers[proc[p].verifier].at # "gone"
      /\ UNCHANGED <<file, attempts, proc>>
  BY DEF TimeOut, At
<1>2. proc[p].verifier \in DOMAIN verifiers
  BY <1>1, BusyProcess DEF HasVerifier
<1>3. "none" \in Answers
  BY DEF Answers
<1> QED
  BY <1>1, <1>2, <1>3, LeaveSeals

(* Nobody has worked on a new attempt.                                     *)
LEMMA ClaimSeals ==
    ASSUME VerificationInv, SealInv, NEW p \in Procs, Claim(p)
    PROVE  SealInv'
<1> PICK n : n = Len(attempts) + 1
  OBVIOUS
<1> DEFINE e == [node |-> IF PatchAccepted THEN "check" ELSE "patch",
                 stage |-> "claimed", frozen |-> NoLook, bytes |-> Absent, by |-> 0]
           r == [Idle EXCEPT !.at = "freeze", !.attempt = n]
<1>1. /\ attempts' = Append(attempts, e) /\ proc' = [proc EXCEPT ![p] = r]
      /\ UNCHANGED <<file, verifiers>>
  BY DEF Claim, Latest
<1>2. /\ attempts \in Seq(AttemptType) /\ proc \in [Procs -> ProcType]
      /\ \A q \in Procs : proc[q].at # "idle" => proc[q].attempt \in DOMAIN attempts
      /\ \A i \in DOMAIN verifiers : verifiers[i].attempt \in DOMAIN attempts
  BY DEF VerificationInv, TypeOK
<1>3. /\ e \in AttemptType /\ e.stage = "claimed" /\ e.bytes = Absent /\ e.by = 0
  BY FileTypes, LookTypes DEF AttemptType, Nodes, Stages
<1>4. r.at = "freeze" /\ r.attempt = n /\ r.resumed = FALSE
  BY DEF Idle
<1> HIDE DEF e, r
<1>5. /\ DOMAIN attempts' = DOMAIN attempts \cup {n} /\ n \notin DOMAIN attempts
      /\ attempts'[n] = e /\ \A m \in DOMAIN attempts : attempts'[m] = attempts[m]
  BY <1>1, <1>2, <1>3, AddRow
<1>6. proc'[p] = r /\ \A q \in Procs \ {p} : proc'[q] = proc[q]
  BY <1>1, <1>2
<1>7. \A m : VerifiedOnce(m)' <=> VerifiedOnce(m)
  BY <1>1 DEF VerifiedOnce
<1>8. \A i \in DOMAIN verifiers : verifiers[i].attempt # n
  BY <1>2, <1>5
<1>9. ASSUME NEW m \in DOMAIN attempts' PROVE RowSealed(m)'
  <2>1. CASE m = n
    <3>1. VerifiedOnce(n)'
      BY <1>1, <1>8 DEF VerifiedOnce
    <3> QED
      BY <1>3, <1>5, <2>1, <3>1 DEF RowSealed, Unsealed, Judged
  <2>2. CASE m \in DOMAIN attempts
    <3>1. RowSealed(m) /\ attempts'[m] = attempts[m]
      BY <1>5, <2>2 DEF SealInv
    <3> QED
      BY <1>1, <1>7, <3>1 DEF RowSealed, Unsealed, Judged
  <2> QED
    BY <1>5, <2>1, <2>2
<1>10. Carries(p)'
  <2>1. \A q \in Procs \ {p} : proc'[q].at # "idle" => proc'[q].attempt # n
    BY <1>2, <1>5, <1>6
  <2>2. Unsealed(n)'
    BY <1>3, <1>5 DEF Unsealed
  <2> QED
    BY <1>1, <1>4, <1>6, <1>8, <2>1, <2>2 DEF Carries, Unsealed
<1>11. ASSUME NEW q \in Procs \ {p}, proc[q].at # "idle" PROVE Carries(q)'
  <2>1. /\ Carries(q) /\ proc'[q] = proc[q] /\ proc[q].attempt \in DOMAIN attempts
        /\ attempts'[proc[q].attempt] = attempts[proc[q].attempt]
        /\ proc[q].attempt # n
    BY <1>2, <1>5, <1>6, <1>11 DEF SealInv
  <2>2. Unsealed(proc[q].attempt) =>
           \A o \in Procs \ {q} : proc[o].at # "idle" => proc[o].attempt # proc[q].attempt
    BY <2>1 DEF Carries
  <2>3. Unsealed(proc[q].attempt) =>
           \A o \in Procs \ {q} : proc'[o].at # "idle" => proc'[o].attempt # proc[q].attempt
    BY <1>4, <1>6, <2>1, <2>2
  <2> QED
    BY <1>1, <2>1, <2>3 DEF Carries, Unsealed, Mine
<1>12. ASSUME NEW i \in DOMAIN verifiers PROVE Reported(i)'
  <2>1. Reported(i) /\ Subject(i)' = Subject(i)
    BY <1>1, <1>2, <1>5 DEF SealInv, Subject
  <2> QED
    BY <1>1, <1>7, <2>1 DEF Reported
<1>13. \A q \in Procs : proc'[q].at # "idle" => Carries(q)'
  BY <1>6, <1>10, <1>11
<1>14. \A i \in DOMAIN verifiers' : Reported(i)'
  BY <1>1, <1>12
<1> QED
  BY <1>9, <1>13, <1>14 DEF SealInv

(* A second verifier works on an attempt only when that is sealed.         *)
LEMMA SpawnSeals ==
    ASSUME VerificationInv, SealInv, NEW p \in Procs, Spawn(p)
    PROVE  SealInv'
<1> PICK n : n = proc[p].attempt
  OBVIOUS
<1> PICK k : k = Len(verifiers) + 1
  OBVIOUS
<1> DEFINE v == [attempt |-> proc[p].attempt,
                 at |-> IF Mine(p).node = "patch" THEN "artifact" ELSE "before",
                 look |-> NoLook, outcomes |-> <<>>, readable |-> FALSE,
                 said |-> "none"]
           r == [proc[p] EXCEPT !.at = "wait", !.verifier = k]
<1>1. /\ proc[p].at = "spawn" /\ Len(verifiers) < MaxVerifiers
      /\ verifiers' = Append(verifiers, v) /\ proc' = [proc EXCEPT ![p] = r]
      /\ UNCHANGED <<file, attempts>>
  BY DEF Spawn, At
<1>2. /\ verifiers \in Seq(VerifierType)
      /\ \A q \in Procs : proc[q].at # "idle" => proc[q].attempt \in DOMAIN attempts
      /\ \A q \in Procs : HasVerifier(q) => proc[q].verifier \in DOMAIN verifiers
      /\ DOMAIN verifiers \subseteq Nat
  BY DEF VerificationInv, TypeOK, Ownership
<1>3. /\ Carries(p) /\ RowSealed(n) /\ proc[p] \in ProcType
      /\ n \in DOMAIN attempts /\ n \in 1..MaxAttempts
      /\ Mine(p).node \in {"patch", "check"} /\ Mine(p) = attempts[n]
  BY <1>1, Carried
<1>4. /\ v \in VerifierType /\ v.attempt = n /\ v.said = "none"
      /\ v.at \in {"artifact", "before"}
      /\ v.at = "before" => attempts[n].node = "check"
  <2>1. <<>> \in Seq({"passed", "failed"})
    OBVIOUS
  <2> QED
    BY <1>3, <2>1, LookTypes DEF VerifierType, Answers
<1>5. r.at = "wait" /\ r.attempt = n /\ r.resumed = proc[p].resumed
  BY <1>3 DEF ProcType
<1> HIDE DEF v, r
<1>6. /\ DOMAIN verifiers' = DOMAIN verifiers \cup {k} /\ k \notin DOMAIN verifiers
      /\ verifiers'[k] = v /\ \A i \in DOMAIN verifiers : verifiers'[i] = verifiers[i]
  BY <1>1, <1>2, <1>4, AddRow
<1>7. proc'[p] = r /\ \A q \in Procs \ {p} : proc'[q] = proc[q]
  BY <1>1, Carried
<1>8. \A m : VerifiedOnce(m)' => VerifiedOnce(m)
  BY <1>6 DEF VerifiedOnce
<1>9. \A m : m # n => (VerifiedOnce(m) => VerifiedOnce(m)')
  BY <1>4, <1>6 DEF VerifiedOnce
<1>10. Unsealed(n) => VerifiedOnce(n)'
  <2>1. Unsealed(n) => \A i \in DOMAIN verifiers : verifiers[i].attempt # n
    BY <1>1, <1>3 DEF Carries
  <2>2. Unsealed(n) => \A i \in DOMAIN verifiers' : verifiers'[i].attempt = n => i = k
    BY <1>4, <1>6, <2>1
  <2> QED
    BY <2>2 DEF VerifiedOnce
<1>11. ASSUME NEW m \in DOMAIN attempts PROVE RowSealed(m)'
  BY <1>1, <1>6, <1>9, <1>10 DEF SealInv, RowSealed, Unsealed, Judged
<1>12. Carries(p)'
  <2>1. Unsealed(n) => \A q \in Procs \ {p} : proc'[q].at # "idle" => proc'[q].attempt # n
    BY <1>3, <1>7 DEF Carries
  <2> QED
    BY <1>1, <1>3, <1>5, <1>7, <2>1 DEF Carries, Unsealed, Mine
<1>13. ASSUME NEW q \in Procs \ {p}, proc[q].at # "idle" PROVE Carries(q)'
  <2> DEFINE m == proc[q].attempt
  <2>1. Carries(q) /\ proc'[q] = proc[q]
    BY <1>7, <1>13 DEF SealInv
  <2>2. Unsealed(m) => m # n
    BY <1>1, <2>1 DEF Carries
  <2>3. Unsealed(m) => \A o \in Procs \ {q} : proc'[o].at # "idle" => proc'[o].attempt # m
    <3>1. Unsealed(m) => \A o \in Procs \ {q} : proc[o].at # "idle" => proc[o].attempt # m
      BY <2>1 DEF Carries
    <3> QED
      BY <1>5, <1>7, <2>2, <3>1
  <2>4. /\ proc[q].at \in {"freeze", "spawn"} /\ Unsealed(m) =>
             \A i \in DOMAIN verifiers' : verifiers'[i].attempt # m
    BY <1>4, <1>6, <2>1, <2>2 DEF Carries
  <2>5. HasVerifier(q) => verifiers'[proc[q].verifier] = verifiers[proc[q].verifier]
    BY <1>2, <1>6
  <2> QED
    BY <1>1, <2>1, <2>3, <2>4, <2>5 DEF Carries, Unsealed, Mine, HasVerifier
<1>14. ASSUME NEW i \in DOMAIN verifiers PROVE Reported(i)'
  <2>1. Reported(i) /\ verifiers'[i] = verifiers[i] /\ Subject(i)' = Subject(i)
    BY <1>1, <1>6 DEF SealInv, Subject
  <2> QED
    BY <1>1, <1>8, <2>1 DEF Reported
<1>15. ASSUME NEW i, i = k PROVE Reported(i)'
  <2>1. verifiers'[i] = v /\ Subject(i)' = attempts[n]
    BY <1>1, <1>4, <1>6, <1>15 DEF Subject
  <2> QED
    BY <1>4, <2>1 DEF Reported
<1>16. \A q \in Procs : proc'[q].at # "idle" => Carries(q)'
  BY <1>7, <1>12, <1>13
<1>17. \A i \in DOMAIN verifiers' : Reported(i)'
  BY <1>6, <1>14, <1>15
<1> QED
  BY <1>1, <1>11, <1>16, <1>17 DEF SealInv

LEMMA ReclaimSeals ==
    ASSUME VerificationInv, SealInv, Reclaim
    PROVE  SealInv'
<1>1. PICK n \in DOMAIN attempts :
         attempts[n].stage = "claimed" /\ SetStage(n, "stopped")
  BY DEF Reclaim
<1> DEFINE e == [attempts[n] EXCEPT !.stage = "stopped"]
<1>2. /\ UNCHANGED <<verifiers, proc, file>> /\ TypeOK
      /\ attempts \in Seq(AttemptType) /\ attempts[n] \in AttemptType
  BY DEF Reclaim, VerificationInv, TypeOK
<1>3. /\ e \in AttemptType /\ e.stage = "stopped" /\ e.node = attempts[n].node
      /\ e.bytes = attempts[n].bytes /\ e.by = attempts[n].by
  BY <1>2 DEF AttemptType, Stages
<1>4. attempts' = [attempts EXCEPT ![n] = e]
  BY <1>1 DEF SetStage
<1> HIDE DEF e
<1>5. /\ DOMAIN attempts' = DOMAIN attempts /\ attempts'[n] = e
      /\ \A m \in DOMAIN attempts : m # n => attempts'[m] = attempts[m]
  BY <1>2, <1>3, <1>4, SetRow
<1>6. \A m \in DOMAIN attempts :
         /\ attempts'[m].node = attempts[m].node
         /\ attempts'[m].bytes = attempts[m].bytes
         /\ attempts'[m].by = attempts[m].by
         /\ attempts'[m].stage = "sealed" => attempts[m].stage = "sealed"
  BY <1>3, <1>5
<1> QED
  BY <1>2, <1>5, <1>6, StagesSeal

LEMMA SealStep ==
    ASSUME VerificationInv, SealInv, [Next]_vars
    PROVE  SealInv'
<1>1. CASE Edit \/ Commit \/ UNCHANGED vars
  <2>1. UNCHANGED <<file, attempts, verifiers, proc>>
    BY <1>1 DEF Edit, Commit, vars
  <2> QED
    BY <2>1, StagesSeal DEF VerificationInv
<1>2. ASSUME NEW i \in DOMAIN verifiers, Verify(i) PROVE SealInv'
  BY <1>2, VerifySeals
<1>3. ASSUME NEW p \in Procs, Work(p) PROVE SealInv'
  BY <1>3, ClaimSeals, FreezeSeals, WriteArtifactSeals, FillArtifactSeals,
     SealSeals, ResumeSeals, SpawnSeals, TimeOutSeals, ReturnSeals,
     ReadReportSeals, AdmitSeals DEF Work
<1>4. ASSUME NEW p \in Procs, Die(p) PROVE SealInv'
  BY <1>4, FinishSeals DEF Die, At
<1>5. CASE Reclaim
  BY <1>5, ReclaimSeals
<1> QED
  BY <1>1, <1>2, <1>3, <1>4, <1>5 DEF Next

LEMMA SealedRow ==
    ASSUME VerificationInv, SealInv, NEW n \in DOMAIN attempts
    PROVE  RowSealed(n) /\ attempts[n].node \in {"patch", "check"}
<1>1. attempts \in Seq(AttemptType)
  BY DEF VerificationInv, TypeOK
<1>2. attempts[n] \in AttemptType
  BY <1>1
<1> QED
  BY <1>2 DEF SealInv, AttemptType, Nodes

(* What a sealed attempt names by digest stays on disk, whatever verifiers *)
(* that outlived their process still write, however many processes die     *)
(* between the writes, the seal and the verdict - except for a report that *)
(* a second verifier replaces.                                             *)
THEOREM ArtifactsStay == Spec => []ArtifactAsSealed
<1>1. ASSUME VerificationInv, SealInv PROVE ArtifactAsSealed
  <2> SUFFICES ASSUME NEW n \in DOMAIN attempts, ~Unsealed(n),
                      attempts[n].node = "patch" \/ VerifiedOnce(n)
               PROVE  file[n] = attempts[n].bytes
    BY DEF ArtifactAsSealed, ArtifactPath, Unsealed
  <2>1. RowSealed(n) /\ attempts[n].node \in {"patch", "check"}
    BY <1>1, SealedRow
  <2>2. CASE attempts[n].node = "patch"
    BY <2>1, <2>2 DEF RowSealed
  <2>3. CASE attempts[n].node = "check"
    <3>1. PICK i \in DOMAIN verifiers :
             /\ attempts[n].bytes = ReportOf(i)
             /\ verifiers[i].attempt = n /\ verifiers[i].said # "none"
      BY <2>1, <2>3 DEF RowSealed
    <3>2. Reported(i) /\ VerifiedOnce(n) /\ Subject(i).node = "check"
      BY <1>1, <2>3, <3>1 DEF SealInv, Subject
    <3> QED
      BY <3>1, <3>2 DEF Reported
  <2> QED
    BY <2>1, <2>2, <2>3
<1>2. Init => VerificationInv /\ SealInv
  BY VerificationInit, SealInit
<1>3. VerificationInv /\ SealInv /\ [Next]_vars => (VerificationInv /\ SealInv)'
  BY VerificationStep, SealStep
<1> QED
  BY <1>1, <1>2, <1>3, PTL DEF Spec

(* What is sealed is whole and the attempt's own, never what another or a  *)
(* killed verifier left in the file, and the verdict on a check that was   *)
(* verified once is the conclusion of the sealed report.                   *)
THEOREM VerdictsReported == Spec => []VerdictIsReported
<1>1. ASSUME VerificationInv, SealInv PROVE VerdictIsReported
  <2> SUFFICES ASSUME NEW n \in DOMAIN attempts
               PROVE  /\ attempts[n].bytes # Absent =>
                            IF attempts[n].node = "patch"
                            THEN attempts[n].bytes = PatchOf(n)
                            ELSE /\ attempts[n].bytes.kind = "report"
                                 /\ verifiers[attempts[n].bytes.of].attempt = n
                      /\ Judged(n) /\ attempts[n].node = "check" /\ VerifiedOnce(n) =>
                            attempts[n].bytes = ReportOf(attempts[n].by)
    BY DEF VerdictIsReported
  <2>1. RowSealed(n) /\ attempts[n].node \in {"patch", "check"}
    BY <1>1, SealedRow
  <2>2. CASE attempts[n].node = "patch"
    BY <2>1, <2>2 DEF RowSealed, Unsealed
  <2>3. CASE attempts[n].node = "check" /\ Unsealed(n)
    BY <2>1, <2>3 DEF RowSealed, Unsealed
  <2>4. CASE attempts[n].node = "check" /\ ~Unsealed(n)
    <3>1. PICK i \in DOMAIN verifiers :
             attempts[n].bytes = ReportOf(i) /\ verifiers[i].attempt = n
      BY <2>1, <2>4 DEF RowSealed
    <3>2. attempts[n].bytes.kind = "report" /\ attempts[n].bytes.of = i
      BY <3>1, Kinds
    <3>3. Judged(n) /\ VerifiedOnce(n) => attempts[n].by = i
      BY <2>1, <3>1 DEF RowSealed, VerifiedOnce
    <3> QED
      BY <2>4, <3>1, <3>2, <3>3
  <2> QED
    BY <2>1, <2>2, <2>3, <2>4
<1>2. Init => VerificationInv /\ SealInv
  BY VerificationInit, SealInit
<1>3. VerificationInv /\ SealInv /\ [Next]_vars => (VerificationInv /\ SealInv)'
  BY VerificationStep, SealStep
<1> QED
  BY <1>1, <1>2, <1>3, PTL DEF Spec
=============================================================================
