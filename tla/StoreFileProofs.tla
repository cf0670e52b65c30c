--------------------------- MODULE StoreFileProofs ---------------------------
(***************************************************************************)
(* The version of a store file matches its tables, and a run is only acted *)
(* on by the document it was created from, for any number of processes,    *)
(* builds, revisions and runs.                                             *)
(***************************************************************************)
EXTENDS StoreFile, TLAPS

(* The version a process read is never ahead of the file.  One that is to  *)
(* migrate read a smaller version than its own and left the file in WAL    *)
(* mode, and what it is about to create in its transaction is not there.   *)
Opening ==
    \A p \in Procs : proc[p] # Nobody =>
        /\ proc[p].found <= version
        /\ proc[p].at \in {"journal", "migrate", "commit"} =>
              proc[p].found < proc[p].build
        /\ proc[p].at \in {"migrate", "commit"} => journal = "wal"
        /\ proc[p].at = "commit" => Existing(p) = {}

SchemaInv == TypeOK /\ VersionMatchesTables /\ Opening

(* The document of a process that is past store_graph is the stored one,   *)
(* and one that acts on a run has the run's revision.                      *)
Bound ==
    \A p \in Procs : proc[p] # Nobody =>
        /\ proc[p].at \in {"create", "open", "act"} => Stored(p) = Offered(p)
        /\ proc[p].at = "act" => runs[proc[p].run] = proc[p].doc.ref

GraphInv == TypeOK /\ OneGraphPerRun /\ Bound

-----------------------------------------------------------------------------
(* Process p goes to row r and nobody else moves.                          *)
LEMMA Moved ==
    ASSUME TypeOK, NEW p \in Procs, NEW r \in Process \cup {Nobody},
           proc' = [proc EXCEPT ![p] = r]
    PROVE  /\ proc' \in [Procs -> Process \cup {Nobody}]
           /\ proc'[p] = r
           /\ \A q \in Procs : q # p => proc'[q] = proc[q]
BY DEF TypeOK

LEMMA AProcess ==
    ASSUME TypeOK, NEW p \in Procs, NEW s, At(p, s)
    PROVE  /\ proc[p] \in Process /\ proc[p] # Nobody /\ proc[p].at = s
           /\ proc[p].found \in Nat /\ proc[p].build \in Builds
           /\ proc[p].build \in Nat /\ proc[p].build > 0
           /\ proc[p].doc \in Documents /\ proc[p].run \in Runs
           /\ proc[p].doc.ref \in Refs /\ proc[p].doc.content \in Contents
<1>1. proc[p] \in Process /\ proc[p] # Nobody /\ proc[p].at = s
  BY DEF TypeOK, At
<1>2. /\ proc[p].found \in Nat /\ proc[p].build \in Builds
      /\ proc[p].doc \in Documents /\ proc[p].run \in Runs
  BY <1>1 DEF Process
<1>3. /\ proc[p].doc.ref \in Refs /\ proc[p].doc.content \in Contents
  BY <1>2 DEF Documents
<1>4. proc[p].build \in Nat /\ proc[p].build > 0
  <2>1. proc[p].build \in Nat \ {0}
    BY <1>2, StoreAssumption
  <2> QED
    BY <2>1
<1> QED
  BY <1>1, <1>2, <1>3, <1>4

(* The row of a process that goes on.                                      *)
LEMMA Gone ==
    ASSUME TypeOK, NEW p \in Procs, NEW s \in Places, Goto(p, s),
           proc[p] # Nobody
    PROVE  /\ proc' \in [Procs -> Process \cup {Nobody}]
           /\ proc'[p] \in Process /\ proc'[p] # Nobody
           /\ proc'[p].at = s
           /\ proc'[p].found = proc[p].found /\ proc'[p].build = proc[p].build
           /\ proc'[p].doc = proc[p].doc /\ proc'[p].run = proc[p].run
           /\ \A q \in Procs : q # p => proc'[q] = proc[q]
<1> DEFINE r == [proc[p] EXCEPT !.at = s]
<1>1. proc[p] \in Process
  BY DEF TypeOK
<1>2. /\ r \in Process /\ r.at = s /\ r.found = proc[p].found
      /\ r.build = proc[p].build /\ r.doc = proc[p].doc /\ r.run = proc[p].run
  BY <1>1 DEF Process
<1>3. proc' = [proc EXCEPT ![p] = r]
  BY DEF Goto
<1> HIDE DEF r
<1>4. /\ proc' \in [Procs -> Process \cup {Nobody}] /\ proc'[p] = r
      /\ \A q \in Procs : q # p => proc'[q] = proc[q]
  BY <1>2, <1>3, Moved
<1>5. r # Nobody
  BY <1>2, StoreAssumption
<1> QED
  BY <1>2, <1>4, <1>5
(* The write lock stays with its holder when another process moves.        *)
LEMMA LockKept ==
    ASSUME TypeOK, NEW p \in Procs, NEW r \in Process \cup {Nobody},
           proc' = [proc EXCEPT ![p] = r], UNCHANGED writer,
           proc[p] # Nobody => proc[p].at # "commit",
           r # Nobody => r.at # "commit"
    PROVE  /\ proc' \in [Procs -> Process \cup {Nobody}]
           /\ \A q \in Procs : writer' = q <=> At(q, "commit")'
<1>1. /\ proc' \in [Procs -> Process \cup {Nobody}] /\ proc'[p] = r
      /\ \A q \in Procs : q # p => proc'[q] = proc[q]
  BY Moved
<1>2. writer # p
  BY DEF TypeOK, At
<1>3. \A q \in Procs : writer' = q <=> At(q, "commit")'
  BY <1>1, <1>2 DEF TypeOK, At
<1> QED
  BY <1>1, <1>3

LEMMA LockKeptGoto ==
    ASSUME TypeOK, NEW p \in Procs, proc[p] # Nobody, NEW s \in Places, Goto(p, s),
           UNCHANGED writer, proc[p].at # "commit", s # "commit"
    PROVE  /\ proc' \in [Procs -> Process \cup {Nobody}]
           /\ \A q \in Procs : writer' = q <=> At(q, "commit")'
<1>1. /\ proc' \in [Procs -> Process \cup {Nobody}] /\ proc'[p].at = s
      /\ \A q \in Procs : q # p => proc'[q] = proc[q]
  BY Gone
<1>2. writer # p
  BY DEF TypeOK, At
<1>3. \A q \in Procs : writer' = q <=> At(q, "commit")'
  BY <1>1, <1>2 DEF TypeOK, At
<1> QED
  BY <1>1, <1>3

LEMMA LockKeptExit ==
    ASSUME TypeOK, NEW p \in Procs, Exit(p), UNCHANGED writer,
           proc[p] # Nobody => proc[p].at # "commit"
    PROVE  /\ proc' \in [Procs -> Process \cup {Nobody}]
           /\ \A q \in Procs : writer' = q <=> At(q, "commit")'
BY LockKept DEF Exit

-----------------------------------------------------------------------------
LEMMA TypeInit == Init => TypeOK
<1> SUFFICES ASSUME Init PROVE TypeOK
  OBVIOUS
<1>1. /\ version \in Nat /\ tables \subseteq Nat /\ journal \in {"delete", "wal"}
  <2>1. version \in Nat
    BY StoreAssumption DEF Init
  <2> QED
    BY <2>1 DEF Init
<1>2. /\ graphs \in [Refs -> Contents \cup {NoRow}]
      /\ runs \in [Runs -> Refs \cup {NoRow}] /\ document \in Documents
      /\ acts \subseteq Runs \X Documents
      /\ proc \in [Procs -> Process \cup {Nobody}]
      /\ writer \in Procs \cup {Nobody}
  BY DEF Init
<1>3. stops \in 0..MaxStops
  BY StoreAssumption DEF Init
<1>4. \A p \in Procs : writer = p <=> At(p, "commit")
  BY StoreAssumption DEF Init, At
<1> QED
  BY <1>1, <1>2, <1>3, <1>4 DEF TypeOK

LEMMA TypeStep ==
    ASSUME TypeOK, [Next]_vars
    PROVE  TypeOK'
<1>1. CASE Save
  BY <1>1 DEF Save, TypeOK, At, schema, rows
<1>2. ASSUME NEW p \in Procs, Start(p) PROVE TypeOK'
  <2>1. PICK b \in Builds, c \in Commands, r \in Runs :
           proc' = [proc EXCEPT ![p] =
               [at |-> "read", build |-> b, found |-> 0, command |-> c,
                doc |-> document, run |-> r]]
    BY <1>2 DEF Start
  <2> DEFINE row == [at |-> "read", build |-> b, found |-> 0, command |-> c,
                     doc |-> document, run |-> r]
  <2>2. row \in Process /\ row.at = "read" /\ proc[p] = Nobody
    BY <1>2 DEF Process, Places, TypeOK, Start
  <2> HIDE DEF row
  <2>3. proc' = [proc EXCEPT ![p] = row]
    BY <2>1 DEF row
  <2>4. UNCHANGED <<schema, writer, rows, document, stops>>
    BY <1>2 DEF Start
  <2>5. /\ proc' \in [Procs -> Process \cup {Nobody}]
        /\ \A q \in Procs : writer' = q <=> At(q, "commit")'
    BY <2>2, <2>3, <2>4, LockKept
  <2> QED
    BY <2>4, <2>5 DEF TypeOK, schema, rows
<1>3. ASSUME NEW p \in Procs, ReadVersion(p) PROVE TypeOK'
  <2>1. UNCHANGED <<schema, writer, rows, document, stops>> /\ At(p, "read")
    BY <1>3 DEF ReadVersion
  <2>2. proc[p] \in Process /\ proc[p].at = "read" /\ version \in Nat
    BY <2>1, AProcess DEF TypeOK
  <2>3. /\ proc' \in [Procs -> Process \cup {Nobody}]
        /\ \A q \in Procs : writer' = q <=> At(q, "commit")'
    <3>1. CASE version > proc[p].build
      BY <1>3, <2>1, <2>2, <3>1, LockKeptExit DEF ReadVersion
    <3>2. CASE ~(version > proc[p].build)
      <4> DEFINE s == IF version = 0 THEN "journal"
                      ELSE IF version < proc[p].build THEN "migrate" ELSE "store"
                 row == [proc[p] EXCEPT !.found = version, !.at = s]
      <4>1. row \in Process /\ row.at = s /\ s # "commit"
        BY <2>2 DEF Process, Places
      <4>2. proc' = [proc EXCEPT ![p] = row]
        BY <1>3, <3>2 DEF ReadVersion
      <4> HIDE DEF row, s
      <4> QED
        BY <2>1, <2>2, <4>1, <4>2, LockKept
    <3> QED
      BY <3>1, <3>2
  <2> QED
    BY <2>1, <2>3 DEF TypeOK, schema, rows
<1>4. ASSUME NEW p \in Procs, SetJournal(p) PROVE TypeOK'
  <2>1. /\ Goto(p, "migrate") /\ journal' = "wal" /\ At(p, "journal")
        /\ UNCHANGED <<version, tables, writer, rows, document, stops>>
    BY <1>4 DEF SetJournal
  <2>2. /\ proc' \in [Procs -> Process \cup {Nobody}]
        /\ \A q \in Procs : writer' = q <=> At(q, "commit")'
    BY <2>1, LockKeptGoto DEF At, Places
  <2> QED
    BY <2>1, <2>2 DEF TypeOK, rows
<1>5. ASSUME NEW p \in Procs, Migrate(p) PROVE TypeOK'
  <2>1. /\ At(p, "migrate") /\ writer = Nobody
        /\ UNCHANGED <<schema, rows, document, stops>>
    BY <1>5 DEF Migrate
  <2>2. CASE Existing(p) = {}
    <3>1. Goto(p, "commit") /\ writer' = p
      BY <1>5, <2>2 DEF Migrate
    <3>2. /\ proc' \in [Procs -> Process \cup {Nobody}] /\ At(p, "commit")'
          /\ \A q \in Procs : q # p => proc'[q] = proc[q]
      BY <2>1, <3>1, Gone DEF At, Places
    <3>3. \A q \in Procs : q # p => ~At(q, "commit")
      BY <2>1, StoreAssumption DEF TypeOK
    <3>4. \A q \in Procs : writer' = q <=> At(q, "commit")'
      BY <3>1, <3>2, <3>3 DEF At
    <3> QED
      BY <2>1, <3>1, <3>2, <3>4 DEF TypeOK, schema, rows
  <2>3. CASE Existing(p) # {}
    <3>1. Exit(p) /\ UNCHANGED writer
      BY <1>5, <2>3 DEF Migrate
    <3>2. /\ proc' \in [Procs -> Process \cup {Nobody}]
          /\ \A q \in Procs : writer' = q <=> At(q, "commit")'
      BY <2>1, <3>1, LockKeptExit DEF At
    <3> QED
      BY <2>1, <3>1, <3>2 DEF TypeOK, schema, rows
  <2> QED
    BY <2>2, <2>3
<1>6. ASSUME NEW p \in Procs, Commit(p) PROVE TypeOK'
  <2>1. /\ At(p, "commit") /\ writer' = Nobody /\ version' = proc[p].build
        /\ tables' = tables \cup (proc[p].found + 1)..proc[p].build
        /\ Goto(p, "store") /\ UNCHANGED <<journal, rows, document, stops>>
    BY <1>6 DEF Commit
  <2>2. proc[p].build \in Nat /\ proc[p].found \in Nat /\ proc[p] # Nobody
    BY <2>1, AProcess
  <2>3. version' \in Nat /\ tables' \subseteq Nat
    <3>1. \A k \in (proc[p].found + 1)..proc[p].build : k \in Nat
      BY <2>2
    <3>2. version' \in Nat
      BY <2>1, <2>2
    <3> QED
      BY <2>1, <3>1, <3>2 DEF TypeOK
  <2>4. /\ proc' \in [Procs -> Process \cup {Nobody}] /\ ~At(p, "commit")'
        /\ \A q \in Procs : q # p => proc'[q] = proc[q]
    BY <2>1, <2>2, Gone DEF At, Places
  <2>5. \A q \in Procs : writer' = q <=> At(q, "commit")'
    <3>1. \A q \in Procs : q # p => ~At(q, "commit")
      BY <2>1 DEF TypeOK
    <3> QED
      BY <2>1, <2>4, <3>1, StoreAssumption DEF At
  <2> QED
    BY <2>1, <2>3, <2>4, <2>5 DEF TypeOK, rows
<1>7. ASSUME NEW p \in Procs, StoreGraph(p) PROVE TypeOK'
  <2>1. /\ At(p, "store") /\ UNCHANGED <<schema, writer, runs, acts, document, stops>>
    BY <1>7 DEF StoreGraph
  <2>2. /\ proc[p] # Nobody /\ proc[p].at = "store" /\ Offered(p) \in Contents
        /\ proc[p].doc.ref \in Refs
    BY <2>1, AProcess DEF Offered
  <2>3. /\ proc' \in [Procs -> Process \cup {Nobody}]
        /\ \A q \in Procs : writer' = q <=> At(q, "commit")'
    <3>1. CASE Agrees(p)
      <4>1. \E s \in {"create", "open"} : Goto(p, s)
        BY <1>7, <3>1 DEF StoreGraph
      <4> QED
        BY <2>1, <2>2, <4>1, LockKeptGoto DEF Places
    <3>2. CASE ~Agrees(p)
      BY <1>7, <2>1, <2>2, <3>2, LockKeptExit DEF StoreGraph
    <3> QED
      BY <3>1, <3>2
  <2>4. graphs' \in [Refs -> Contents \cup {NoRow}]
    BY <1>7, <2>2 DEF StoreGraph, TypeOK
  <2> QED
    BY <2>1, <2>3, <2>4 DEF TypeOK, schema
<1>8. ASSUME NEW p \in Procs, CreateRun(p) PROVE TypeOK'
  <2>1. /\ At(p, "create") /\ Exit(p)
        /\ UNCHANGED <<schema, writer, graphs, acts, document, stops>>
    BY <1>8 DEF CreateRun
  <2>2. proc[p].doc.ref \in Refs
    BY <2>1, AProcess
  <2>3. /\ proc' \in [Procs -> Process \cup {Nobody}]
        /\ \A q \in Procs : writer' = q <=> At(q, "commit")'
    BY <2>1, LockKeptExit DEF At
  <2>4. runs' \in [Runs -> Refs \cup {NoRow}]
    BY <1>8, <2>2 DEF CreateRun, TypeOK
  <2> QED
    BY <2>1, <2>3, <2>4 DEF TypeOK, schema
<1>9. ASSUME NEW p \in Procs, OpenRun(p) PROVE TypeOK'
  <2>1. /\ At(p, "open") /\ UNCHANGED <<schema, writer, rows, document, stops>>
        /\ Goto(p, "act") \/ Exit(p)
    BY <1>9 DEF OpenRun
  <2>2. /\ proc' \in [Procs -> Process \cup {Nobody}]
        /\ \A q \in Procs : writer' = q <=> At(q, "commit")'
    BY <2>1, LockKeptGoto, LockKeptExit DEF At, Places
  <2> QED
    BY <2>1, <2>2 DEF TypeOK, schema, rows
<1>10. ASSUME NEW p \in Procs, Act(p) PROVE TypeOK'
  <2>1. <<proc[p].run, proc[p].doc>> \in Runs \X Documents
    BY <1>10, AProcess DEF Act
  <2> QED
    BY <1>10, <2>1 DEF Act, TypeOK, At, schema
<1>11. ASSUME NEW p \in Procs, Finish(p) PROVE TypeOK'
  <2>1. /\ At(p, "act") /\ Exit(p) /\ UNCHANGED <<schema, writer, rows, document, stops>>
    BY <1>11 DEF Finish
  <2>2. /\ proc' \in [Procs -> Process \cup {Nobody}]
        /\ \A q \in Procs : writer' = q <=> At(q, "commit")'
    BY <2>1, LockKeptExit DEF At
  <2> QED
    BY <2>1, <2>2 DEF TypeOK, schema, rows
<1>12. ASSUME NEW p \in Procs, Stop(p) PROVE TypeOK'
  <2>1. /\ Exit(p) /\ UNCHANGED <<schema, rows, document>> /\ stops < MaxStops
        /\ stops' = stops + 1 /\ writer' = IF writer = p THEN Nobody ELSE writer
    BY <1>12 DEF Stop, LockReleased
  <2>2. stops' \in 0..MaxStops
    BY <2>1, StoreAssumption DEF TypeOK
  <2>3. /\ proc' \in [Procs -> Process \cup {Nobody}] /\ proc'[p] = Nobody
        /\ \A q \in Procs : q # p => proc'[q] = proc[q]
    BY <2>1, Moved DEF Exit
  <2>4. \A q \in Procs : writer' = q <=> At(q, "commit")'
    BY <2>1, <2>3, StoreAssumption DEF TypeOK, At
  <2>5. writer' \in Procs \cup {Nobody}
    BY <2>1 DEF TypeOK
  <2> QED
    BY <2>1, <2>2, <2>3, <2>4, <2>5 DEF TypeOK, schema, rows
<1>13. CASE UNCHANGED vars
  BY <1>13 DEF vars, TypeOK, At, schema, rows
<1> QED
  BY <1>1, <1>2, <1>3, <1>4, <1>5, <1>6, <1>7, <1>8, <1>9, <1>10, <1>11,
     <1>12, <1>13 DEF Next, Command
-----------------------------------------------------------------------------
(* Whatever p does to its row, when the schema stays and p moves to row r. *)
LEMMA OpeningKept ==
    ASSUME TypeOK, Opening, NEW p \in Procs, UNCHANGED schema,
           \A q \in Procs : q # p => proc'[q] = proc[q],
           proc'[p] # Nobody =>
               /\ proc'[p].found <= version
               /\ proc'[p].at \in {"journal", "migrate", "commit"} =>
                     proc'[p].found < proc'[p].build
               /\ proc'[p].at \in {"migrate", "commit"} => journal = "wal"
               /\ proc'[p].at = "commit" => Existing(p)' = {}
    PROVE  Opening'
<1> SUFFICES ASSUME NEW q \in Procs, proc'[q] # Nobody, q # p
             PROVE  /\ proc'[q].found <= version'
                    /\ proc'[q].at \in {"journal", "migrate", "commit"} =>
                          proc'[q].found < proc'[q].build
                    /\ proc'[q].at \in {"migrate", "commit"} => journal' = "wal"
                    /\ proc'[q].at = "commit" => Existing(q)' = {}
  BY DEF Opening, schema
<1>1. proc'[q] = proc[q]
  OBVIOUS
<1>2. Existing(q)' = Existing(q)
  BY <1>1 DEF Existing, schema
<1> QED
  BY <1>1, <1>2 DEF Opening, schema

(* What is created is exactly what the file lacks: nobody else can have    *)
(* migrated it since, for then a table would exist already.                *)
LEMMA CommitSchema ==
    ASSUME SchemaInv, NEW p \in Procs, Commit(p)
    PROVE  /\ proc[p].found = version
           /\ proc[p].found < proc[p].build
           /\ VersionMatchesTables' /\ version' >= version
<1>1. /\ TypeOK /\ At(p, "commit") /\ tables = 1..version /\ journal = "wal"
      /\ version \in Nat
  BY DEF SchemaInv, Commit, VersionMatchesTables, Opening, At, TypeOK
<1>2. /\ proc[p].found \in Nat /\ proc[p].build \in Nat /\ proc[p].found <= version
      /\ proc[p].found < proc[p].build /\ Existing(p) = {}
  BY <1>1, AProcess DEF SchemaInv, Opening
<1>3. proc[p].found = version
  <2> SUFFICES ASSUME proc[p].found < version PROVE FALSE
    BY <1>1, <1>2
  <2>1. proc[p].found + 1 \in tables
    BY <1>1, <1>2
  <2>2. proc[p].found + 1 \in Existing(p)
    BY <1>2, <2>1 DEF Existing
  <2> QED
    BY <1>2, <2>2
<1>4. tables' = 1..proc[p].build
  <2>1. tables' = (1..version) \cup (version + 1)..proc[p].build
    BY <1>1, <1>3 DEF Commit
  <2>2. (1..version) \cup (version + 1)..proc[p].build = 1..proc[p].build
    BY <1>1, <1>2, <1>3
  <2> QED
    BY <2>1, <2>2
<1>5. version' = proc[p].build /\ journal' = "wal"
  BY <1>1 DEF Commit
<1> QED
  BY <1>1, <1>2, <1>3, <1>4, <1>5 DEF VersionMatchesTables

LEMMA SchemaInit == Init => SchemaInv
<1>1. Init => VersionMatchesTables
  BY DEF Init, VersionMatchesTables
<1>2. Init => Opening
  BY DEF Init, Opening
<1> QED
  BY TypeInit, <1>1, <1>2 DEF SchemaInv

LEMMA SchemaStep ==
    ASSUME SchemaInv, [Next]_vars
    PROVE  SchemaInv'
<1>1. TypeOK /\ VersionMatchesTables /\ Opening /\ TypeOK'
  BY TypeStep DEF SchemaInv
<1>2. version \in Nat
  BY <1>1 DEF TypeOK
<1>3. UNCHANGED schema => VersionMatchesTables'
  BY <1>1 DEF schema, VersionMatchesTables
<1>4. ASSUME NEW p \in Procs, Exit(p), UNCHANGED schema
      PROVE  VersionMatchesTables' /\ Opening'
  <2>1. proc'[p] = Nobody /\ \A q \in Procs : q # p => proc'[q] = proc[q]
    BY <1>1, <1>4, Moved DEF Exit
  <2> QED
    BY <1>1, <1>3, <1>4, <2>1, OpeningKept
<1>5. ASSUME NEW p \in Procs, NEW s \in {"create", "open", "act"}, Goto(p, s),
             proc[p] # Nobody, UNCHANGED schema
      PROVE  VersionMatchesTables' /\ Opening'
  <2>1. /\ proc'[p].at = s /\ proc'[p].found = proc[p].found
        /\ \A q \in Procs : q # p => proc'[q] = proc[q]
    BY <1>1, <1>5, Gone DEF Places
  <2>2. proc'[p].found <= version
    BY <1>1, <1>5, <2>1 DEF Opening
  <2> QED
    BY <1>1, <1>3, <1>5, <2>1, <2>2, OpeningKept
<1>6. ASSUME UNCHANGED schema, UNCHANGED proc PROVE VersionMatchesTables' /\ Opening'
  <2>1. \A q \in Procs : Existing(q)' = Existing(q)
    BY <1>6 DEF Existing, schema
  <2>2. Opening'
    BY <1>1, <1>6, <2>1 DEF Opening, schema
  <2> QED
    BY <1>3, <1>6, <2>2
<1>7. CASE Save
  BY <1>1, <1>7, <1>6 DEF Save, SchemaInv
<1>8. ASSUME NEW p \in Procs, Start(p) PROVE VersionMatchesTables' /\ Opening'
  <2>1. UNCHANGED schema
    BY <1>8 DEF Start
  <2>2. PICK r \in Process : /\ proc' = [proc EXCEPT ![p] = r]
                             /\ r.at = "read" /\ r.found = 0
    <3>1. PICK b \in Builds, c \in Commands, u \in Runs :
             proc' = [proc EXCEPT ![p] =
                 [at |-> "read", build |-> b, found |-> 0, command |-> c,
                  doc |-> document, run |-> u]]
      BY <1>8 DEF Start
    <3>2. [at |-> "read", build |-> b, found |-> 0, command |-> c,
           doc |-> document, run |-> u] \in Process
      BY <1>1 DEF Process, Places, TypeOK
    <3> QED
      BY <3>1, <3>2
  <2>3. proc'[p] = r /\ \A q \in Procs : q # p => proc'[q] = proc[q]
    BY <1>1, <2>2, Moved
  <2>4. 0 <= version
    BY <1>2
  <2> QED
    BY <1>1, <1>3, <2>1, <2>2, <2>3, <2>4, OpeningKept
<1>9. ASSUME NEW p \in Procs, ReadVersion(p) PROVE VersionMatchesTables' /\ Opening'
  <2>1. UNCHANGED schema /\ At(p, "read")
    BY <1>9 DEF ReadVersion
  <2>2. CASE version > proc[p].build
    BY <1>4, <1>9, <2>1, <2>2 DEF ReadVersion
  <2>3. CASE ~(version > proc[p].build)
    <3> DEFINE s == IF version = 0 THEN "journal"
                    ELSE IF version < proc[p].build THEN "migrate" ELSE "store"
               row == [proc[p] EXCEPT !.found = version, !.at = s]
    <3>1. /\ proc[p] \in Process /\ proc[p].build \in Nat /\ proc[p].build > 0
      BY <1>1, <2>1, AProcess
    <3>2. /\ row \in Process /\ row.at = s /\ row.found = version
          /\ row.build = proc[p].build
      BY <1>2, <3>1 DEF Process, Places
    <3>3. proc' = [proc EXCEPT ![p] = row]
      BY <1>9, <2>3 DEF ReadVersion
    <3>4. s \in {"journal", "migrate"} => version < proc[p].build
      BY <1>2, <3>1
    <3>5. s = "migrate" => journal = "wal"
      BY <1>1 DEF VersionMatchesTables
    <3>6. s # "commit" /\ version <= version
      BY <1>2
    <3> HIDE DEF row, s
    <3>7. proc'[p] = row /\ \A q \in Procs : q # p => proc'[q] = proc[q]
      BY <1>1, <3>2, <3>3, Moved
    <3> QED
      BY <1>1, <1>3, <2>1, <3>2, <3>4, <3>5, <3>6, <3>7, OpeningKept
  <2> QED
    BY <2>2, <2>3
<1>10. ASSUME NEW p \in Procs, SetJournal(p) PROVE VersionMatchesTables' /\ Opening'
  <2>1. /\ Goto(p, "migrate") /\ journal' = "wal" /\ At(p, "journal")
        /\ UNCHANGED <<version, tables>>
    BY <1>10 DEF SetJournal
  <2>2. /\ proc'[p].at = "migrate" /\ proc'[p].found = proc[p].found
        /\ proc'[p].build = proc[p].build
        /\ \A q \in Procs : q # p => proc'[q] = proc[q]
    BY <1>1, <2>1, Gone DEF At, Places
  <2>3. \A q \in Procs : Existing(q)' = Existing(q)
    BY <2>1, <2>2 DEF Existing
  <2>4. Opening'
    BY <1>1, <2>1, <2>2, <2>3 DEF Opening, At
  <2> QED
    BY <1>1, <2>1, <2>4 DEF VersionMatchesTables
<1>11. ASSUME NEW p \in Procs, Migrate(p) PROVE VersionMatchesTables' /\ Opening'
  <2>1. At(p, "migrate") /\ UNCHANGED schema
    BY <1>11 DEF Migrate
  <2>2. CASE Existing(p) = {}
    <3>1. Goto(p, "commit")
      BY <1>11, <2>2 DEF Migrate
    <3>2. /\ proc'[p].at = "commit" /\ proc'[p].found = proc[p].found
          /\ proc'[p].build = proc[p].build
          /\ \A q \in Procs : q # p => proc'[q] = proc[q]
      BY <1>1, <2>1, <3>1, Gone DEF At, Places
    <3>3. Existing(p)' = {}
      BY <2>1, <2>2, <3>2 DEF Existing, schema
    <3>4. /\ proc[p].found <= version /\ proc[p].found < proc[p].build
          /\ journal = "wal"
      BY <1>1, <2>1 DEF Opening, At
    <3> QED
      BY <1>1, <1>3, <2>1, <3>2, <3>3, <3>4, OpeningKept
  <2>3. CASE Existing(p) # {}
    BY <1>4, <1>11, <2>1, <2>3 DEF Migrate
  <2> QED
    BY <2>2, <2>3
<1>12. ASSUME NEW p \in Procs, Commit(p) PROVE VersionMatchesTables' /\ Opening'
  <2>1. /\ VersionMatchesTables' /\ version' >= version /\ version' \in Nat
        /\ proc[p].found <= version
    BY <1>1, <1>2, <1>12, CommitSchema DEF TypeOK
  <2>2. At(p, "commit") /\ Goto(p, "store") /\ UNCHANGED journal
    BY <1>12 DEF Commit
  <2>3. /\ proc'[p].at = "store" /\ proc'[p].found = proc[p].found
        /\ \A q \in Procs : q # p => proc'[q] = proc[q]
    BY <1>1, <2>2, Gone DEF At, Places
  <2>4. \A q \in Procs : proc[q] # Nobody => proc[q].found \in Nat
    BY <1>1 DEF TypeOK, Process
  <2>5. \A q \in Procs : proc[q] # Nobody => proc[q].found <= version'
    BY <1>1, <1>2, <2>1, <2>4 DEF Opening
  <2>6. \A q \in Procs : q # p => ~At(q, "commit")
    BY <1>1, <2>2 DEF TypeOK
  <2> QED
    BY <1>1, <2>1, <2>2, <2>3, <2>5, <2>6 DEF Opening, At
<1>13. ASSUME NEW p \in Procs, StoreGraph(p) PROVE VersionMatchesTables' /\ Opening'
  BY <1>4, <1>5, <1>13 DEF StoreGraph, At
<1>14. ASSUME NEW p \in Procs, CreateRun(p) PROVE VersionMatchesTables' /\ Opening'
  BY <1>4, <1>14 DEF CreateRun
<1>15. ASSUME NEW p \in Procs, OpenRun(p) PROVE VersionMatchesTables' /\ Opening'
  BY <1>4, <1>5, <1>15 DEF OpenRun, At
<1>16. ASSUME NEW p \in Procs, Act(p) PROVE VersionMatchesTables' /\ Opening'
  BY <1>16, <1>6 DEF Act
<1>17. ASSUME NEW p \in Procs, Finish(p) \/ Stop(p)
       PROVE  VersionMatchesTables' /\ Opening'
  BY <1>4, <1>17 DEF Finish, Stop
<1>18. CASE UNCHANGED vars
  BY <1>1, <1>18, <1>6 DEF vars, SchemaInv
<1> QED
  BY <1>1, <1>7, <1>8, <1>9, <1>10, <1>11, <1>12, <1>13, <1>14, <1>15, <1>16,
     <1>17, <1>18 DEF Next, Command, SchemaInv
-----------------------------------------------------------------------------
(* No step replaces a row: what was relied on still holds when rows are    *)
(* only added, and p itself relies on nothing new.                         *)
LEMMA RowsAdded ==
    ASSUME GraphInv, NEW p \in Procs, UNCHANGED acts,
           \A g \in Refs : graphs[g] # NoRow => graphs'[g] = graphs[g],
           \A r \in Runs : runs[r] # NoRow => runs'[r] = runs[r],
           \A q \in Procs : q # p => proc'[q] = proc[q],
           proc'[p] # Nobody =>
               /\ proc'[p].at \in {"create", "open", "act"} => Stored(p)' = Offered(p)'
               /\ proc'[p].at = "act" => runs'[proc'[p].run] = proc'[p].doc.ref
    PROVE  OneGraphPerRun' /\ Bound'
<1>1. TypeOK /\ OneGraphPerRun /\ Bound
  BY DEF GraphInv
<1>2. OneGraphPerRun'
  <2> SUFFICES ASSUME NEW a \in acts
               PROVE  runs'[a[1]] = a[2].ref /\ graphs'[a[2].ref] = a[2].content
    BY DEF OneGraphPerRun
  <2>1. a[1] \in Runs /\ a[2].ref \in Refs /\ a[2].content \in Contents
    <3>1. a \in Runs \X Documents
      BY <1>1 DEF TypeOK
    <3>2. a[1] \in Runs /\ a[2] \in Documents
      BY <3>1
    <3> QED
      BY <3>2 DEF Documents
  <2>2. runs[a[1]] = a[2].ref /\ graphs[a[2].ref] = a[2].content
    BY <1>1 DEF OneGraphPerRun
  <2> QED
    BY <2>1, <2>2, StoreAssumption
<1>3. ASSUME NEW q \in Procs, q # p, proc[q] # Nobody
      PROVE  /\ proc[q].at \in {"create", "open", "act"} => Stored(q)' = Offered(q)'
             /\ proc[q].at = "act" => runs'[proc[q].run] = proc[q].doc.ref
  <2>1. /\ proc[q].doc.ref \in Refs /\ proc[q].doc.content \in Contents
        /\ proc[q].run \in Runs
    BY <1>1, <1>3, AProcess DEF At
  <2>2. proc'[q] = proc[q]
    BY <1>3
  <2>3. proc[q].at \in {"create", "open", "act"} => Stored(q) = Offered(q)
    BY <1>1, <1>3 DEF Bound
  <2>4. proc[q].at = "act" => runs[proc[q].run] = proc[q].doc.ref
    BY <1>1, <1>3 DEF Bound
  <2> QED
    BY <2>1, <2>2, <2>3, <2>4, StoreAssumption DEF Stored, Offered
<1>4. Bound'
  BY <1>3 DEF Bound
<1> QED
  BY <1>2, <1>4

LEMMA GraphInit == Init => GraphInv
<1>1. Init => OneGraphPerRun /\ Bound
  BY DEF Init, OneGraphPerRun, Bound
<1> QED
  BY TypeInit, <1>1 DEF GraphInv

LEMMA GraphStep ==
    ASSUME GraphInv, [Next]_vars
    PROVE  GraphInv'
<1>1. TypeOK /\ OneGraphPerRun /\ Bound /\ TypeOK'
  BY TypeStep DEF GraphInv
<1>2. ASSUME UNCHANGED rows, UNCHANGED proc PROVE OneGraphPerRun' /\ Bound'
  <2>1. \A q \in Procs : Stored(q)' = Stored(q) /\ Offered(q)' = Offered(q)
    BY <1>2 DEF Stored, Offered, rows
  <2>2. UNCHANGED runs /\ UNCHANGED acts /\ UNCHANGED graphs
    BY <1>2 DEF rows
  <2>3. Bound'
    BY <1>1, <1>2, <2>1, <2>2 DEF Bound
  <2> QED
    BY <1>1, <2>2, <2>3 DEF OneGraphPerRun
<1>3. ASSUME NEW p \in Procs, Exit(p), UNCHANGED acts,
             \A g \in Refs : graphs[g] # NoRow => graphs'[g] = graphs[g],
             \A r \in Runs : runs[r] # NoRow => runs'[r] = runs[r]
      PROVE  OneGraphPerRun' /\ Bound'
  <2>1. proc'[p] = Nobody /\ \A q \in Procs : q # p => proc'[q] = proc[q]
    BY <1>1, <1>3, Moved DEF Exit
  <2> QED
    BY <1>3, <2>1, RowsAdded
<1>4. ASSUME NEW p \in Procs, NEW r \in Process, proc' = [proc EXCEPT ![p] = r],
             r.at \notin {"create", "open", "act"}, UNCHANGED rows
      PROVE  OneGraphPerRun' /\ Bound'
  <2>1. proc'[p] = r /\ \A q \in Procs : q # p => proc'[q] = proc[q]
    BY <1>1, <1>4, Moved
  <2> QED
    BY <1>4, <2>1, RowsAdded DEF rows
<1>5. ASSUME NEW p \in Procs, NEW s \in {"migrate", "commit", "store"},
             Goto(p, s), proc[p] # Nobody, UNCHANGED rows
      PROVE  OneGraphPerRun' /\ Bound'
  <2>1. proc'[p].at = s /\ \A q \in Procs : q # p => proc'[q] = proc[q]
    BY <1>1, <1>5, Gone DEF Places
  <2> QED
    BY <1>5, <2>1, RowsAdded DEF rows
<1>6. CASE Save
  BY <1>1, <1>2, <1>6 DEF Save, GraphInv
<1>7. ASSUME NEW p \in Procs, Start(p) PROVE OneGraphPerRun' /\ Bound'
  <2>1. PICK b \in Builds, c \in Commands, u \in Runs :
           proc' = [proc EXCEPT ![p] =
               [at |-> "read", build |-> b, found |-> 0, command |-> c,
                doc |-> document, run |-> u]]
    BY <1>7 DEF Start
  <2>2. [at |-> "read", build |-> b, found |-> 0, command |-> c,
         doc |-> document, run |-> u] \in Process
    BY <1>1 DEF Process, Places, TypeOK
  <2> QED
    BY <1>4, <1>7, <2>1, <2>2 DEF Start
<1>8. ASSUME NEW p \in Procs, ReadVersion(p) PROVE OneGraphPerRun' /\ Bound'
  <2>1. UNCHANGED rows /\ At(p, "read") /\ version \in Nat
    BY <1>1, <1>8 DEF ReadVersion, TypeOK
  <2>2. CASE version > proc[p].build
    BY <1>3, <1>8, <2>1, <2>2 DEF ReadVersion, rows
  <2>3. CASE ~(version > proc[p].build)
    <3> DEFINE s == IF version = 0 THEN "journal"
                    ELSE IF version < proc[p].build THEN "migrate" ELSE "store"
               row == [proc[p] EXCEPT !.found = version, !.at = s]
    <3>1. row \in Process /\ row.at \notin {"create", "open", "act"}
      BY <1>1, <2>1, AProcess DEF Process, Places
    <3>2. proc' = [proc EXCEPT ![p] = row]
      BY <1>8, <2>3 DEF ReadVersion
    <3> HIDE DEF row, s
    <3> QED
      BY <1>4, <2>1, <3>1, <3>2
  <2> QED
    BY <2>2, <2>3
<1>9. ASSUME NEW p \in Procs, SetJournal(p) \/ Commit(p)
      PROVE  OneGraphPerRun' /\ Bound'
  BY <1>5, <1>9 DEF SetJournal, Commit, At
<1>10. ASSUME NEW p \in Procs, Migrate(p) PROVE OneGraphPerRun' /\ Bound'
  BY <1>3, <1>5, <1>10 DEF Migrate, At, rows
<1>11. ASSUME NEW p \in Procs, StoreGraph(p) PROVE OneGraphPerRun' /\ Bound'
  <2>1. At(p, "store") /\ UNCHANGED <<runs, acts>>
    BY <1>11 DEF StoreGraph
  <2>2. /\ proc[p] # Nobody /\ proc[p].doc.ref \in Refs
        /\ graphs \in [Refs -> Contents \cup {NoRow}]
    BY <1>1, <2>1, AProcess DEF TypeOK
  <2>3. CASE Agrees(p)
    <3>1. PICK s \in {"create", "open"} : Goto(p, s)
      BY <1>11, <2>3 DEF StoreGraph
    <3>2. graphs' = [graphs EXCEPT ![proc[p].doc.ref] =
                        IF @ = NoRow THEN Offered(p) ELSE @]
      BY <1>11, <2>3 DEF StoreGraph
    <3>3. \A g \in Refs : graphs[g] # NoRow => graphs'[g] = graphs[g]
      BY <2>2, <3>2
    <3>4. graphs'[proc[p].doc.ref] = Offered(p)
      BY <2>2, <2>3, <3>2 DEF Agrees, Stored
    <3>5. /\ proc'[p].at = s /\ proc'[p].doc = proc[p].doc
          /\ \A q \in Procs : q # p => proc'[q] = proc[q]
      BY <1>1, <2>2, <3>1, Gone DEF Places
    <3>6. Stored(p)' = Offered(p)'
      BY <3>4, <3>5 DEF Stored, Offered
    <3> QED
      BY <2>1, <3>3, <3>5, <3>6, RowsAdded
  <2>4. CASE ~Agrees(p)
    BY <1>3, <1>11, <2>1, <2>4 DEF StoreGraph
  <2> QED
    BY <2>3, <2>4
<1>12. ASSUME NEW p \in Procs, CreateRun(p) PROVE OneGraphPerRun' /\ Bound'
  <2>1. \A r \in Runs : runs[r] # NoRow => runs'[r] = runs[r]
    BY <1>1, <1>12 DEF CreateRun, TypeOK
  <2> QED
    BY <1>3, <1>12, <2>1 DEF CreateRun
<1>13. ASSUME NEW p \in Procs, OpenRun(p) PROVE OneGraphPerRun' /\ Bound'
  <2>1. At(p, "open") /\ UNCHANGED rows
    BY <1>13 DEF OpenRun
  <2>2. CASE runs[proc[p].run] = proc[p].doc.ref
    <3>1. Goto(p, "act") /\ proc[p] # Nobody
      BY <1>13, <2>1, <2>2 DEF OpenRun, At
    <3>2. /\ proc'[p].at = "act" /\ proc'[p].doc = proc[p].doc
          /\ proc'[p].run = proc[p].run
          /\ \A q \in Procs : q # p => proc'[q] = proc[q]
      BY <1>1, <3>1, Gone DEF Places
    <3>3. Stored(p) = Offered(p)
      BY <1>1, <2>1 DEF Bound, At
    <3>4. Stored(p)' = Offered(p)' /\ runs'[proc'[p].run] = proc'[p].doc.ref
      BY <2>1, <2>2, <3>2, <3>3 DEF Stored, Offered, rows
    <3> QED
      BY <2>1, <3>2, <3>4, RowsAdded DEF rows
  <2>3. CASE runs[proc[p].run] # proc[p].doc.ref
    BY <1>3, <1>13, <2>1, <2>3 DEF OpenRun, rows
  <2> QED
    BY <2>2, <2>3
<1>14. ASSUME NEW p \in Procs, Act(p) PROVE OneGraphPerRun' /\ Bound'
  <2>1. /\ At(p, "act") /\ UNCHANGED <<graphs, runs, proc>>
        /\ acts' = acts \cup {<<proc[p].run, proc[p].doc>>}
    BY <1>14 DEF Act
  <2>2. /\ runs[proc[p].run] = proc[p].doc.ref
        /\ graphs[proc[p].doc.ref] = proc[p].doc.content
    BY <1>1, <2>1 DEF Bound, At, Stored, Offered
  <2>3. \A q \in Procs : Stored(q)' = Stored(q) /\ Offered(q)' = Offered(q)
    BY <2>1 DEF Stored, Offered
  <2>4. Bound'
    BY <1>1, <2>1, <2>3 DEF Bound
  <2>5. OneGraphPerRun'
    BY <1>1, <2>1, <2>2 DEF OneGraphPerRun
  <2> QED
    BY <2>4, <2>5
<1>15. ASSUME NEW p \in Procs, Finish(p) \/ Stop(p)
       PROVE  OneGraphPerRun' /\ Bound'
  BY <1>3, <1>15 DEF Finish, Stop, rows
<1>16. CASE UNCHANGED vars
  BY <1>1, <1>2, <1>16 DEF vars, GraphInv
<1> QED
  BY <1>1, <1>6, <1>7, <1>8, <1>9, <1>10, <1>11, <1>12, <1>13, <1>14, <1>15,
     <1>16 DEF Next, Command, GraphInv

-----------------------------------------------------------------------------
(* Variables keep their types, and the write lock has the holder it says.  *)
THEOREM StoreTypes == Spec => []TypeOK
BY TypeInit, TypeStep, PTL DEF Spec

(* Store::open reads the version outside the transaction that migrates, so *)
(* any number of openers of any builds race; tables and version still      *)
(* match after every step, since what another opener created in between    *)
(* makes the transaction fail.                                             *)
THEOREM VersionsMatch == Spec => []VersionMatchesTables
<1>1. SchemaInv => VersionMatchesTables
  BY DEF SchemaInv
<1> QED
  BY SchemaInit, SchemaStep, <1>1, PTL DEF Spec

(* A run has one graph: the file it is read from may be edited at any      *)
(* time, by any number of commands that read it, without two of them ever  *)
(* acting on the run by different documents.                               *)
THEOREM RunsHaveOneGraph == Spec => []OneGraphPerRun
<1>1. GraphInv => OneGraphPerRun
  BY DEF GraphInv
<1> QED
  BY GraphInit, GraphStep, <1>1, PTL DEF Spec
=============================================================================
