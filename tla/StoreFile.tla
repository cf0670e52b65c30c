------------------------------ MODULE StoreFile ------------------------------
(***************************************************************************)
(* The store file as processes share it: Store::open of                    *)
(* src/src/store/mod.rs, which creates or migrates the schema, and the     *)
(* binding of a run to the graph document it was created from, which every *)
(* command of src/src/controller/mod.rs makes anew from a file that anyone *)
(* may edit.                                                               *)
(*                                                                         *)
(* A build of the program is the schema version it supports; the builds    *)
(* before this one open a file as this one does, with a smaller version.   *)
(* A write transaction holds the one write lock of SQLite and is rolled    *)
(* back when its process dies.  Only the transaction of a migration is     *)
(* more than one step here, since only it acts on what was read before it  *)
(* began.  The operators used by no action are faulty twins, as in Ledger. *)
(***************************************************************************)
EXTENDS Integers

CONSTANTS
    Procs,      \* slots in which processes run
    Nobody,     \* not one of them
    Builds,     \* schema versions supported by the builds in use
    Versions,   \* schema versions a file may have before they are used
    Refs,       \* graph ids with their revision
    Contents,   \* what a graph document may say
    NoRow,      \* what a table has for a key it does not hold
    Runs,       \* run ids
    MaxStops    \* bound on the processes that die or meet an error

Documents == [ref : Refs, content : Contents]

Commands == {"create", "act"}
Places ==
    {"read", "journal", "migrate", "commit", "store", "create", "open", "act"}

(* A process holds the document it read, and what it read of the file.     *)
Process ==
    [at : Places, build : Builds, found : Nat, command : Commands,
     doc : Documents, run : Runs]

ASSUME StoreAssumption ==
    /\ Nobody \notin Procs /\ Nobody \notin Process
    /\ Builds \subseteq Nat \ {0} /\ Versions \subseteq Nat
    /\ NoRow \notin Contents /\ NoRow \notin Refs
    /\ MaxStops \in Nat

VARIABLES
    version,    \* PRAGMA user_version
    tables,     \* the schema versions whose tables exist
    journal,    \* the journal mode of the file
    writer,     \* the process in a write transaction
    graphs,     \* table graphs: the content stored for a revision
    runs,       \* table runs: the revision a run was created from
    document,   \* the graph document on disk
    acts,       \* which run was acted on by which document
    proc,       \* the processes
    stops       \* how many of them died or failed

schema == <<version, tables, journal>>
rows == <<graphs, runs, acts>>
vars == <<schema, writer, rows, document, proc, stops>>

At(p, s) == proc[p] # Nobody /\ proc[p].at = s

(* Every variable has its type, and the write lock is held by the process  *)
(* that is in a transaction and by no other.                               *)
TypeOK ==
    /\ version \in Nat /\ tables \subseteq Nat /\ journal \in {"delete", "wal"}
    /\ writer \in Procs \cup {Nobody}
    /\ graphs \in [Refs -> Contents \cup {NoRow}]
    /\ runs \in [Runs -> Refs \cup {NoRow}]
    /\ document \in Documents
    /\ acts \subseteq Runs \X Documents
    /\ proc \in [Procs -> Process \cup {Nobody}]
    /\ stops \in 0..MaxStops
    /\ \A p \in Procs : writer = p <=> At(p, "commit")

(* A file that does not exist yet, or one that a build closed.             *)
Init ==
    /\ version \in Versions
    /\ tables = 1..version
    /\ journal = IF version = 0 THEN "delete" ELSE "wal"
    /\ writer = Nobody
    /\ graphs = [g \in Refs |-> NoRow] /\ runs = [r \in Runs |-> NoRow]
    /\ document \in Documents
    /\ acts = {}
    /\ proc = [p \in Procs |-> Nobody]
    /\ stops = 0

-----------------------------------------------------------------------------
Goto(p, s) == proc' = [proc EXCEPT ![p].at = s]

(* The command is over: done, refused or failed.                           *)
Exit(p) == proc' = [proc EXCEPT ![p] = Nobody]

(* Somebody edits the graph document.                                      *)
Save ==
    /\ document' \in Documents \ {document}
    /\ UNCHANGED <<schema, writer, rows, proc, stops>>

(* load_graph reads the document before the store is opened.               *)
Start(p) ==
    /\ proc[p] = Nobody
    /\ \E b \in Builds, c \in Commands, r \in Runs :
          proc' = [proc EXCEPT ![p] =
              [at |-> "read", build |-> b, found |-> 0, command |-> c,
               doc |-> document, run |-> r]]
    /\ UNCHANGED <<schema, writer, rows, document, stops>>

(* A newer schema is refused; what is read here decides what is migrated.  *)
ReadVersion(p) ==
    /\ At(p, "read")
    /\ IF version > proc[p].build
       THEN Exit(p)
       ELSE proc' = [proc EXCEPT
               ![p].found = version,
               ![p].at = IF version = 0 THEN "journal"
                         ELSE IF version < proc[p].build THEN "migrate"
                         ELSE "store"]
    /\ UNCHANGED <<schema, writer, rows, document, stops>>

(* The journal mode changes only while nobody writes.                      *)
SetJournal(p) ==
    /\ At(p, "journal") /\ (journal = "wal" \/ writer = Nobody)
    /\ journal' = "wal"
    /\ Goto(p, "migrate")
    /\ UNCHANGED <<version, tables, writer, rows, document, stops>>

Tolerated(p) == {}

(* What is to be created but exists already.                               *)
Existing(p) == {s \in tables : proc[p].found < s /\ s <= proc[p].build}

(* The first CREATE TABLE takes the write lock.  It fails on a table that  *)
(* another process created since the version was read.                     *)
Migrate(p) ==
    /\ At(p, "migrate") /\ writer = Nobody
    /\ IF Existing(p) = {}
       THEN Goto(p, "commit") /\ writer' = p
       ELSE Exit(p) /\ UNCHANGED writer
    /\ UNCHANGED <<schema, rows, document, stops>>

(* Tables and version become visible together.                             *)
Commit(p) ==
    /\ At(p, "commit")
    /\ tables' = tables \cup (proc[p].found + 1)..proc[p].build
    /\ version' = proc[p].build
    /\ writer' = Nobody
    /\ Goto(p, "store")
    /\ UNCHANGED <<journal, rows, document, stops>>

Offered(p) == proc[p].doc.content
Stored(p) == graphs[proc[p].doc.ref]

AnyContent(p) == TRUE

(* The revision is new to the store, or has the offered content.           *)
Agrees(p) == Stored(p) \in {NoRow, Offered(p)}

(* store_graph: a revision is bound to its content when it is first seen.  *)
StoreGraph(p) ==
    /\ At(p, "store") /\ writer = Nobody
    /\ IF Agrees(p)
       THEN /\ graphs' = [graphs EXCEPT ![proc[p].doc.ref] =
                             IF @ = NoRow THEN Offered(p) ELSE @]
            /\ Goto(p, IF proc[p].command = "create" THEN "create" ELSE "open")
       ELSE Exit(p) /\ UNCHANGED graphs
    /\ UNCHANGED <<schema, writer, runs, acts, document, stops>>

(* create_run: a run that exists is left as it is.                         *)
CreateRun(p) ==
    LET r == proc[p].run IN
    /\ At(p, "create") /\ writer = Nobody
    /\ runs' = [runs EXCEPT ![r] =
                   IF @ = NoRow /\ Stored(p) # NoRow THEN proc[p].doc.ref ELSE @]
    /\ Exit(p)
    /\ UNCHANGED <<schema, writer, graphs, acts, document, stops>>

(* open_run and Scheduler::new: the run exists and is of this revision.    *)
OpenRun(p) ==
    /\ At(p, "open")
    /\ IF runs[proc[p].run] = proc[p].doc.ref THEN Goto(p, "act") ELSE Exit(p)
    /\ UNCHANGED <<schema, writer, rows, document, stops>>

(* One step of the controller on the run, by the document as it was read.  *)
Act(p) ==
    /\ At(p, "act") /\ writer = Nobody
    /\ acts' = acts \cup {<<proc[p].run, proc[p].doc>>}
    /\ UNCHANGED <<schema, writer, graphs, runs, document, proc, stops>>

Finish(p) ==
    /\ At(p, "act")
    /\ Exit(p)
    /\ UNCHANGED <<schema, writer, rows, document, stops>>

LockLeft(p) == writer

(* A transaction that did not commit is rolled back.                       *)
LockReleased(p) == IF writer = p THEN Nobody ELSE writer

(* A process dies, or a statement fails: the lock was held for too long.   *)
Stop(p) ==
    /\ proc[p] # Nobody /\ stops < MaxStops
    /\ stops' = stops + 1
    /\ writer' = LockReleased(p)
    /\ Exit(p)
    /\ UNCHANGED <<schema, rows, document>>

Command(p) ==
    \/ Start(p)
    \/ ReadVersion(p)
    \/ SetJournal(p)
    \/ Migrate(p)
    \/ Commit(p)
    \/ StoreGraph(p)
    \/ CreateRun(p)
    \/ OpenRun(p)
    \/ Act(p)
    \/ Finish(p)
    \/ Stop(p)

Next == Save \/ \E p \in Procs : Command(p)

Spec == Init /\ [][Next]_vars

-----------------------------------------------------------------------------
(* Properties.                                                             *)

(* Store::open: the version of the file says which tables it has, and a    *)
(* file that has any is in WAL mode, whoever else was opening it, with     *)
(* whatever build and from whatever version it read: the loser of a race   *)
(* fails and never takes the version back.                                 *)
VersionMatchesTables ==
    /\ tables = 1..version
    /\ version # 0 => journal = "wal"

(* store_graph, create_run, open_run and Scheduler::new together: every    *)
(* process that ever acts on a run acts by the same document, the one      *)
(* stored for the run's revision, whatever the graph file said at other    *)
(* times.                                                                  *)
OneGraphPerRun ==
    \A a \in acts :
        runs[a[1]] = a[2].ref /\ graphs[a[2].ref] = a[2].content
=============================================================================
