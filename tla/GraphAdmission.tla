--------------------------- MODULE GraphAdmission ---------------------------
(***************************************************************************)
(* graph::admit (src/src/graph/mod.rs): which graphs of nodes can be       *)
(* dispatched, and in which order.  A node is its position in the graph    *)
(* document, Outside a name that is not in the graph.  The checks of one   *)
(* record on its own (identity, contract, revision, port and type of a     *)
(* dependency) only add errors and are left out.  The order in which a     *)
(* node lists its dependencies is any order.                               *)
(*                                                                         *)
(* The operators used by no action are faulty twins, as in Ledger.         *)
(***************************************************************************)
EXTENDS Naturals, Sequences, FiniteSets

CONSTANTS
    N,             \* nodes in the graph document
    Dependable,    \* the names nodes may depend on
    ProofScopes,   \* the (node, source) pairs proof ports may name
    GateScopes     \* the (gate, target) pairs human ports may name

Outside == 0
Index == 1..N
Names == Index \cup {Outside}

ASSUME AdmissionAssumption ==
    /\ N \in Nat
    /\ Dependable \subseteq Names
    /\ ProofScopes \subseteq SUBSET (Index \X Names)
    /\ GateScopes \subseteq SUBSET (Index \X Names)

VARIABLES
    declared,    \* the names each node depends on
    proofs,      \* what proof ports draw on
    gates,       \* what human gates resolve
    targets,     \* the nodes the graph is for
    stage,       \* the part of admit that comes next
    errors,      \* the errors found so far
    deps,        \* deps_of: producers of each node, resolved in the graph
    indegree, ready, order,   \* Kahn's algorithm
    path,        \* the walk that looks for a cycle
    cycle,       \* the cycle it found
    required     \* nodes some target depends on

graph == <<declared, proofs, gates, targets>>
kahn == <<indegree, ready, order>>
vars == <<graph, stage, errors, deps, kahn, path, cycle, required>>

Errors == {"self", "unresolved", "hidden_proof", "unresolved_proof",
           "gate_target", "cycle", "gate_wait"}

Init ==
    /\ declared \in [Index -> SUBSET Dependable]
    /\ proofs \in ProofScopes
    /\ gates \in GateScopes
    /\ \E t \in Index : targets = {t}
    /\ stage = "resolve"
    /\ errors = {}
    /\ deps = [c \in Index |-> {}]
    /\ indegree = [c \in Index |-> 0]
    /\ ready = {} /\ order = <<>>
    /\ path = <<>> /\ cycle = <<>>
    /\ required = {}

Ordered == {order[k] : k \in 1..Len(order)}

-----------------------------------------------------------------------------
(* Resolution of every name, and the errors that takes no search to find.  *)

Producers(c) == (declared[c] \cap Index) \ {c}

NameErrors ==
    {"self" : c \in {x \in Index : x \in declared[x]}} \cup
    {"unresolved" : c \in {x \in Index : Outside \in declared[x]}} \cup
    {"unresolved_proof" : p \in {x \in proofs : x[2] = Outside}} \cup
    {"hidden_proof" : p \in {x \in proofs :
                               x[2] # Outside /\ x[2] \notin Producers(x[1])}} \cup
    {"gate_target" : p \in {x \in gates : x[2] = Outside}}

Resolve ==
    /\ stage = "resolve"
    /\ deps' = [c \in Index |-> Producers(c)]
    /\ errors' = errors \cup NameErrors
    /\ indegree' = [c \in Index |-> Cardinality(Producers(c))]
    /\ ready' = {c \in Index : Producers(c) = {}}
    /\ stage' = "order"
    /\ UNCHANGED <<graph, order, path, cycle, required>>

-----------------------------------------------------------------------------
(* Kahn's algorithm.                                                       *)

(* The heap gives the first ready node of the document.                    *)
FirstReady(i) == i \in ready /\ \A j \in ready : i <= j

OneLeft(c, i) == i \in deps[c] /\ indegree[c] <= 2

(* Ordering producer i leaves consumer c without open producers.           *)
Releases(c, i) == i \in deps[c] /\ indegree[c] = 1

CountReleasedOnly(i) ==
    [c \in Index |-> IF Releases(c, i) THEN 0 ELSE indegree[c]]

(* Every consumer of i has one producer less to wait for.                  *)
CountDown(i) ==
    [c \in Index |-> IF i \in deps[c] THEN indegree[c] - 1 ELSE indegree[c]]

Pop ==
    /\ stage = "order"
    /\ \E i \in Index :
         /\ FirstReady(i)
         /\ order' = Append(order, i)
         /\ indegree' = CountDown(i)
         /\ ready' = (ready \ {i}) \cup {c \in Index : Releases(c, i)}
    /\ UNCHANGED <<graph, stage, errors, deps, path, cycle, required>>

(* Nothing is ready: everything was ordered, or there is a cycle among the *)
(* nodes left over.                                                        *)
Exhaust ==
    /\ stage = "order" /\ ready = {}
    /\ stage' = IF Len(order) < N THEN "walk" ELSE "gates"
    /\ UNCHANGED <<graph, errors, deps, kahn, path, cycle, required>>

Remaining == {i \in Index : indegree[i] > 0}

AnyProducer(c) == deps[c]

(* A walk over the nodes left over never runs out of producers.            *)
LeftProducers(c) == deps[c] \cap Remaining

WholeWalk(k) == path

(* What the walk did since it was at its k-th node.                        *)
Lap(k) == SubSeq(path, k, Len(path))

(* From the first node left over, walk to a producer that is left over,    *)
(* until a node comes twice.                                               *)
Walk ==
    /\ stage = "walk"
    /\ \/ /\ path = <<>>
          /\ \E i \in Remaining :
               (\A j \in Remaining : i <= j) /\ path' = <<i>>
          /\ UNCHANGED <<cycle, stage, errors>>
       \/ /\ path # <<>>
          /\ \E p \in LeftProducers(path[Len(path)]) :
               /\ \A k \in 1..Len(path) : path[k] # p
               /\ path' = Append(path, p)
          /\ UNCHANGED <<cycle, stage, errors>>
       \/ /\ path # <<>>
          /\ \E k \in 1..Len(path) :
               /\ path[k] \in LeftProducers(path[Len(path)])
               /\ cycle' = Lap(k)
          /\ errors' = errors \cup {"cycle"}
          /\ stage' = "conclude"
          /\ UNCHANGED path
    /\ UNCHANGED <<graph, deps, kahn, required>>

-----------------------------------------------------------------------------
(* Searches along dependencies.                                            *)

(* What the nodes of S depend on in at most k steps, S included.           *)
Within(S) ==
    LET level[k \in Nat] ==
          IF k = 0 THEN S
          ELSE level[k-1] \cup UNION {deps[c] : c \in level[k-1]}
    IN  level[N]

(* dependency_path finds a chain from one node to another.                 *)
DependsOn(a, b) == b \in Within(deps[a])

WaitsOnTarget(g, t) == g = t \/ DependsOn(g, t)

(* A gate and the node it resolves wait for each other's acceptance.       *)
WaitsFor(g, t) == g = t \/ DependsOn(g, t) \/ DependsOn(t, g)

CheckGates ==
    /\ stage = "gates"
    /\ errors' = errors \cup
         {"gate_wait" : p \in {x \in gates : x[2] # Outside /\ WaitsFor(x[1], x[2])}}
    /\ stage' = "conclude"
    /\ UNCHANGED <<graph, deps, kahn, path, cycle, required>>

Needed == Within(targets)

Conclude ==
    /\ stage = "conclude"
    /\ IF errors = {}
       THEN stage' = "admitted" /\ required' = Needed
       ELSE stage' = "refused" /\ UNCHANGED required
    /\ UNCHANGED <<graph, errors, deps, kahn, path, cycle>>

Next ==
    \/ Resolve
    \/ Pop
    \/ Exhaust
    \/ Walk
    \/ CheckGates
    \/ Conclude

Spec == Init /\ [][Next]_vars /\ WF_vars(Next)

-----------------------------------------------------------------------------
(* Reference definitions, on the graph as it was written.                  *)

Edge(c, p) == p \in declared[c] /\ p \in Index

(* c depends on p through a chain of distinct nodes.                       *)
Chains(c, p) ==
    \E len \in 1..N : \E s \in [1..(len + 1) -> Index] :
        /\ s[1] = c /\ s[len + 1] = p
        /\ \A k \in 1..len : Edge(s[k], s[k + 1])

Cyclic == \E c \in Index : Chains(c, c)

-----------------------------------------------------------------------------
(* Every variable of the search has its type, and every node is counted    *)
(* once: ordered, ready, or waiting for as many producers as its indegree. *)
TypeOK ==
    /\ errors \subseteq Errors
    /\ stage \in {"resolve", "order", "walk", "gates", "conclude", "admitted",
                  "refused"}
    /\ deps \in [Index -> SUBSET Index]
    /\ indegree \in [Index -> Nat]
    /\ order \in Seq(Index) /\ path \in Seq(Index) /\ cycle \in Seq(Index)
    /\ ready \subseteq Index /\ required \subseteq Index
    /\ stage # "resolve" =>
         \A c \in Index : indegree[c] = Cardinality(deps[c] \ Ordered)

(* The order is a dependency order at every moment of the search, and the  *)
(* one the documentation promises: a node comes once, after all its        *)
(* producers, and at every place stands the first node of the document     *)
(* that can stand there.                                                   *)
ProducersFirst ==
    /\ \A j, k \in 1..Len(order) : order[j] = order[k] => j = k
    /\ \A k \in 1..Len(order) : \A p \in deps[order[k]] :
          \E j \in 1..(k - 1) : order[j] = p
    /\ \A k \in 1..Len(order) : \A i \in 1..(order[k] - 1) :
          \/ \E j \in 1..(k - 1) : order[j] = i
          \/ \E p \in deps[i] : \A j \in 1..(k - 1) : order[j] # p

(* A graph is admitted exactly when nothing waits for itself: no name is   *)
(* unknown, no chain of dependencies comes back, a proof port hides no     *)
(* dependency, and no gate waits on the node it resolves or the other way  *)
(* round; its order then has every node, and what is required is what the  *)
(* targets are or depend on.                                               *)
AdmitsExactly ==
    /\ stage = "admitted" =>
         /\ ~Cyclic
         /\ Len(order) = N
         /\ required = targets \cup {p \in Index : \E t \in targets : Chains(t, p)}
    /\ stage \in {"admitted", "refused"} =>
         (stage = "admitted" <=>
            /\ ~Cyclic
            /\ \A c \in Index : Outside \notin declared[c]
            /\ \A p \in proofs : p[2] # Outside /\ Edge(p[1], p[2])
            /\ \A p \in gates :
                 /\ p[2] # Outside /\ p[1] # p[2]
                 /\ ~Chains(p[1], p[2]) /\ ~Chains(p[2], p[1]))

(* The cycle an error shows is a cycle: each node depends on the next and  *)
(* the last on the first.                                                  *)
CycleIsReal ==
    "cycle" \in errors =>
        /\ cycle # <<>>
        /\ \A k \in 1..Len(cycle) :
             Edge(cycle[k], cycle[IF k = Len(cycle) THEN 1 ELSE k + 1])

(* The search ends, the walk for a cycle included.                         *)
AdmissionEnds == <>(stage \in {"admitted", "refused"})
=============================================================================
