--------------------------- MODULE EvidenceProofs ---------------------------
(***************************************************************************)
(* What is frozen is whole, within the ceiling and checked, for any node,  *)
(* any sources, any offers and any changes of the files meanwhile.         *)
(***************************************************************************)
EXTENDS Evidence, FiniteSetTheorems, SequenceTheorems, TLAPS

(* A set of numbers has a least element, which stands in for induction.    *)
LEMMA LeastNat ==
    ASSUME NEW T, T \subseteq Nat, T # {}
    PROVE  \E n \in T : \A m \in T : n <= m
<1> DEFINE R == OpToRel(<, Nat)
<1>1. IsWellFoundedOn(R, Nat)
  BY NatLessThanWellFounded
<1>2. PICK n \in T : \A m \in T : <<m, n>> \notin R
  <2> HIDE DEF R
  <2> QED
    BY <1>1, WFMin
<1>3. ASSUME NEW m \in T PROVE n <= m
  <2>1. ~(m < n)
    BY <1>2 DEF OpToRel
  <2> QED
    BY <2>1
<1> QED
  BY <1>3

-----------------------------------------------------------------------------
(* The bytes of a set of references.  MapThenSumSet takes the elements in  *)
(* an order of its own; Adds(t, g) says that g sums the subsets of t so.   *)

First(s) == CHOOSE x \in s : TRUE

Adds(t, g) ==
    g = [s \in SUBSET t |->
            IF s = {} THEN 0 ELSE First(s).size + g[s \ {First(s)}]]

Total(t) == (CHOOSE g : Adds(t, g))[t]

LEMMA SumIsTotal ==
    ASSUME NEW S
    PROVE  MapThenSumSet(LAMBDA r : r.size, S) = Total(S)
  BY DEF MapThenSumSet, MapThenFoldSet, Total, Adds, First

(* Two such sums agree where both are defined.                             *)
LEMMA AddsAgree ==
    ASSUME NEW s, NEW t, NEW g, NEW h, Adds(s, g), Adds(t, h),
           NEW w, w \subseteq s, w \subseteq t, IsFiniteSet(w)
    PROVE  g[w] = h[w]
<1> DEFINE T == {k \in Nat : \E u \in SUBSET w : Cardinality(u) = k /\ g[u] # h[u]}
<1>1. T = {}
  <2> SUFFICES ASSUME T # {} PROVE FALSE
    OBVIOUS
  <2>1. PICK k \in T : \A m \in T : k <= m
    BY LeastNat, T \subseteq Nat
  <2>2. PICK u \in SUBSET w : Cardinality(u) = k /\ g[u] # h[u]
    BY <2>1
  <2>3. u # {}
    BY <2>2 DEF Adds
  <2> DEFINE x == First(u)
             v == u \ {x}
  <2>4. x \in u
    BY <2>3 DEF First
  <2>5. IsFiniteSet(u) /\ Cardinality(v) = k - 1 /\ k \in Nat /\ k - 1 \in Nat
    <3>1. IsFiniteSet(u)
      BY FS_Subset
    <3>2. IsFiniteSet(v) /\ Cardinality(v) = Cardinality(u) - 1
      BY <2>4, <3>1, FS_RemoveElement
    <3>3. Cardinality(v) \in Nat
      BY <3>2, FS_CardinalityType
    <3> QED
      BY <2>1, <2>2, <3>1, <3>2, <3>3
  <2>6. g[v] = h[v]
    <3>1. k - 1 \notin T
      BY <2>1, <2>5
    <3> QED
      BY <2>5, <3>1
  <2>7. g[u] = x.size + g[v] /\ h[u] = x.size + h[v]
    BY <2>3 DEF Adds
  <2> QED
    BY <2>2, <2>6, <2>7
<1>2. Cardinality(w) \in Nat
  BY FS_CardinalityType
<1> QED
  BY <1>1, <1>2

LEMMA AddsExists ==
    ASSUME NEW W, IsFiniteSet(W)
    PROVE  \E g : Adds(W, g)
<1> DEFINE T == {k \in Nat : \E u \in SUBSET W : Cardinality(u) = k /\ ~\E g : Adds(u, g)}
<1>1. T = {}
  <2> SUFFICES ASSUME T # {} PROVE FALSE
    OBVIOUS
  <2>1. PICK k \in T : \A m \in T : k <= m
    BY LeastNat, T \subseteq Nat
  <2>2. PICK u \in SUBSET W : Cardinality(u) = k /\ ~\E g : Adds(u, g)
    BY <2>1
  <2> DEFINE G(v) == CHOOSE g : Adds(v, g)
             f == [v \in SUBSET u |->
                      IF v = {} THEN 0
                      ELSE First(v).size + G(v \ {First(v)})[v \ {First(v)}]]
  <2>3. IsFiniteSet(u) /\ \A v \in SUBSET u : IsFiniteSet(v)
    BY FS_Subset
  <2>4. ASSUME NEW v \in SUBSET u, v # u PROVE Adds(v, G(v))
    <3>1. Cardinality(v) \in Nat /\ Cardinality(v) < k
      <4>1. Cardinality(v) \in Nat /\ Cardinality(u) \in Nat
        BY <2>3, FS_CardinalityType
      <4>2. Cardinality(v) <= Cardinality(u) /\ Cardinality(v) # Cardinality(u)
        BY <2>3, <2>4, FS_Subset
      <4> QED
        BY <2>2, <4>1, <4>2
    <3>2. Cardinality(v) \notin T
      BY <2>1, <3>1
    <3>3. \E g : Adds(v, g)
      BY <3>1, <3>2
    <3> QED
      BY <3>3
  <2>5. ASSUME NEW v \in SUBSET u, v # {}
        PROVE  LET w == v \ {First(v)} IN f[w] = G(w)[w]
    <3> DEFINE w == v \ {First(v)}
               y == w \ {First(w)}
    <3>1. First(v) \in v /\ w \in SUBSET u /\ w # u
      BY <2>5 DEF First
    <3>2. Adds(w, G(w))
      BY <2>4, <3>1
    <3>3. CASE w = {}
      <4>1. G(w)[w] = 0
        <5> HIDE DEF G, w
        <5> QED
          BY <3>2, <3>3 DEF Adds
      <4> QED
        BY <3>1, <3>3, <4>1
    <3>4. CASE w # {}
      <4>1. First(w) \in w /\ y \in SUBSET u /\ y # u /\ y \subseteq w
        BY <3>1, <3>4 DEF First
      <4>2. Adds(y, G(y)) /\ IsFiniteSet(y)
        BY <2>3, <2>4, <4>1
      <4>3. G(w)[y] = G(y)[y]
        <5> HIDE DEF G, w, y
        <5> QED
          BY <3>2, <4>1, <4>2, AddsAgree
      <4>4. G(w)[w] = First(w).size + G(w)[y]
        <5> HIDE DEF G, w
        <5> QED
          BY <3>2, <3>4 DEF Adds
      <4>5. f[w] = First(w).size + G(y)[y]
        <5> HIDE DEF G, w
        <5> QED
          BY <3>1, <3>4
      <4> QED
        BY <4>3, <4>4, <4>5
    <3> QED
      BY <3>3, <3>4
  <2>6. Adds(u, f)
    <3> DEFINE F == [v \in SUBSET u |->
                        IF v = {} THEN 0 ELSE First(v).size + f[v \ {First(v)}]]
    <3>1. ASSUME NEW v \in SUBSET u PROVE f[v] = F[v]
      <4>1. CASE v = {}
        BY <4>1
      <4>2. CASE v # {}
        <5>1. f[v \ {First(v)}] = G(v \ {First(v)})[v \ {First(v)}]
          BY <2>5, <4>2
        <5>2. f[v] = First(v).size + G(v \ {First(v)})[v \ {First(v)}]
          <6> HIDE DEF G
          <6> QED
            BY <4>2
        <5>3. F[v] = First(v).size + f[v \ {First(v)}]
          <6> HIDE DEF f
          <6> QED
            BY <4>2
        <5> QED
          BY <5>1, <5>2, <5>3
      <4> QED
        BY <4>1, <4>2
    <3>2. f = F
      <4> HIDE DEF G
      <4> QED
        BY <3>1
    <3> HIDE DEF f
    <3> QED
      BY <3>2 DEF Adds
  <2> QED
    BY <2>2, <2>6
<1>2. Cardinality(W) \in Nat
  BY FS_CardinalityType
<1> QED
  BY <1>1, <1>2

LEMMA TotalSteps ==
    ASSUME NEW S, IsFiniteSet(S)
    PROVE  Total(S) = IF S = {} THEN 0
                      ELSE First(S).size + Total(S \ {First(S)})
<1> DEFINE g == CHOOSE h : Adds(S, h)
<1>1. Adds(S, g)
  BY AddsExists
<1>2. Total(S) = g[S]
  BY DEF Total
<1> HIDE DEF g
<1>3. CASE S = {}
  BY <1>1, <1>2, <1>3 DEF Adds
<1>4. CASE S # {}
  <2> DEFINE T == S \ {First(S)}
             t == CHOOSE h : Adds(T, h)
  <2>1. IsFiniteSet(T) /\ T \subseteq S
    BY FS_Subset
  <2>2. Adds(T, t)
    BY <2>1, AddsExists
  <2>3. Total(T) = t[T]
    BY DEF Total
  <2> HIDE DEF t
  <2>4. g[T] = t[T]
    <3> HIDE DEF T
    <3> QED
      BY <1>1, <2>1, <2>2, AddsAgree
  <2>5. g[S] = First(S).size + g[T]
    BY <1>1, <1>4 DEF Adds
  <2> QED
    BY <1>2, <1>4, <2>3, <2>4, <2>5
<1> QED
  BY <1>3, <1>4

Sized(S) == \A r \in S : r.size \in Nat

(* The order does not matter: one more element adds its own size.          *)
LEMMA TotalAdds ==
    ASSUME NEW W, IsFiniteSet(W), Sized(W), NEW r \in W
    PROVE  /\ Total(W \ {r}) \in Nat
           /\ Total(W) = r.size + Total(W \ {r})
<1> DEFINE Good(S) == /\ Total(S) \in Nat
                      /\ \A x \in S : Total(S) = x.size + Total(S \ {x})
           T == {k \in Nat : \E S \in SUBSET W : Cardinality(S) = k /\ ~Good(S)}
<1>1. T = {}
  <2> SUFFICES ASSUME T # {} PROVE FALSE
    OBVIOUS
  <2>1. PICK k \in T : \A m \in T : k <= m
    <3> HIDE DEF Good
    <3> QED
      BY LeastNat, T \subseteq Nat
  <2>2. PICK S \in SUBSET W : Cardinality(S) = k /\ ~Good(S)
    <3> HIDE DEF Good
    <3> QED
      BY <2>1
  <2>3. IsFiniteSet(S) /\ Cardinality(S) \in Nat
    BY FS_Subset, FS_CardinalityType
  <2>4. ASSUME NEW V \in SUBSET S, V # S PROVE Good(V)
    <3>1. IsFiniteSet(V) /\ Cardinality(V) \in Nat /\ Cardinality(V) < k
      <4>1. IsFiniteSet(V) /\ Cardinality(V) <= Cardinality(S)
            /\ (Cardinality(V) = Cardinality(S) => V = S)
        BY <2>3, FS_Subset
      <4>2. Cardinality(V) \in Nat
        BY <4>1, FS_CardinalityType
      <4> QED
        BY <2>2, <2>3, <2>4, <4>1, <4>2
    <3>2. Cardinality(V) \notin T
      BY <2>1, <3>1
    <3> HIDE DEF Good
    <3> QED
      BY <3>1, <3>2
  <2>5. S # {}
    <3>1. Total({}) = 0
      BY FS_EmptySet, TotalSteps
    <3> QED
      BY <2>2, <3>1
  <2> DEFINE x == First(S)
             Sx == S \ {x}
  <2>6. x \in S /\ x.size \in Nat /\ Sx \in SUBSET S /\ Sx # S
    BY <2>5 DEF First, Sized
  <2>7. Total(S) = x.size + Total(Sx)
    BY <2>3, <2>5, TotalSteps
  <2>8. Total(Sx) \in Nat
    BY <2>4, <2>6
  <2>9. ASSUME NEW y \in S PROVE Total(S) = y.size + Total(S \ {y})
    <3>1. CASE y = x
      BY <2>7, <3>1
    <3>2. CASE y # x
      <4> DEFINE Sy == S \ {y}
                 Sxy == (S \ {x}) \ {y}
      <4>1. /\ y \in Sx /\ x \in Sy /\ Sy \in SUBSET S /\ Sy # S
            /\ Sx \ {y} = Sxy /\ Sy \ {x} = Sxy /\ Sxy \in SUBSET S /\ Sxy # S
        BY <2>6, <3>2
      <4>2. Total(Sx) = y.size + Total(Sxy)
        <5>1. Good(Sx)
          BY <2>4, <2>6
        <5> QED
          BY <4>1, <5>1
      <4>3. Total(Sy) = x.size + Total(Sxy)
        <5>1. Good(Sy)
          BY <2>4, <4>1
        <5> QED
          BY <4>1, <5>1
      <4>4. Total(Sxy) \in Nat /\ y.size \in Nat
        <5>1. Good(Sxy)
          BY <2>4, <4>1
        <5> QED
          BY <5>1 DEF Sized
      <4> HIDE DEF Sx, Sy, Sxy, x
      <4> QED
        BY <2>6, <2>7, <4>2, <4>3, <4>4 DEF Sy
    <3> QED
      BY <3>1, <3>2
  <2>10. Total(S) \in Nat
    BY <2>6, <2>7, <2>8
  <2> QED
    BY <2>2, <2>9, <2>10
<1>2. ASSUME NEW V \in SUBSET W PROVE Good(V)
  <2>1. Cardinality(V) \in Nat
    BY FS_Subset, FS_CardinalityType
  <2> HIDE DEF Good
  <2> QED
    BY <1>1, <2>1
<1>3. Good(W) /\ Good(W \ {r})
  BY <1>2
<1> QED
  BY <1>3

LEMMA TotalNat ==
    ASSUME NEW S, IsFiniteSet(S), Sized(S)
    PROVE  Total(S) \in Nat
<1>1. Total({}) = 0
  BY FS_EmptySet, TotalSteps
<1>2. CASE S = {}
  BY <1>1, <1>2
<1>3. CASE S # {}
  <2>1. PICK x \in S : TRUE
    BY <1>3
  <2>2. Total(S) = x.size + Total(S \ {x}) /\ Total(S \ {x}) \in Nat
    BY TotalAdds
  <2>3. x.size \in Nat
    BY DEF Sized
  <2> QED
    BY <2>2, <2>3
<1> QED
  BY <1>2, <1>3

-----------------------------------------------------------------------------
(* The inductive invariant.                                                *)

Done(p) == \E k \in 1..Len(PortOrder) : k < i /\ PortOrder[k] = p

(* The call goes from port to port, and looks only at those that need it.  *)
Control ==
    /\ stage \in {"start", "resolve", "refused", "frozen", "verify", "verified"}
    /\ stage = "start" => evidence = {} /\ omitted = {} /\ errors = {}
    /\ stage = "start" => i = 1
    /\ stage = "verified" => i > Len(PortOrder)
    /\ stage = "frozen" => errors = {}
    /\ look # <<>> => /\ stage \in {"resolve", "verify"}
                      /\ i <= Len(PortOrder)
                      /\ Kind[Port] \in {"code", "logs"}
    /\ look # <<>> => \/ look = <<look[1]>>
                      \/ look = <<look[1], look[2]>>
                      \/ look = <<look[1], look[2], look[3]>>

(* What narrowing left of the ports, and of the offers for them.           *)
Allowed ==
    stage \in {"resolve", "frozen", "verify", "verified"} =>
        /\ DOMAIN ports \subseteq Ports
        /\ \A p \in Ports \ DOMAIN ports : ~Required[p]
        /\ \A p \in DOMAIN ports : ports[p] \subseteq Scope[p]
        /\ stage # "resolve" \/ errors = {} => OfferErrors(DOMAIN ports) = {}

(* An offer that is being looked at is from a source of the port's.        *)
Looking ==
    stage = "resolve" /\ look # <<>> =>
        LET s == Offer(Port).source IN
        /\ Port \in DOMAIN ports /\ Offered(Port)
        /\ s \in ports[Port] \cap registered
        /\ Kind[Port] = "code" => s \in Repositories /\ Port \in WellTyped
        /\ Kind[Port] = "logs" => s \in Directories

(* One reference per port, from a source the narrowed port allows, and the *)
(* offered one if one was offered.                                         *)
References ==
    /\ \A r \in evidence :
          /\ r.port \in DOMAIN ports \ omitted
          /\ r.source \in ports[r.port]
          /\ Offered(r.port) => r.source = Offer(r.port).source
          /\ Kind[r.port] \in {"code", "logs", "proofs"}
    /\ \A r, q \in evidence : r.port = q.port => r = q
    /\ stage = "resolve" => /\ \A r \in evidence : Done(r.port)
                            /\ \A p \in omitted : Done(p)

Counted == IsFiniteSet(evidence) /\ Total(evidence) + remaining <= MaxTotal

(* A port that is done has evidence, or need not have it.                  *)
Filled(p) ==
    p \notin DOMAIN ports \/ Frozen(p) # {} \/ (~Required[p] /\ ~Offered(p))

Whole ==
    /\ stage = "resolve" /\ errors = {} => \A p \in Ports : Done(p) => Filled(p)
    /\ IsFrozen => \A p \in Ports : Filled(p)

(* What a capture of the working tree has seen so far is what is there.    *)
TreeSeen ==
    /\ look[1] = repo.head
    /\ Len(look) >= 2 =>
          look[2] = IF repo.tree = repo.head THEN "commit" ELSE "working_tree"
    /\ Len(look) = 3 => look[3] = CandidateContent

CalmLook ==
    stage = "verify" /\ calm /\ look # <<>> =>
        \A r \in Frozen(Port) :
            /\ Kind[Port] = "code" /\ r.subject[2] # "commit" => TreeSeen
            /\ Kind[Port] = "logs" => r.source \in registered /\ Usable(r.source)

CalmDone ==
    stage \in {"verify", "verified"} /\ calm =>
        \A r \in evidence : Done(r.port) =>
            r.port \in errors \/ (Current(r) /\ now <= r.until)

(* A reference to what has not changed since it was resolved.              *)
Sound(r) ==
    /\ Kind[r.port] = "code" =>
          /\ r.source \in Repositories \cap registered /\ r.port \in WellTyped
          /\ \/ \E c : c # 0 /\ r.subject = <<c, "commit", c, c>>
             \/ /\ repo.head # repo.tree
                /\ r.subject = <<repo.head, "working_tree", repo.tree, repo.tree>>
    /\ Kind[r.port] = "logs" =>
          /\ r.source \in Directories \cap registered
          /\ Attested[r.source] = 0 \/ doc[r.source] = Attested[r.source]
          /\ r.until = Until[r.source] /\ r.subject = <<log[r.source]>>
          /\ log[r.source] # 0 /\ log[r.source] <= MaxFile
          /\ log[r.source] <= MaxTotal
    /\ Kind[r.port] = "proofs" => \E n \in Producers : pinned[n] = r.subject[1]

StillSound == still => \A r \in evidence : Sound(r)

StillLook ==
    still /\ stage = "resolve" /\ look # <<>> =>
        LET o == Offer(Port) IN
        /\ Kind[Port] = "code" /\ o.item = 0 => TreeSeen
        /\ Kind[Port] = "code" /\ o.item # 0 =>
              look = <<o.item, "commit">> \/ look = <<o.item, "commit", o.item>>
        /\ Kind[Port] = "logs" => Usable(o.source)

StillRead ==
    still /\ stage = "verify" /\ look # <<>> /\ Kind[Port] = "code" =>
        \A r \in Frozen(Port) :
            LET s == r.subject IN
            \/ look = <<s[1]>> /\ s[2] # "commit"
            \/ look = <<s[1], s[2]>>
            \/ look = <<s[1], s[2], s[3]>>

StillHolds ==
    still /\ stage \in {"verify", "verified"} =>
        \A r \in evidence :
            now <= r.until /\ r.source \notin Below \cup Slashed => r.port \notin errors

EvidenceInv ==
    /\ TypeOK /\ Control /\ Allowed /\ Looking /\ References /\ Counted /\ Whole
    /\ CalmLook /\ CalmDone /\ StillSound /\ StillLook /\ StillRead /\ StillHolds

-----------------------------------------------------------------------------
(* The ports in order.                                                     *)

LEMMA Order ==
    ASSUME TypeOK
    PROVE  /\ Len(PortOrder) \in Nat /\ i \in Nat
           /\ i <= Len(PortOrder) => Port \in Ports /\ ~Done(Port)
           /\ i > Len(PortOrder) => \A p \in Ports : Done(p)
<1>1. Len(PortOrder) \in Nat
  BY EvidenceAssumption
<1>2. i \in 1..(Len(PortOrder) + 1)
  BY DEF TypeOK
<1>3. ASSUME i <= Len(PortOrder) PROVE Port \in Ports /\ ~Done(Port)
  BY <1>1, <1>2, <1>3, EvidenceAssumption DEF Port, Ports, Done
<1>4. ASSUME i > Len(PortOrder), NEW p \in Ports PROVE Done(p)
  BY <1>1, <1>2, <1>4 DEF Ports, Done
<1> QED
  BY <1>1, <1>2, <1>3, <1>4

LEMMA Onward ==
    ASSUME TypeOK, i <= Len(PortOrder), i' = i + 1
    PROVE  /\ i' \in 1..(Len(PortOrder) + 1)
           /\ \A p : Done(p)' <=> (Done(p) \/ p = Port)
<1>1. Len(PortOrder) \in Nat /\ i \in 1..(Len(PortOrder) + 1)
  BY EvidenceAssumption DEF TypeOK
<1> QED
  BY <1>1 DEF Done, Port

LEMMA Bytes ==
    /\ Contents \subseteq Nat \ {0} /\ Revisions \subseteq Contents
    /\ MaxFile \in Nat /\ MaxTotal \in Nat /\ MaxChanges \in Nat
    /\ RecordSize = 1
    /\ Contents \cup {0, RecordSize} \subseteq Nat
  BY EvidenceAssumption DEF RecordSize

LEMMA EvidenceInit == Init => EvidenceInv
<1> SUFFICES ASSUME Init PROVE EvidenceInv
  OBVIOUS
<1>1. /\ stage = "start" /\ i = 1 /\ look = <<>> /\ remaining = MaxTotal
      /\ evidence = {} /\ omitted = {} /\ errors = {}
  BY DEF Init
<1>2. TypeOK
  <2>1. i \in 1..(Len(PortOrder) + 1)
    BY <1>1, EvidenceAssumption
  <2>2. log \in [Directories -> Contents \cup {0}]
    BY DEF Init
  <2>3. remaining \in 0..MaxTotal
    BY <1>1, Bytes
  <2> QED
    BY <1>1, <2>1, <2>2, <2>3, EvidenceAssumption DEF Init, TypeOK
<1>3. Control /\ Allowed /\ Looking /\ References /\ Whole
  BY <1>1 DEF Control, Allowed, Looking, References, Whole, IsFrozen
<1>4. Counted
  <2>1. IsFiniteSet({}) /\ Total({}) = 0
    BY FS_EmptySet, TotalSteps
  <2> QED
    BY <1>1, <2>1, Bytes DEF Counted
<1>5. CalmLook /\ CalmDone /\ StillSound /\ StillLook /\ StillRead /\ StillHolds
  BY <1>1 DEF CalmLook, CalmDone, StillSound, StillLook, StillRead, StillHolds
<1> QED
  BY <1>2, <1>3, <1>4, <1>5 DEF EvidenceInv

(* One reference more is in the count.                                     *)
LEMMA CountMore ==
    ASSUME TypeOK, Counted, NEW r, r \notin evidence, r.size \in Nat,
           NEW left \in Nat, r.size + left <= remaining
    PROVE  /\ IsFiniteSet(evidence \cup {r})
           /\ Total(evidence \cup {r}) + left <= MaxTotal
<1> DEFINE W == evidence \cup {r}
<1>1. IsFiniteSet(W) /\ W \ {r} = evidence
  BY FS_AddElement DEF Counted
<1>2. Sized(W)
  BY Bytes DEF TypeOK, Sized
<1>3. Total(evidence) \in Nat /\ Total(W) = r.size + Total(evidence)
  <2> HIDE DEF W
  <2>1. r \in W
    BY DEF W
  <2> QED
    BY <1>1, <1>2, <2>1, TotalAdds
<1>4. remaining \in Nat /\ Total(evidence) + remaining <= MaxTotal /\ MaxTotal \in Nat
  BY Bytes DEF TypeOK, Counted
<1> HIDE DEF W
<1> QED
  BY <1>1, <1>3, <1>4 DEF W

-----------------------------------------------------------------------------
(* Everybody else: what they change is not calm any more, and they cannot  *)
(* register a source while a call is in progress.                          *)
LEMMA ChangeKeeps ==
    ASSUME EvidenceInv, Work \/ WriteFile \/ NextCallDiffers
    PROVE  EvidenceInv'
<1>1. /\ calm' = FALSE /\ still' = FALSE /\ changes' = changes + 1
      /\ UNCHANGED <<now, asked, stage, i, ports, look, manifest, errors>>
      /\ stage # "frozen" => UNCHANGED registered
  BY DEF Work, WriteFile, NextCallDiffers, Changing
<1>2. TypeOK'
  <2> USE <1>1 DEF EvidenceInv, TypeOK, manifest
  <2>1. CASE Work
    <3>1. repo' \in [head : Revisions, tree : Revisions]
      BY <2>1 DEF Work
    <3> QED
      BY <2>1, <3>1 DEF Work
  <2>2. CASE WriteFile
    <3>1. /\ log' \in [Directories -> Contents \cup {0}]
          /\ doc' \in [Directories -> Contents \cup {0}]
      BY <2>2 DEF WriteFile
    <3> QED
      BY <2>2, <3>1 DEF WriteFile
  <2>3. CASE NextCallDiffers
    <3>1. registered' \subseteq Sources /\ pinned' \in [Producers -> Receipts \cup {0}]
      BY <2>3 DEF NextCallDiffers
    <3> QED
      BY <2>3, <3>1 DEF NextCallDiffers, files
  <2> QED
    BY <2>1, <2>2, <2>3
<1>3. Port' = Port /\ \A p : Done(p)' <=> Done(p)
  BY <1>1 DEF Port, Done
<1>4. \A p : Offer(p)' = Offer(p) /\ (Offered(p)' <=> Offered(p))
  BY <1>1 DEF Offer, Offered, asked
<1>5. Control'
  BY <1>1, <1>3 DEF EvidenceInv, Control, manifest
<1>6. Allowed'
  BY <1>1 DEF EvidenceInv, Allowed, OfferErrors, asked
<1>7. Looking'
  BY <1>1, <1>3, <1>4 DEF EvidenceInv, Looking
<1>8. References'
  BY <1>1, <1>3, <1>4 DEF EvidenceInv, References, manifest
<1>9. Counted'
  BY <1>1 DEF EvidenceInv, Counted, manifest
<1>10. Whole'
  BY <1>1, <1>3, <1>4 DEF EvidenceInv, Whole, Filled, Frozen, IsFrozen, manifest
<1>11. CalmLook' /\ CalmDone' /\ StillSound' /\ StillLook' /\ StillRead' /\ StillHolds'
  BY <1>1 DEF CalmLook, CalmDone, StillSound, StillLook, StillRead, StillHolds
<1> QED
  BY <1>2, <1>5, <1>6, <1>7, <1>8, <1>9, <1>10, <1>11 DEF EvidenceInv

-----------------------------------------------------------------------------
(* The stages of a call.                                                   *)

(* Narrowing drops no required port and leaves a port some of its sources. *)
LEMMA NarrowedAllows ==
    ASSUME NEW nw, MayDrop(nw), MayRestrict(nw)
    PROVE  /\ DOMAIN Narrowed(nw) \subseteq Ports
           /\ \A p \in Ports \ DOMAIN Narrowed(nw) : ~Required[p]
           /\ \A p \in DOMAIN Narrowed(nw) : Narrowed(nw)[p] \subseteq Scope[p]
<1> DEFINE D == {nw.dropped[k] : k \in 1..Len(nw.dropped)}
           R == {nw.restricted[k] : k \in 1..Len(nw.restricted)}
           Own(p) == {x \in R : x.port = p}
<1>1. DOMAIN Narrowed(nw) = Ports \ D
  BY DEF Narrowed
<1>2. \A p \in D : ~Required[p]
  BY DEF MayDrop
<1>3. \A x \in R : x.sources \subseteq Scope[x.port]
  BY DEF MayRestrict
<1>4. ASSUME NEW p \in Ports \ D PROVE Narrowed(nw)[p] \subseteq Scope[p]
  <2>1. Narrowed(nw)[p] = IF Own(p) = {} THEN Scope[p]
                          ELSE UNION {x.sources : x \in Own(p)}
    BY DEF Narrowed
  <2>2. \A x \in Own(p) : x.sources \subseteq Scope[p]
    BY <1>3
  <2> QED
    BY <2>1, <2>2
<1> QED
  BY <1>1, <1>2, <1>4

LEMMA BeginKeeps ==
    ASSUME EvidenceInv, Begin
    PROVE  EvidenceInv'
<1>1. /\ stage = "start" /\ evidence = {} /\ i = 1 /\ look = <<>>
      /\ TypeOK /\ References /\ Counted
      /\ UNCHANGED <<files, given, history, asked, i, look, manifest>>
      /\ stage' \in {"resolve", "refused"}
  BY DEF EvidenceInv, Control, Begin
<1>2. evidence' = {} /\ look' = <<>> /\ i' = 1
  BY <1>1 DEF manifest
<1>3. TypeOK'
  BY <1>1 DEF TypeOK, files, given, manifest
<1>4. stage' = "resolve" =>
         /\ MayDrop(narrowing) /\ MayRestrict(narrowing)
         /\ ports' = Narrowed(narrowing) /\ errors' = OfferErrors(DOMAIN ports')
  BY <1>1 DEF Begin
<1>5. \A S : OfferErrors(S)' = OfferErrors(S)
  BY <1>1 DEF OfferErrors, asked
<1>6. Allowed'
  <2>1. CASE stage' = "resolve"
    <3>1. /\ DOMAIN ports' \subseteq Ports
          /\ \A p \in Ports \ DOMAIN ports' : ~Required[p]
          /\ \A p \in DOMAIN ports' : ports'[p] \subseteq Scope[p]
      BY <1>4, <2>1, NarrowedAllows
    <3>2. OfferErrors(DOMAIN ports)' = OfferErrors(DOMAIN ports')
      BY <1>1 DEF OfferErrors, asked
    <3> QED
      BY <1>4, <2>1, <3>1, <3>2 DEF Allowed
  <2>2. CASE stage' = "refused"
    BY <2>2 DEF Allowed
  <2> QED
    BY <1>1, <2>1, <2>2
<1>7. Control' /\ Looking'
  BY <1>1, <1>2 DEF Control, Looking
<1>8. \A p : ~Done(p)'
  BY <1>2 DEF Done
<1>9. References'
  <2>1. omitted' = {}
    <3>1. stage = "start" => omitted = {}
      BY DEF EvidenceInv, Control
    <3> QED
      BY <1>1, <3>1 DEF manifest
  <2> QED
    BY <1>2, <2>1 DEF References
<1>10. Counted'
  BY <1>1 DEF Counted, manifest
<1>11. Whole'
  BY <1>1, <1>8 DEF Whole, IsFrozen
<1>12. CalmLook' /\ CalmDone' /\ StillSound' /\ StillLook' /\ StillRead' /\ StillHolds'
  BY <1>1, <1>2 DEF CalmLook, CalmDone, StillSound, StillLook, StillRead, StillHolds
<1> QED
  BY <1>3, <1>6, <1>7, <1>9, <1>10, <1>11, <1>12 DEF EvidenceInv

LEMMA FreezeKeeps ==
    ASSUME EvidenceInv, Freeze
    PROVE  EvidenceInv'
<1>1. /\ stage = "resolve" /\ i > Len(PortOrder) /\ i \in Nat
      /\ Len(PortOrder) \in Nat /\ TypeOK
      /\ stage' = IF errors = {} THEN "frozen" ELSE "refused"
      /\ UNCHANGED <<files, given, history, asked, i, ports, look, manifest, errors>>
  BY Order DEF EvidenceInv, Freeze
<1>2. look = <<>>
  BY <1>1 DEF EvidenceInv, Control
<1>3. \A p \in Ports : Done(p)
  BY <1>1, Order
<1>4. TypeOK'
  BY <1>1 DEF TypeOK, files, given, manifest
<1>5. Control' /\ Looking'
  BY <1>1, <1>2 DEF Control, Looking
<1>6. OfferErrors(DOMAIN ports)' = OfferErrors(DOMAIN ports)
  BY <1>1 DEF OfferErrors, asked
<1>7. Allowed'
  BY <1>1, <1>6 DEF EvidenceInv, Allowed
<1>8. \A p : Offer(p)' = Offer(p) /\ (Offered(p)' <=> Offered(p))
  BY <1>1 DEF Offer, Offered, asked
<1>9. References'
  BY <1>1, <1>8 DEF EvidenceInv, References, manifest
<1>10. Counted'
  BY <1>1 DEF EvidenceInv, Counted, manifest
<1>11. \A p : Filled(p)' <=> Filled(p)
  BY <1>1, <1>8 DEF Filled, Frozen, manifest
<1>12. Whole'
  BY <1>1, <1>3, <1>11 DEF EvidenceInv, Whole, IsFrozen
<1>13. CalmLook' /\ CalmDone' /\ StillLook' /\ StillRead' /\ StillHolds'
  BY <1>1, <1>2 DEF CalmLook, CalmDone, StillLook, StillRead, StillHolds
<1>14. StillSound'
  BY <1>1 DEF EvidenceInv, StillSound, Sound, files, given, history, manifest
<1> QED
  BY <1>4, <1>5, <1>7, <1>9, <1>10, <1>12, <1>13, <1>14 DEF EvidenceInv

LEMMA StartVerifyKeeps ==
    ASSUME EvidenceInv, StartVerify
    PROVE  EvidenceInv'
<1>1. /\ stage = "frozen" /\ stage' = "verify" /\ i' = 1 /\ TypeOK
      /\ now' \in Moments
      /\ UNCHANGED <<files, registered, pinned, changes, still, asked, ports,
                     look, manifest, errors>>
  BY DEF EvidenceInv, StartVerify
<1>2. look = <<>> /\ errors = {}
  BY <1>1 DEF EvidenceInv, Control
<1>3. \A p : ~Done(p)'
  BY <1>1 DEF Done
<1>4. TypeOK'
  <2>1. i' \in 1..(Len(PortOrder) + 1)
    BY <1>1, Order
  <2> QED
    BY <1>1, <2>1 DEF TypeOK, files, manifest
<1>5. Control' /\ Looking'
  BY <1>1, <1>2 DEF Control, Looking
<1>6. OfferErrors(DOMAIN ports)' = OfferErrors(DOMAIN ports)
  BY <1>1 DEF OfferErrors, asked
<1>7. Allowed'
  BY <1>1, <1>6 DEF EvidenceInv, Allowed
<1>8. \A p : Offer(p)' = Offer(p) /\ (Offered(p)' <=> Offered(p))
  BY <1>1 DEF Offer, Offered, asked
<1>9. References'
  BY <1>1, <1>8 DEF EvidenceInv, References, manifest
<1>10. Counted'
  BY <1>1 DEF EvidenceInv, Counted, manifest
<1>11. \A p : Filled(p)' <=> Filled(p)
  BY <1>1, <1>8 DEF Filled, Frozen, manifest
<1>12. Whole'
  BY <1>1, <1>11 DEF EvidenceInv, Whole, IsFrozen
<1>13. CalmLook' /\ CalmDone' /\ StillLook' /\ StillRead' /\ StillHolds'
  BY <1>1, <1>2, <1>3 DEF CalmLook, CalmDone, StillLook, StillRead, StillHolds
<1>14. StillSound'
  BY <1>1 DEF EvidenceInv, StillSound, Sound, files, manifest
<1> QED
  BY <1>4, <1>5, <1>7, <1>9, <1>10, <1>12, <1>13, <1>14 DEF EvidenceInv

LEMMA ReportKeeps ==
    ASSUME EvidenceInv, Report
    PROVE  EvidenceInv'
<1>1. /\ stage = "verify" /\ i > Len(PortOrder) /\ i \in Nat
      /\ Len(PortOrder) \in Nat /\ TypeOK /\ stage' = "verified"
      /\ UNCHANGED <<files, given, history, asked, i, ports, look, manifest, errors>>
  BY Order DEF EvidenceInv, Report
<1>2. look = <<>>
  BY <1>1 DEF EvidenceInv, Control
<1>3. \A p : Done(p)' <=> Done(p)
  BY <1>1 DEF Done
<1>4. TypeOK'
  BY <1>1 DEF TypeOK, files, given, manifest
<1>5. Control' /\ Looking'
  BY <1>1, <1>2 DEF Control, Looking
<1>6. OfferErrors(DOMAIN ports)' = OfferErrors(DOMAIN ports)
  BY <1>1 DEF OfferErrors, asked
<1>7. Allowed'
  BY <1>1, <1>6 DEF EvidenceInv, Allowed
<1>8. \A p : Offer(p)' = Offer(p) /\ (Offered(p)' <=> Offered(p))
  BY <1>1 DEF Offer, Offered, asked
<1>9. References'
  BY <1>1, <1>8 DEF EvidenceInv, References, manifest
<1>10. Counted'
  BY <1>1 DEF EvidenceInv, Counted, manifest
<1>11. \A p : Filled(p)' <=> Filled(p)
  BY <1>1, <1>8 DEF Filled, Frozen, manifest
<1>12. Whole'
  BY <1>1, <1>11 DEF EvidenceInv, Whole, IsFrozen
<1>13. CalmLook' /\ StillLook' /\ StillRead'
  BY <1>1, <1>2 DEF CalmLook, StillLook, StillRead
<1>14. StillSound' /\ StillHolds'
  BY <1>1 DEF EvidenceInv, StillSound, StillHolds, Sound, files, given, history, manifest
<1>15. CalmDone'
  <2>1. \A r : Current(r)' <=> Current(r)
    BY <1>1 DEF Current, Usable, files, given
  <2> QED
    BY <1>1, <1>3, <2>1 DEF EvidenceInv, CalmDone, given, history, manifest
<1> QED
  BY <1>4, <1>5, <1>7, <1>9, <1>10, <1>12, <1>13, <1>14, <1>15 DEF EvidenceInv

-----------------------------------------------------------------------------
(* Leaving a port while resolving, with the reference found or without.    *)

New(r) ==
    /\ r.port = Port /\ Port \in DOMAIN ports
    /\ r.source \in ports[Port] \cap (Sources \cup Producers)
    /\ Offered(Port) => r.source = Offer(Port).source
    /\ Kind[Port] \in {"code", "logs", "proofs"}
    /\ r.until \in Moments \cup {Forever}
    /\ r.size \in Contents \cup {0, RecordSize}
    /\ still => Sound(r)

LEMMA ResolveLeaves ==
    ASSUME EvidenceInv, At("resolve"), Leave,
           NEW r, NEW E, E = {} \/ E = {r}, evidence' = evidence \cup E,
           E # {} => New(r) /\ r.size + remaining' <= remaining,
           remaining' \in 0..MaxTotal, remaining' <= remaining,
           \/ omitted' = omitted
           \/ E = {} /\ omitted' = omitted \cup {Port},
           errors' = errors \/ errors' = errors \cup {Port},
           errors' = {} => \/ Port \notin DOMAIN ports \/ E # {}
                           \/ ~Required[Port] /\ ~Offered(Port)
    PROVE  EvidenceInv'
<1>1. /\ stage = "resolve" /\ i <= Len(PortOrder) /\ TypeOK
      /\ stage' = "resolve" /\ i' = i + 1 /\ look' = <<>>
      /\ UNCHANGED <<files, given, history, asked, ports>>
  BY DEF EvidenceInv, At, Leave
<1>2. /\ Port \in Ports /\ ~Done(Port)
      /\ i' \in 1..(Len(PortOrder) + 1)
      /\ \A p : Done(p)' <=> (Done(p) \/ p = Port)
  BY <1>1, Order, Onward
<1>3. \A p : Offer(p)' = Offer(p) /\ (Offered(p)' <=> Offered(p))
  BY <1>1 DEF Offer, Offered, asked
<1>4. TypeOK'
  <2>1. \A x \in evidence' :
           /\ x.port \in Ports /\ x.source \in Sources \cup Producers
           /\ x.until \in Moments \cup {Forever}
           /\ x.size \in Contents \cup {0, RecordSize}
    BY <1>1, <1>2 DEF TypeOK, New
  <2>2. omitted' \subseteq Ports
    BY <1>1, <1>2 DEF TypeOK
  <2> QED
    BY <1>1, <1>2, <2>1, <2>2 DEF TypeOK, files, given
<1>5. Control' /\ Looking'
  <2>1. i \in Nat /\ i' # 1 /\ Len(PortOrder) \in Nat
    BY <1>1, Order DEF TypeOK
  <2> QED
    BY <1>1, <2>1 DEF Control, Looking
<1>6. Allowed'
  BY <1>1 DEF EvidenceInv, Allowed, OfferErrors, asked
<1>7. \A x \in evidence : x.port # Port
  BY <1>1, <1>2 DEF EvidenceInv, References
<1>8. References'
  <2>1. Port \notin omitted
    BY <1>1, <1>2 DEF EvidenceInv, References
  <2>2. \A x \in evidence' :
          /\ x.port \in DOMAIN ports' \ omitted'
          /\ x.source \in ports'[x.port]
          /\ Offered(x.port)' => x.source = Offer(x.port)'.source
          /\ Kind[x.port] \in {"code", "logs", "proofs"}
    <3>1. ASSUME NEW x \in evidence
          PROVE  /\ x.port \in DOMAIN ports' \ omitted'
                 /\ x.source \in ports'[x.port]
                 /\ Offered(x.port)' => x.source = Offer(x.port)'.source
                 /\ Kind[x.port] \in {"code", "logs", "proofs"}
      BY <1>1, <1>3, <1>7 DEF EvidenceInv, References
    <3>2. ASSUME E = {r}
          PROVE  /\ r.port \in DOMAIN ports' \ omitted'
                 /\ r.source \in ports'[r.port]
                 /\ Offered(r.port)' => r.source = Offer(r.port)'.source
                 /\ Kind[r.port] \in {"code", "logs", "proofs"}
      BY <1>1, <1>3, <2>1, <3>2 DEF New
    <3> QED
      BY <3>1, <3>2
  <2>3. \A x, y \in evidence' : x.port = y.port => x = y
    <3>1. \A x, y \in evidence : x.port = y.port => x = y
      BY DEF EvidenceInv, References
    <3>2. E # {} => r.port = Port
      BY DEF New
    <3> QED
      BY <1>7, <3>1, <3>2
  <2>4. (\A x \in evidence' : Done(x.port)') /\ (\A p \in omitted' : Done(p)')
    <3>1. (\A x \in evidence : Done(x.port)) /\ (\A p \in omitted : Done(p))
      BY <1>1 DEF EvidenceInv, References
    <3>2. E # {} => r.port = Port
      BY DEF New
    <3> QED
      BY <1>2, <3>1, <3>2
  <2> QED
    BY <2>2, <2>3, <2>4 DEF References
<1>9. Counted'
  <2>1. Counted /\ remaining \in Nat /\ remaining' \in Nat /\ MaxTotal \in Nat
    BY <1>1, Bytes DEF EvidenceInv, TypeOK
  <2>2. CASE E = {}
    <3>1. evidence' = evidence
      BY <2>2
    <3>2. Total(evidence) \in Nat
      <4>1. Sized(evidence)
        BY <1>1, Bytes DEF TypeOK, Sized
      <4> QED
        BY <2>1, <4>1, TotalNat DEF Counted
    <3>3. IsFiniteSet(evidence) /\ Total(evidence) + remaining' <= MaxTotal
      BY <2>1, <3>2 DEF Counted
    <3>4. IsFiniteSet(evidence') /\ Total(evidence') + remaining' <= MaxTotal
      BY <3>1, <3>3
    <3> QED
      BY <3>4 DEF Counted
  <2>3. CASE E = {r}
    <3>1. r \notin evidence /\ r.size \in Nat /\ r.size + remaining' <= remaining
      BY <1>7, <2>3, Bytes DEF New
    <3>2. /\ IsFiniteSet(evidence \cup {r})
          /\ Total(evidence \cup {r}) + remaining' <= MaxTotal
      BY <1>1, <2>1, <3>1, CountMore
    <3> QED
      BY <2>3, <3>2 DEF Counted
  <2> QED
    BY <2>2, <2>3
<1>10. Whole'
  <2>1. ASSUME errors' = {}, NEW p \in Ports, Done(p)' PROVE Filled(p)'
    <3>1. errors = {}
      BY <2>1
    <3>2. CASE Done(p)
      <4>1. Filled(p)
        BY <1>1, <3>1, <3>2 DEF EvidenceInv, Whole
      <4>2. Frozen(p) \subseteq Frozen(p)'
        BY DEF Frozen
      <4> QED
        BY <1>1, <1>3, <4>1, <4>2 DEF Filled
    <3>3. CASE p = Port
      <4>1. E # {} => Frozen(p)' # {}
        BY <3>3 DEF Frozen, New
      <4>2. \/ p \notin DOMAIN ports \/ E # {}
            \/ ~Required[p] /\ ~Offered(p)
        BY <2>1, <3>3
      <4> QED
        BY <1>1, <1>3, <4>1, <4>2 DEF Filled
    <3> QED
      BY <1>2, <2>1, <3>2, <3>3
  <2> QED
    BY <1>1, <2>1 DEF Whole, IsFrozen
<1>11. CalmLook' /\ CalmDone' /\ StillLook' /\ StillRead' /\ StillHolds'
  BY <1>1 DEF CalmLook, CalmDone, StillLook, StillRead, StillHolds
<1>12. StillSound'
  <2>1. \A x : Sound(x)' <=> Sound(x)
    BY <1>1 DEF Sound, files, given
  <2>2. still' => still
    BY <1>1 DEF history
  <2>3. still => \A x \in evidence : Sound(x)
    BY DEF EvidenceInv, StillSound
  <2>4. E # {} /\ still => Sound(r)
    BY DEF New
  <2> QED
    BY <2>1, <2>2, <2>3, <2>4 DEF StillSound
<1> QED
  BY <1>4, <1>5, <1>6, <1>8, <1>9, <1>10, <1>11, <1>12 DEF EvidenceInv

LEMMA RefuseKeeps ==
    ASSUME EvidenceInv, At("resolve"), Refuse
    PROVE  EvidenceInv'
<1>1. /\ Leave /\ errors' = errors \cup {Port}
      /\ evidence' = evidence \cup {} /\ remaining' = remaining /\ omitted' = omitted
  BY DEF Refuse, manifest
<1>2. remaining \in 0..MaxTotal /\ remaining <= remaining
  BY Bytes DEF EvidenceInv, TypeOK
<1>3. errors' # {}
  BY <1>1
<1> QED
  BY <1>1, <1>2, <1>3, ResolveLeaves

LEMMA FillKeeps ==
    ASSUME EvidenceInv, At("resolve"), errors' = errors,
           NEW source, NEW subject, NEW until, NEW size,
           Fill(source, subject, until, size),
           size \in Nat, size <= remaining,
           New([port |-> Port, source |-> source, subject |-> subject,
                until |-> until, size |-> size])
    PROVE  EvidenceInv'
<1> DEFINE r == [port |-> Port, source |-> source, subject |-> subject,
                 until |-> until, size |-> size]
<1>1. /\ Leave /\ evidence' = evidence \cup {r} /\ omitted' = omitted
      /\ remaining' = remaining - size /\ r.size = size /\ New(r)
  BY DEF Fill
<1>2. remaining \in 0..MaxTotal /\ MaxTotal \in Nat
  BY Bytes DEF EvidenceInv, TypeOK
<1>3. /\ remaining' \in 0..MaxTotal /\ remaining' <= remaining
      /\ size + remaining' <= remaining
  BY <1>1, <1>2
<1> HIDE DEF r
<1>4. {r} # {}
  OBVIOUS
<1> QED
  BY <1>1, <1>3, <1>4, ResolveLeaves

LEMMA SkipDroppedKeeps ==
    ASSUME EvidenceInv, SkipDropped
    PROVE  EvidenceInv'
<1>1. /\ At("resolve") /\ Leave /\ Port \notin DOMAIN ports /\ errors' = errors
      /\ evidence' = evidence \cup {} /\ remaining' = remaining /\ omitted' = omitted
  BY DEF SkipDropped, manifest
<1>2. remaining \in 0..MaxTotal /\ remaining <= remaining
  BY Bytes DEF EvidenceInv, TypeOK
<1> QED
  BY <1>1, <1>2, ResolveLeaves

LEMMA ResolveProofKeeps ==
    ASSUME EvidenceInv, ResolveProof
    PROVE  EvidenceInv'
<1> DEFINE matches == {n \in Producers \cap ports[Port] : pinned[n] # 0}
<1>1. /\ At("resolve") /\ Kind[Port] = "proofs" /\ Port \in DOMAIN ports
  BY DEF ResolveProof, Resolving
<1>2. \/ ~Offered(Port) /\ \E n \in matches : Fill(n, <<pinned[n]>>, Forever, 0)
      \/ Refuse
  BY DEF ResolveProof
<1>3. ASSUME ~Offered(Port), NEW n \in matches, Fill(n, <<pinned[n]>>, Forever, 0)
      PROVE  EvidenceInv'
  <2> DEFINE r == [port |-> Port, source |-> n, subject |-> <<pinned[n]>>,
                   until |-> Forever, size |-> 0]
  <2>1. /\ r.port = Port /\ r.source = n /\ r.subject = <<pinned[n]>>
        /\ r.until = Forever /\ r.size = 0
    OBVIOUS
  <2>2. still => Sound(r)
    BY <1>1, <2>1 DEF Sound
  <2>3. New(r)
    <3> HIDE DEF r
    <3> QED
      BY <1>1, <1>3, <2>1, <2>2 DEF New
  <2>4. 0 <= remaining /\ errors' = errors
    BY <1>3, Bytes DEF EvidenceInv, TypeOK, Fill
  <2> QED
    BY <1>1, <1>3, <2>3, <2>4, FillKeeps
<1> QED
  BY <1>1, <1>2, <1>3, RefuseKeeps

LEMMA ResolveNothingKeeps ==
    ASSUME EvidenceInv, ResolveNothing
    PROVE  EvidenceInv'
<1>1. At("resolve") /\ ~Offered(Port)
  BY DEF ResolveNothing, Resolving
<1>2. CASE Refuse
  BY <1>1, <1>2, RefuseKeeps
<1>3. CASE ~Required[Port] /\ Leave /\ omitted' = omitted \cup {Port}
           /\ UNCHANGED <<remaining, evidence, errors>>
  <2>1. evidence' = evidence \cup {} /\ remaining' = remaining /\ errors' = errors
    BY <1>3
  <2>2. remaining \in 0..MaxTotal /\ remaining <= remaining
    BY Bytes DEF EvidenceInv, TypeOK
  <2> QED
    BY <1>1, <1>3, <2>1, <2>2, ResolveLeaves
<1> QED
  BY <1>2, <1>3 DEF ResolveNothing

(* A capture appends what it sees to what it saw.                          *)
LEMMA AppendIs ==
    ASSUME NEW S, NEW s \in Seq(S), NEW e \in S, NEW t \in Seq(S),
           Len(t) = Len(s) + 1, \A k \in 1..Len(s) : t[k] = s[k],
           t[Len(s) + 1] = e
    PROVE  Append(s, e) = t
<1>1. /\ Append(s, e) \in Seq(S) /\ Len(Append(s, e)) = Len(s) + 1
      /\ \A k \in 1..Len(s) : Append(s, e)[k] = s[k]
      /\ Append(s, e)[Len(s) + 1] = e
  BY AppendProperties
<1>2. \A k \in 1..Len(t) : Append(s, e)[k] = t[k]
  BY <1>1
<1> QED
  BY <1>1, <1>2, SeqEqual

LEMMA Appended1 ==
    ASSUME NEW a, NEW x
    PROVE  Append(<<a>>, x) = <<a, x>>
<1> DEFINE S == {a, x}
           s == <<a>>
           t == <<a, x>>
<1>1. s \in Seq(S) /\ t \in Seq(S) /\ Len(s) = 1 /\ Len(t) = 2 /\ x \in S
  OBVIOUS
<1>2. (\A k \in 1..1 : t[k] = s[k]) /\ t[2] = x
  OBVIOUS
<1> HIDE DEF S, s, t
<1>3. /\ Len(t) = Len(s) + 1 /\ t[Len(s) + 1] = x
      /\ \A k \in 1..Len(s) : t[k] = s[k]
  BY <1>1, <1>2
<1> QED
  BY <1>1, <1>3, AppendIs DEF s, t

LEMMA Appended2 ==
    ASSUME NEW a, NEW b, NEW x
    PROVE  Append(<<a, b>>, x) = <<a, b, x>>
<1> DEFINE S == {a, b, x}
           s == <<a, b>>
           t == <<a, b, x>>
<1>1. s \in Seq(S) /\ t \in Seq(S) /\ Len(s) = 2 /\ Len(t) = 3 /\ x \in S
  OBVIOUS
<1>2. (\A k \in 1..2 : t[k] = s[k]) /\ t[3] = x
  OBVIOUS
<1> HIDE DEF S, s, t
<1>3. /\ Len(t) = Len(s) + 1 /\ t[Len(s) + 1] = x
      /\ \A k \in 1..Len(s) : t[k] = s[k]
  BY <1>1, <1>2
<1> QED
  BY <1>1, <1>3, AppendIs DEF s, t

LEMMA Appended3 ==
    ASSUME NEW a, NEW b, NEW c, NEW x
    PROVE  Append(<<a, b, c>>, x) = <<a, b, c, x>>
<1> DEFINE S == {a, b, c, x}
           s == <<a, b, c>>
           t == <<a, b, c, x>>
<1>1. s \in Seq(S) /\ t \in Seq(S) /\ Len(s) = 3 /\ Len(t) = 4 /\ x \in S
  OBVIOUS
<1>2. (\A k \in 1..3 : t[k] = s[k]) /\ t[4] = x
  OBVIOUS
<1> HIDE DEF S, s, t
<1>3. /\ Len(t) = Len(s) + 1 /\ t[Len(s) + 1] = x
      /\ \A k \in 1..Len(s) : t[k] = s[k]
  BY <1>1, <1>2
<1> QED
  BY <1>1, <1>3, AppendIs DEF s, t

LEMMA FinishCodeKeeps ==
    ASSUME EvidenceInv, FinishCode
    PROVE  EvidenceInv'
<1> DEFINE s == Offer(Port).source
           r == [port |-> Port, source |-> s, subject |-> Subject,
                 until |-> Forever, size |-> RecordSize]
<1>1. /\ At("resolve") /\ stage = "resolve" /\ Kind[Port] = "code" /\ Len(look) = 3
      /\ look # <<>>
  BY DEF FinishCode, At
<1>2. \/ RecordSize <= remaining /\ Fill(s, Subject, Forever, RecordSize)
      \/ Refuse
  BY DEF FinishCode, Room
<1>3. ASSUME RecordSize <= remaining, Fill(s, Subject, Forever, RecordSize)
      PROVE  EvidenceInv'
  <2>1. /\ r.port = Port /\ r.source = s /\ r.subject = Subject
        /\ r.until = Forever /\ r.size = RecordSize
    OBVIOUS
  <2>2. /\ Port \in DOMAIN ports /\ s \in ports[Port] \cap registered
        /\ s \in Repositories /\ Port \in WellTyped
    BY <1>1 DEF EvidenceInv, Looking
  <2>3. look = <<look[1], look[2], look[3]>>
    <3>1. \/ look = <<look[1]>> \/ look = <<look[1], look[2]>>
          \/ look = <<look[1], look[2], look[3]>>
      BY <1>1 DEF EvidenceInv, Control
    <3> QED
      BY <1>1, <3>1
  <2>4. Subject = <<look[1], look[2], look[3], CandidateContent>>
    <3> HIDE DEF r, s
    <3>1. Subject = Append(<<look[1], look[2], look[3]>>, CandidateContent)
      BY <2>3 DEF Subject
    <3> QED
      BY <3>1, Appended3
  <2>5. ASSUME still PROVE Sound(r)
    <3>1. CASE Offer(Port).item = 0
      <4>1. TreeSeen
        BY <1>1, <2>5, <3>1 DEF EvidenceInv, StillLook
      <4>2. /\ look[1] = repo.head /\ look[3] = CandidateContent
            /\ look[2] = IF repo.tree = repo.head THEN "commit" ELSE "working_tree"
        BY <1>1, <4>1 DEF TreeSeen
      <4>3. CASE repo.tree = repo.head
        <5>1. repo.head # 0
          BY Bytes DEF EvidenceInv, TypeOK
        <5>2. Subject = <<repo.head, "commit", repo.head, repo.head>>
          BY <2>4, <4>2, <4>3 DEF CandidateContent
        <5> HIDE DEF r
        <5> QED
          BY <1>1, <2>1, <2>2, <5>1, <5>2 DEF Sound
      <4>4. CASE repo.tree # repo.head
        <5>1. Subject = <<repo.head, "working_tree", repo.tree, repo.tree>>
          BY <2>4, <4>2, <4>4 DEF CandidateContent
        <5> HIDE DEF r
        <5> QED
          BY <1>1, <2>1, <2>2, <4>4, <5>1 DEF Sound
      <4> QED
        BY <4>3, <4>4
    <3>2. CASE Offer(Port).item # 0
      <4> DEFINE c == Offer(Port).item
      <4>1. look = <<c, "commit", c>>
        <5>1. look = <<c, "commit">> \/ look = <<c, "commit", c>>
          BY <1>1, <2>5, <3>2 DEF EvidenceInv, StillLook
        <5> HIDE DEF c
        <5> QED
          BY <1>1, <5>1
      <4>2. Subject = <<c, "commit", c, c>>
        <5> HIDE DEF c
        <5> QED
          BY <2>4, <4>1 DEF CandidateContent
      <4> HIDE DEF r, c
      <4> QED
        BY <1>1, <2>1, <2>2, <3>2, <4>2 DEF Sound, c
    <3> QED
      BY <3>1, <3>2
  <2>6. s \in Sources
    BY <2>2 DEF Sources
  <2>7. New(r)
    <3> HIDE DEF r
    <3> QED
      BY <1>1, <2>1, <2>2, <2>5, <2>6 DEF New
  <2>8. RecordSize \in Nat /\ errors' = errors
    BY <1>3, Bytes DEF Fill
  <2> HIDE DEF s
  <2> QED
    BY <1>1, <1>3, <2>7, <2>8, FillKeeps
<1> QED
  BY <1>1, <1>2, <1>3, RefuseKeeps

LEMMA FinishLogKeeps ==
    ASSUME EvidenceInv, FinishLog
    PROVE  EvidenceInv'
<1> DEFINE s == Offer(Port).source
           r == [port |-> Port, source |-> s, subject |-> <<log[s]>>,
                 until |-> Until[s], size |-> log[s]]
<1>1. At("resolve") /\ stage = "resolve" /\ Kind[Port] = "logs" /\ look # <<>>
  BY DEF FinishLog, At
<1>2. \/ log[s] # 0 /\ Fits(log[s]) /\ Fill(s, <<log[s]>>, Until[s], log[s])
      \/ /\ Fits(log[s]) /\ Leave /\ errors' = errors \cup {Port}
         /\ remaining' = remaining - log[s]
         /\ UNCHANGED <<evidence, omitted>>
      \/ Refuse
  BY DEF FinishLog
<1>3. /\ Port \in DOMAIN ports /\ s \in ports[Port] \cap registered
      /\ s \in Directories /\ Offered(Port)
  BY <1>1 DEF EvidenceInv, Looking
<1>4. /\ log[s] \in Contents \cup {0} /\ log[s] \in Nat
      /\ remaining \in 0..MaxTotal /\ MaxTotal \in Nat /\ MaxFile \in Nat
      /\ Until[s] \in Moments \cup {Forever}
  BY <1>3, Bytes, EvidenceAssumption DEF EvidenceInv, TypeOK
<1>5. Fits(log[s]) => log[s] <= MaxFile /\ log[s] <= remaining
  BY DEF Fits, Room
<1>6. ASSUME log[s] # 0, Fits(log[s]), Fill(s, <<log[s]>>, Until[s], log[s])
      PROVE  EvidenceInv'
  <2>1. /\ r.port = Port /\ r.source = s /\ r.subject = <<log[s]>>
        /\ r.until = Until[s] /\ r.size = log[s]
    OBVIOUS
  <2>2. still => Attested[s] = 0 \/ doc[s] = Attested[s]
    BY <1>1 DEF EvidenceInv, StillLook, Usable
  <2>3. log[s] <= MaxTotal
    <3> HIDE DEF s
    <3> QED
      BY <1>4, <1>5, <1>6
  <2>4. still => Sound(r)
    <3> HIDE DEF r, s
    <3> QED
      BY <1>1, <1>3, <1>5, <1>6, <2>1, <2>2, <2>3 DEF Sound
  <2>5. s \in Sources
    BY <1>3 DEF Sources
  <2>6. New(r)
    <3> HIDE DEF r
    <3> QED
      BY <1>1, <1>3, <1>4, <2>1, <2>4, <2>5 DEF New
  <2>7. errors' = errors
    BY <1>6 DEF Fill
  <2> HIDE DEF s
  <2> QED
    BY <1>1, <1>4, <1>5, <1>6, <2>6, <2>7, FillKeeps
<1>7. ASSUME Fits(log[s]), Leave, errors' = errors \cup {Port},
             remaining' = remaining - log[s], UNCHANGED <<evidence, omitted>>
      PROVE  EvidenceInv'
  <2>1. evidence' = evidence \cup {} /\ omitted' = omitted /\ errors' # {}
    BY <1>7
  <2>2. remaining' \in 0..MaxTotal /\ remaining' <= remaining
    <3> HIDE DEF s
    <3> QED
      BY <1>4, <1>5, <1>7
  <2> QED
    BY <1>1, <1>7, <2>1, <2>2, ResolveLeaves
<1> QED
  BY <1>1, <1>2, <1>6, <1>7, RefuseKeeps

-----------------------------------------------------------------------------
(* The steps of a capture, and the beginnings of captures and reads.       *)

LEMMA JustLooks ==
    ASSUME EvidenceInv, Stay, Control', Looking', CalmLook', StillLook', StillRead'
    PROVE  EvidenceInv'
<1>1. UNCHANGED <<files, given, history, asked, stage, i, ports, manifest, errors>>
  BY DEF Stay
<1>2. TypeOK'
  BY <1>1 DEF EvidenceInv, TypeOK, files, given, manifest
<1>3. OfferErrors(DOMAIN ports)' = OfferErrors(DOMAIN ports)
  BY <1>1 DEF OfferErrors, asked
<1>4. Allowed'
  BY <1>1, <1>3 DEF EvidenceInv, Allowed
<1>5. \A p : /\ Offer(p)' = Offer(p) /\ (Offered(p)' <=> Offered(p))
             /\ Done(p)' <=> Done(p)
  BY <1>1 DEF Offer, Offered, Done, asked
<1>6. References'
  BY <1>1, <1>5 DEF EvidenceInv, References, manifest
<1>7. Counted'
  BY <1>1 DEF EvidenceInv, Counted, manifest
<1>8. \A p : Filled(p)' <=> Filled(p)
  BY <1>1, <1>5 DEF Filled, Frozen, manifest
<1>9. Whole'
  BY <1>1, <1>5, <1>8 DEF EvidenceInv, Whole, IsFrozen
<1>10. StillSound' /\ StillHolds'
  BY <1>1 DEF EvidenceInv, StillSound, StillHolds, Sound, files, given, history, manifest
<1>11. CalmDone'
  <2>1. \A r : Current(r)' <=> Current(r)
    BY <1>1 DEF Current, Usable, files, given
  <2> QED
    BY <1>1, <1>5, <2>1 DEF EvidenceInv, CalmDone, given, history, manifest
<1> QED
  BY <1>2, <1>4, <1>6, <1>7, <1>9, <1>10, <1>11 DEF EvidenceInv

(* A look is a commit, then its status, then its contents.                 *)
LEMMA Looks ==
    ASSUME Control, look # <<>>
    PROVE  /\ Len(look) = 1 => look = <<look[1]>>
           /\ Len(look) = 2 => look = <<look[1], look[2]>>
           /\ Len(look) = 3 => look = <<look[1], look[2], look[3]>>
<1>1. \/ look = <<look[1]>>
      \/ look = <<look[1], look[2]>>
      \/ look = <<look[1], look[2], look[3]>>
  BY DEF Control
<1>2. CASE look = <<look[1]>>
  BY <1>2
<1>3. CASE look = <<look[1], look[2]>>
  BY <1>3
<1>4. CASE look = <<look[1], look[2], look[3]>>
  BY <1>4
<1> QED
  BY <1>1, <1>2, <1>3, <1>4

LEMMA ResolveOfferKeeps ==
    ASSUME EvidenceInv, ResolveOffer
    PROVE  EvidenceInv'
<1> DEFINE o == Offer(Port)
<1>1. /\ At("resolve") /\ stage = "resolve" /\ i <= Len(PortOrder)
      /\ Port \in DOMAIN ports /\ Offered(Port) /\ Kind[Port] # "proofs"
  BY DEF ResolveOffer, Resolving, At
<1>2. ASSUME Accepted(Port, o), Stay,
             IF Kind[Port] = "code" THEN LookAt(o.item) ELSE look' = <<log[o.source]>>
      PROVE  EvidenceInv'
  <2>1. UNCHANGED <<files, given, history, asked, stage, i, ports, manifest, errors>>
    BY <1>2 DEF Stay
  <2>2. Port' = Port /\ Offer(Port)' = o /\ Offered(Port)' /\ stage' = "resolve"
    BY <1>1, <2>1 DEF Port, Offer, Offered, asked
  <2>3. /\ o.source \in ports[Port] \cap registered
        /\ \/ /\ Kind[Port] = "code" /\ o.source \in Repositories /\ Port \in WellTyped
           \/ /\ Kind[Port] = "logs" /\ o.source \in Directories /\ Usable(o.source)
    BY <1>2 DEF Accepted
  <2>4. \/ look' = <<look'[1]>> \/ look' = <<look'[1], look'[2]>>
    <3>1. CASE look' = <<repo.head>>
      BY <3>1
    <3>2. CASE look' = <<o.item, "commit">>
      BY <3>2
    <3>3. CASE look' = <<log[o.source]>>
      BY <3>3
    <3> QED
      BY <1>2, <3>1, <3>2, <3>3 DEF LookAt
  <2>5. Control'
    <3>1. i' <= Len(PortOrder) /\ Kind[Port'] \in {"code", "logs"}
      BY <1>1, <2>1, <2>2, <2>3
    <3>2. stage' = "resolve"
      BY <2>2
    <3> HIDE DEF o
    <3> QED
      BY <2>4, <3>1, <3>2 DEF Control
  <2>6. Looking'
    <3>1. Offer(Port)'.source = o.source
      BY <2>2
    <3> HIDE DEF o
    <3> QED
      BY <1>1, <2>1, <2>2, <2>3, <3>1 DEF Looking, given
  <2>7. StillLook'
    <3>1. ASSUME Kind[Port] = "code", o.item = 0 PROVE TreeSeen'
      <4>1. look' = <<repo.head>> /\ repo' = repo
        BY <1>2, <2>1, <3>1 DEF LookAt, files
      <4>2. look'[1] = repo.head /\ Len(look') = 1
        BY <4>1
      <4> QED
        BY <4>1, <4>2 DEF TreeSeen
    <3>2. Kind[Port] = "code" /\ o.item # 0 => look' = <<o.item, "commit">>
      BY <1>2 DEF LookAt
    <3>3. ASSUME NEW s, Usable(s) PROVE Usable(s)'
      BY <2>1, <3>3 DEF Usable, files, given
    <3>4. Kind[Port] = "logs" => Usable(Offer(Port).source)'
      <4>1. PICK s : s = o.source
        OBVIOUS
      <4>2. Kind[Port] = "logs" => Usable(s)'
        BY <2>3, <3>3, <4>1
      <4>3. Offer(Port)'.source = s
        BY <2>2, <4>1
      <4> HIDE DEF o
      <4> QED
        BY <4>2, <4>3 DEF Usable
    <3>5. Offer(Port)'.item = o.item
      BY <2>2
    <3> HIDE DEF o
    <3> QED
      BY <2>2, <3>1, <3>2, <3>4, <3>5 DEF StillLook
  <2>8. CalmLook' /\ StillRead'
    BY <2>2 DEF CalmLook, StillRead
  <2> QED
    BY <1>2, <2>5, <2>6, <2>7, <2>8, JustLooks
<1>3. CASE Refuse
  BY <1>1, <1>3, RefuseKeeps
<1> QED
  BY <1>2, <1>3 DEF ResolveOffer

(* Each step sees what is there.                                           *)
LEMMA CaptureSees ==
    ASSUME Control, AskStatus \/ ReadContent, repo' = repo
    PROVE  /\ look # <<>> /\ TreeSeen => TreeSeen'
           /\ \/ /\ AskStatus /\ Len(look) = 1 /\ look = <<look[1]>>
                 /\ look' = <<look[1], IF repo.tree = repo.head
                                       THEN "commit" ELSE "working_tree">>
              \/ /\ ReadContent /\ Len(look) = 2 /\ look = <<look[1], look[2]>>
                 /\ look' = <<look[1], look[2], CandidateContent>>
<1>1. CASE AskStatus
  <2> DEFINE status == IF repo.tree = repo.head THEN "commit" ELSE "working_tree"
  <2>1. Len(look) = 1 /\ look # <<>> /\ look' = Append(look, status)
    <3>1. Len(look) = 1 /\ look' = Append(look, status)
      BY <1>1 DEF AskStatus, LookedUp
    <3>2. look # <<>>
      <4>1. Len(look) = 1
        BY <3>1
      <4> QED
        BY <4>1
    <3> QED
      BY <3>1, <3>2
  <2>2. look = <<look[1]>>
    BY <2>1, Looks
  <2>3. Append(<<look[1]>>, status) = <<look[1], status>>
    <3> HIDE DEF status
    <3> QED
      BY Appended1
  <2>4. look' = <<look[1], status>>
    BY <2>1, <2>2, <2>3
  <2>5. look'[1] = look[1] /\ look'[2] = status /\ Len(look') = 2
    BY <2>4
  <2>6. TreeSeen => TreeSeen'
    <3>1. TreeSeen => look'[1] = repo'.head
      BY <2>5 DEF TreeSeen
    <3>2. look'[2] = IF repo'.tree = repo'.head THEN "commit" ELSE "working_tree"
      BY <2>5
    <3>3. Len(look') # 3
      BY <2>5
    <3> QED
      BY <3>1, <3>2, <3>3 DEF TreeSeen
  <2> QED
    BY <1>1, <2>1, <2>2, <2>4, <2>6
<1>2. CASE ReadContent
  <2>1. Len(look) = 2 /\ look # <<>> /\ look' = Append(look, CandidateContent)
    BY <1>2 DEF ReadContent
  <2>2. look = <<look[1], look[2]>>
    BY <2>1, Looks
  <2>3. Append(<<look[1], look[2]>>, CandidateContent)
           = <<look[1], look[2], CandidateContent>>
    BY Appended2
  <2>4. look' = <<look[1], look[2], CandidateContent>>
    BY <2>1, <2>2, <2>3
  <2>5. /\ look'[1] = look[1] /\ look'[2] = look[2] /\ Len(look') = 3
        /\ look'[3] = CandidateContent
    BY <2>4
  <2>6. CandidateContent' = CandidateContent
    BY <2>5 DEF CandidateContent
  <2>7. TreeSeen => TreeSeen'
    BY <2>1, <2>5, <2>6 DEF TreeSeen
  <2> QED
    BY <1>2, <2>1, <2>2, <2>4, <2>7
<1> QED
  BY <1>1, <1>2

LEMMA CaptureKeeps ==
    ASSUME EvidenceInv, Capture
    PROVE  EvidenceInv'
<1>1. /\ stage \in {"resolve", "verify"} /\ i <= Len(PortOrder)
      /\ Kind[Port] = "code" /\ Stay /\ Control
      /\ AskStatus \/ ReadContent
  BY DEF EvidenceInv, Capture, At
<1>2. UNCHANGED <<files, given, history, asked, stage, i, ports, manifest, errors>>
  BY <1>1 DEF Stay
<1>3. repo' = repo
  BY <1>2 DEF files
<1>4. /\ \/ /\ AskStatus /\ Len(look) = 1 /\ look = <<look[1]>>
            /\ look' = <<look[1], IF repo.tree = repo.head
                                  THEN "commit" ELSE "working_tree">>
         \/ /\ ReadContent /\ Len(look) = 2 /\ look = <<look[1], look[2]>>
            /\ look' = <<look[1], look[2], CandidateContent>>
      /\ look # <<>> /\ TreeSeen => TreeSeen'
  BY <1>1, <1>3, CaptureSees
<1>5. look # <<>>
  <2>1. CASE look = <<look[1]>>
    BY <2>1
  <2>2. CASE look = <<look[1], look[2]>>
    BY <2>2
  <2> QED
    BY <1>4, <2>1, <2>2
<1>6. Port' = Port /\ Offer(Port)' = Offer(Port) /\ Frozen(Port)' = Frozen(Port)
      /\ (Offered(Port)' <=> Offered(Port))
  BY <1>2 DEF Port, Offer, Offered, Frozen, asked, manifest
<1>7. Control'
  <2>1. \/ look' = <<look'[1]>>
        \/ look' = <<look'[1], look'[2]>>
        \/ look' = <<look'[1], look'[2], look'[3]>>
    <3> DEFINE status == IF repo.tree = repo.head THEN "commit" ELSE "working_tree"
    <3>1. CASE look' = <<look[1], status>>
      BY <3>1
    <3>2. CASE look' = <<look[1], look[2], CandidateContent>>
      BY <3>2
    <3> QED
      BY <1>4, <3>1, <3>2
  <2>2. stage = "verify" \/ stage = "resolve"
    BY <1>1
  <2> QED
    BY <1>1, <1>2, <1>6, <2>1, <2>2 DEF Control
<1>8. Looking'
  BY <1>1, <1>2, <1>5, <1>6 DEF EvidenceInv, Looking, given
<1>9. CalmLook'
  <2>1. ASSUME stage = "verify", calm, NEW r \in Frozen(Port), r.subject[2] # "commit"
        PROVE  TreeSeen'
    BY <1>1, <1>4, <1>5, <2>1 DEF EvidenceInv, CalmLook
  <2> QED
    BY <1>1, <1>2, <1>6, <2>1 DEF CalmLook, history
<1>10. StillLook'
  <2> DEFINE o == Offer(Port)
  <2>1. ASSUME still, stage = "resolve", o.item = 0 PROVE TreeSeen'
    BY <1>1, <1>4, <1>5, <2>1 DEF EvidenceInv, StillLook
  <2>2. ASSUME still, stage = "resolve", o.item # 0
        PROVE  look' = <<o.item, "commit", o.item>>
    <3>1. look = <<o.item, "commit">> \/ look = <<o.item, "commit", o.item>>
      BY <1>1, <1>5, <2>2 DEF EvidenceInv, StillLook
    <3> HIDE DEF o
    <3>2. Len(look) # 1
      <4>1. CASE look = <<o.item, "commit">>
        BY <4>1
      <4>2. CASE look = <<o.item, "commit", o.item>>
        BY <4>2
      <4> QED
        BY <3>1, <4>1, <4>2
    <3>3. Len(look) = 2 /\ look' = <<look[1], look[2], CandidateContent>>
      BY <1>4, <3>2
    <3>4. look[1] = o.item /\ look[2] = "commit"
      <4>1. CASE look = <<o.item, "commit">>
        BY <4>1
      <4>2. CASE look = <<o.item, "commit", o.item>>
        BY <4>2
      <4> QED
        BY <3>1, <4>1, <4>2
    <3>5. CandidateContent = o.item
      BY <3>4 DEF CandidateContent
    <3> QED
      BY <3>3, <3>4, <3>5
  <2>3. Offer(Port)' = o
    BY <1>6
  <2> HIDE DEF o
  <2> QED
    BY <1>1, <1>2, <1>6, <2>1, <2>2, <2>3 DEF StillLook, history
<1>11. StillRead'
  <2>1. ASSUME still, stage = "verify", NEW r \in Frozen(Port)
        PROVE  \/ look' = <<r.subject[1], r.subject[2]>>
               \/ look' = <<r.subject[1], r.subject[2], r.subject[3]>>
    <3> DEFINE s == r.subject
    <3>1. \/ look = <<s[1]>> /\ s[2] # "commit"
          \/ look = <<s[1], s[2]>>
          \/ look = <<s[1], s[2], s[3]>>
      BY <1>1, <1>5, <2>1 DEF EvidenceInv, StillRead
    <3>2. \/ \E c : c # 0 /\ s = <<c, "commit", c, c>>
          \/ /\ repo.head # repo.tree
             /\ s = <<repo.head, "working_tree", repo.tree, repo.tree>>
      <4>1. r \in evidence /\ r.port = Port
        BY DEF Frozen
      <4> QED
        BY <1>1, <2>1, <4>1 DEF EvidenceInv, StillSound, Sound
    <3>3. \/ s[2] = "commit" /\ s[3] = s[1]
          \/ /\ repo.head # repo.tree
             /\ s[1] = repo.head /\ s[2] = "working_tree" /\ s[3] = repo.tree
      <4>1. CASE \E c : c # 0 /\ s = <<c, "commit", c, c>>
        <5> HIDE DEF s
        <5>1. PICK c : c # 0 /\ s = <<c, "commit", c, c>>
          BY <4>1
        <5> QED
          BY <5>1
      <4>2. CASE repo.head # repo.tree
                 /\ s = <<repo.head, "working_tree", repo.tree, repo.tree>>
        <5> HIDE DEF s
        <5> QED
          BY <4>2
      <4> QED
        BY <3>2, <4>1, <4>2
    <3> HIDE DEF s
    <3>4. CASE Len(look) = 1
      <4>1. look = <<s[1]>> /\ s[2] # "commit"
        <5>1. CASE look = <<s[1], s[2]>>
          BY <3>4, <5>1
        <5>2. CASE look = <<s[1], s[2], s[3]>>
          BY <3>4, <5>2
        <5> QED
          BY <3>1, <5>1, <5>2
      <4>2. look[1] = s[1]
        BY <4>1
      <4>3. look' = <<look[1], IF repo.tree = repo.head
                               THEN "commit" ELSE "working_tree">>
        BY <1>4, <3>4
      <4>4. look' = <<s[1], s[2]>>
        BY <3>3, <4>1, <4>2, <4>3
      <4> QED
        BY <4>4 DEF s
    <3>5. CASE Len(look) = 2
      <4>1. look = <<s[1], s[2]>>
        <5>1. CASE look = <<s[1]>>
          BY <3>5, <5>1
        <5>2. CASE look = <<s[1], s[2], s[3]>>
          BY <3>5, <5>2
        <5> QED
          BY <3>1, <5>1, <5>2
      <4>2. look[1] = s[1] /\ look[2] = s[2]
        BY <4>1
      <4>3. look' = <<look[1], look[2], CandidateContent>>
        BY <1>4, <3>5
      <4>4. CandidateContent = s[3]
        BY <3>3, <4>2 DEF CandidateContent
      <4>5. look' = <<s[1], s[2], s[3]>>
        BY <4>2, <4>3, <4>4
      <4> QED
        BY <4>5 DEF s
    <3> QED
      BY <1>4, <3>4, <3>5
  <2> QED
    BY <1>1, <1>2, <1>6, <2>1 DEF StillRead, history
<1> QED
  BY <1>1, <1>7, <1>8, <1>9, <1>10, <1>11, JustLooks

(* The one reference of the port at hand.                                  *)
LEMMA TheReference ==
    ASSUME EvidenceInv, NEW r \in Frozen(Port)
    PROVE  /\ r \in evidence /\ r.port = Port
           /\ \A q \in evidence : q.port = Port => q = r
           /\ still => Sound(r)
  BY DEF EvidenceInv, References, Frozen, StillSound

LEMMA VerifyCodeLooks ==
    ASSUME EvidenceInv, At("verify"), NEW r \in Frozen(Port), Kind[Port] = "code",
           look = <<>>, LookAt(Candidate(r)), Stay
    PROVE  EvidenceInv'
<1>1. /\ stage = "verify" /\ i <= Len(PortOrder)
      /\ UNCHANGED <<files, given, history, asked, stage, i, ports, manifest, errors>>
  BY DEF At, Stay
<1>2. Port' = Port /\ Frozen(Port)' = Frozen(Port) /\ repo' = repo
      /\ stage' = "verify" /\ calm' = calm /\ still' = still
  BY <1>1 DEF Port, Frozen, manifest, files, history
<1>3. \A q \in Frozen(Port) : q = r
  BY TheReference DEF Frozen
<1>4. Candidate(r) = 0 => look' = <<repo.head>>
  BY DEF LookAt
<1>5. Candidate(r) # 0 => look' = <<r.subject[1], "commit">> /\ r.subject[2] = "commit"
  BY DEF LookAt, Candidate
<1>6. Control'
  <2>1. \/ look' = <<look'[1]>> \/ look' = <<look'[1], look'[2]>>
    <3>1. CASE look' = <<repo.head>>
      BY <3>1
    <3>2. CASE look' = <<r.subject[1], "commit">>
      BY <3>2
    <3> QED
      BY <1>4, <1>5, <3>1, <3>2
  <2> QED
    BY <1>1, <1>2, <2>1 DEF Control
<1>7. Looking' /\ StillLook'
  BY <1>2 DEF Looking, StillLook
<1>8. CalmLook'
  <2>1. ASSUME r.subject[2] # "commit" PROVE TreeSeen'
    <3>1. look' = <<repo.head>>
      BY <1>4, <2>1 DEF Candidate
    <3>2. look'[1] = repo.head /\ Len(look') = 1
      BY <3>1
    <3> QED
      BY <1>2, <3>2 DEF TreeSeen
  <2> QED
    BY <1>2, <1>3, <2>1 DEF CalmLook
<1>9. StillRead'
  <2> DEFINE s == r.subject
  <2>1. ASSUME still
        PROVE  \/ look' = <<s[1]>> /\ s[2] # "commit"
               \/ look' = <<s[1], s[2]>>
    <3>1. \/ \E c : c # 0 /\ s = <<c, "commit", c, c>>
          \/ s = <<repo.head, "working_tree", repo.tree, repo.tree>>
      BY <2>1, TheReference DEF Sound
    <3>2. CASE \E c : c # 0 /\ s = <<c, "commit", c, c>>
      <4>1. s[1] # 0 /\ s[2] = "commit"
        <5> HIDE DEF s
        <5>1. PICK c : c # 0 /\ s = <<c, "commit", c, c>>
          BY <3>2
        <5> QED
          BY <5>1
      <4>2. Candidate(r) # 0
        BY <4>1 DEF Candidate
      <4> QED
        BY <1>5, <4>1, <4>2
    <3>3. CASE s = <<repo.head, "working_tree", repo.tree, repo.tree>>
      <4>1. s[1] = repo.head /\ s[2] = "working_tree"
        <5> HIDE DEF s
        <5> QED
          BY <3>3
      <4>2. look' = <<repo.head>>
        BY <1>4, <4>1 DEF Candidate
      <4> QED
        BY <4>1, <4>2
    <3> QED
      BY <3>1, <3>2, <3>3
  <2> QED
    BY <1>2, <1>3, <2>1 DEF StillRead
<1> QED
  BY <1>6, <1>7, <1>8, <1>9, JustLooks

LEMMA VerifyLogLooks ==
    ASSUME EvidenceInv, At("verify"), NEW r \in Frozen(Port), Kind[Port] = "logs",
           LogReadable(r), look' = <<log[r.source]>>, Stay
    PROVE  EvidenceInv'
<1>1. /\ stage = "verify" /\ i <= Len(PortOrder)
      /\ UNCHANGED <<files, given, history, asked, stage, i, ports, manifest, errors>>
  BY DEF At, Stay
<1>2. Port' = Port /\ Frozen(Port)' = Frozen(Port) /\ stage' = "verify"
  BY <1>1 DEF Port, Frozen, manifest
<1>3. \A q \in Frozen(Port) : q = r
  BY TheReference DEF Frozen
<1>4. look' = <<look'[1]>>
  OBVIOUS
<1>5. Control'
  BY <1>1, <1>2, <1>4 DEF Control
<1>6. Looking' /\ StillLook' /\ StillRead'
  BY <1>2 DEF Looking, StillLook, StillRead
<1>7. CalmLook'
  <2>1. r.source \in registered' /\ Usable(r.source)'
    BY <1>1 DEF LogReadable, Usable, files, given
  <2> QED
    BY <1>2, <1>3, <2>1 DEF CalmLook, Usable
<1> QED
  BY <1>5, <1>6, <1>7, JustLooks

-----------------------------------------------------------------------------
(* Leaving a port while verifying, with or without a problem.              *)

LEMMA VerifyLeaves ==
    ASSUME EvidenceInv, At("verify"), Leave, UNCHANGED manifest,
           errors' = errors \/ errors' = errors \cup {Port},
           \A r \in Frozen(Port) :
              /\ calm => Port \in errors' \/ (Current(r) /\ now <= r.until)
              /\ still /\ now <= r.until /\ r.source \notin Below \cup Slashed =>
                    errors' = errors
    PROVE  EvidenceInv'
<1>1. /\ stage = "verify" /\ stage' = "verify" /\ i <= Len(PortOrder) /\ TypeOK
      /\ i' = i + 1 /\ look' = <<>>
      /\ UNCHANGED <<files, given, history, asked, ports>>
  BY DEF EvidenceInv, At, Leave
<1>2. /\ Port \in Ports /\ ~Done(Port)
      /\ i' \in 1..(Len(PortOrder) + 1)
      /\ \A p : Done(p)' <=> (Done(p) \/ p = Port)
  BY <1>1, Order, Onward
<1>3. TypeOK'
  BY <1>1, <1>2 DEF TypeOK, files, given, manifest
<1>4. Control' /\ Looking'
  BY <1>1 DEF Control, Looking
<1>5. Allowed'
  <2>1. OfferErrors(DOMAIN ports)' = OfferErrors(DOMAIN ports)
    BY <1>1 DEF OfferErrors, asked
  <2> QED
    BY <1>1, <2>1 DEF EvidenceInv, Allowed
<1>6. \A p : Offer(p)' = Offer(p) /\ (Offered(p)' <=> Offered(p))
  BY <1>1 DEF Offer, Offered, asked
<1>7. References'
  BY <1>1, <1>6 DEF EvidenceInv, References, manifest
<1>8. Counted'
  BY DEF EvidenceInv, Counted, manifest
<1>9. Whole'
  <2>1. \A p : Filled(p)' <=> Filled(p)
    BY <1>1, <1>6 DEF Filled, Frozen, manifest
  <2> QED
    BY <1>1, <2>1 DEF EvidenceInv, Whole, IsFrozen
<1>10. CalmLook' /\ StillLook' /\ StillRead'
  BY <1>1 DEF CalmLook, StillLook, StillRead
<1>11. StillSound'
  BY <1>1 DEF EvidenceInv, StillSound, Sound, files, given, history, manifest
<1>12. \A r \in evidence : r.port = Port <=> r \in Frozen(Port)
  BY DEF Frozen
<1>13. CalmDone'
  <2>1. ASSUME calm, NEW r \in evidence, Done(r.port)'
        PROVE  r.port \in errors' \/ (Current(r) /\ now <= r.until)
    <3>1. CASE r.port = Port
      BY <1>12, <2>1, <3>1
    <3>2. CASE r.port # Port
      BY <1>1, <1>2, <2>1, <3>2 DEF EvidenceInv, CalmDone
    <3> QED
      BY <3>1, <3>2
  <2>2. \A r : Current(r)' <=> Current(r)
    BY <1>1 DEF Current, Usable, files, given
  <2> QED
    BY <1>1, <2>1, <2>2 DEF CalmDone, given, history, manifest
<1>14. StillHolds'
  <2>1. ASSUME still, NEW r \in evidence,
               now <= r.until, r.source \notin Below \cup Slashed
        PROVE  r.port \notin errors'
    <3>1. r.port \notin errors
      BY <1>1, <2>1 DEF EvidenceInv, StillHolds
    <3> QED
      BY <1>12, <2>1, <3>1
  <2> QED
    BY <1>1, <2>1 DEF StillHolds, given, history, manifest
<1> QED
  BY <1>3, <1>4, <1>5, <1>7, <1>8, <1>9, <1>10, <1>11, <1>13, <1>14 DEF EvidenceInv

LEMMA SkipUnfilledKeeps ==
    ASSUME EvidenceInv, SkipUnfilled
    PROVE  EvidenceInv'
  BY VerifyLeaves DEF SkipUnfilled

LEMMA ComplainKeeps ==
    ASSUME EvidenceInv, At("verify"), NEW r \in Frozen(Port),
           NEW wrong \in BOOLEAN, Complain(r, wrong),
           calm /\ ~wrong => Current(r),
           still /\ now <= r.until /\ r.source \notin Below \cup Slashed => ~wrong
    PROVE  EvidenceInv'
<1>1. /\ Leave /\ UNCHANGED manifest
      /\ errors' = IF wrong \/ r.until < now THEN errors \cup {Port} ELSE errors
  BY DEF Complain
<1>2. now \in Nat /\ r.until \in Nat
  BY TheReference, EvidenceAssumption DEF EvidenceInv, TypeOK
<1>3. \A q \in Frozen(Port) : q = r
  BY TheReference DEF Frozen
<1>4. calm => Port \in errors' \/ (Current(r) /\ now <= r.until)
  BY <1>1, <1>2
<1>5. still /\ now <= r.until /\ r.source \notin Below \cup Slashed => errors' = errors
  BY <1>1, <1>2
<1>6. \A q \in Frozen(Port) :
         /\ calm => Port \in errors' \/ (Current(q) /\ now <= q.until)
         /\ still /\ now <= q.until /\ q.source \notin Below \cup Slashed =>
               errors' = errors
  BY <1>3, <1>4, <1>5
<1> QED
  BY <1>1, <1>6, VerifyLeaves

LEMMA VerifyProofKeeps ==
    ASSUME EvidenceInv, At("verify"), NEW r \in Frozen(Port), VerifyProof(r)
    PROVE  EvidenceInv'
<1> DEFINE wrong == \A n \in Producers : pinned[n] # r.subject[1]
<1>1. Kind[Port] = "proofs" /\ Complain(r, wrong) /\ wrong \in BOOLEAN
  BY DEF VerifyProof
<1>2. r.port = Port /\ (still => Sound(r))
  BY TheReference
<1>3. ~wrong => Current(r)
  BY <1>1, <1>2 DEF Current
<1>4. still => ~wrong
  BY <1>1, <1>2 DEF Sound
<1> HIDE DEF wrong
<1> QED
  BY <1>1, <1>3, <1>4, ComplainKeeps

(* A reference to a source in the port's scope as the node declared it.    *)
LEMMA InScope ==
    ASSUME EvidenceInv, stage = "verify", NEW r \in Frozen(Port)
    PROVE  r.source \in Scope[Port]
<1>1. r.source \in ports[Port] /\ Port \in DOMAIN ports
  BY TheReference DEF EvidenceInv, References
<1> QED
  BY <1>1 DEF EvidenceInv, Allowed

LEMMA VerifyCodeKeeps ==
    ASSUME EvidenceInv, At("verify"), NEW r \in Frozen(Port), VerifyCode(r)
    PROVE  EvidenceInv'
<1>1. Kind[Port] = "code" /\ r.port = Port /\ (still => Sound(r)) /\ stage = "verify"
  BY TheReference DEF VerifyCode, At
<1>2. CASE look = <<>> /\ LookAt(Candidate(r)) /\ Stay
  BY <1>1, <1>2, VerifyCodeLooks
<1>3. CASE /\ Complain(r, TRUE)
           /\ \/ (Scope[Port] \cap registered \cap Repositories) \ Below = {}
              \/ Port \notin WellTyped
  <2>1. ASSUME still, r.source \notin Below \cup Slashed PROVE FALSE
    <3>1. r.source \in Repositories \cap registered /\ Port \in WellTyped
      BY <1>1, <2>1 DEF Sound
    <3>2. r.source \in Scope[Port]
      BY <1>1, InScope
    <3> QED
      BY <1>3, <2>1, <3>1, <3>2
  <2> QED
    BY <1>3, <2>1, ComplainKeeps
<1>4. CASE Len(look) = 3 /\ Complain(r, ~SameSubject(r))
  <2> DEFINE s == r.subject
             wrong == ~SameSubject(r)
  <2>1. look # <<>>
    <3>1. Len(look) = 3
      BY <1>4
    <3> QED
      BY <3>1
  <2>2. look = <<look[1], look[2], look[3]>>
    BY <1>4, <2>1, Looks DEF EvidenceInv
  <2>3. Subject = <<look[1], look[2], look[3], CandidateContent>>
    <3>1. Subject = Append(<<look[1], look[2], look[3]>>, CandidateContent)
      BY <2>2 DEF Subject
    <3> QED
      BY <3>1, Appended3
  <2>4. ASSUME calm, ~wrong PROVE Current(r)
    <3>1. s = <<look[1], look[2], look[3], CandidateContent>>
      BY <2>3, <2>4 DEF SameSubject
    <3>2. s[2] = look[2]
      <4> HIDE DEF s
      <4> QED
        BY <3>1
    <3>3. CASE s[2] = "commit"
      BY <1>1, <3>3 DEF Current
    <3>4. CASE s[2] # "commit"
      <4>1. TreeSeen
        BY <1>1, <2>1, <2>4, <3>4 DEF EvidenceInv, CalmLook
      <4>2. /\ look[1] = repo.head /\ look[3] = CandidateContent
            /\ look[2] = IF repo.tree = repo.head THEN "commit" ELSE "working_tree"
        BY <1>4, <4>1 DEF TreeSeen
      <4>3. look[2] = "working_tree" /\ repo.head # repo.tree
        BY <3>2, <3>4, <4>2
      <4>4. CandidateContent = repo.tree
        BY <4>3 DEF CandidateContent
      <4>5. s = <<repo.head, "working_tree", repo.tree, repo.tree>>
        <5> HIDE DEF s
        <5> QED
          BY <3>1, <4>2, <4>3, <4>4
      <4> QED
        BY <1>1, <4>3, <4>5 DEF Current
    <3> QED
      BY <3>3, <3>4
  <2>5. ASSUME still PROVE ~wrong
    <3>1. look = <<s[1], s[2], s[3]>>
      <4>1. \/ look = <<s[1]>> \/ look = <<s[1], s[2]>> \/ look = <<s[1], s[2], s[3]>>
        BY <1>1, <2>1, <2>5 DEF EvidenceInv, StillRead
      <4> HIDE DEF s
      <4>2. look # <<s[1]>>
        <5> SUFFICES ASSUME look = <<s[1]>> PROVE FALSE
          OBVIOUS
        <5> QED
          BY <1>4
      <4>3. look # <<s[1], s[2]>>
        <5> SUFFICES ASSUME look = <<s[1], s[2]>> PROVE FALSE
          OBVIOUS
        <5> QED
          BY <1>4
      <4> QED
        BY <4>1, <4>2, <4>3
    <3>2. look[1] = s[1] /\ look[2] = s[2] /\ look[3] = s[3]
      <4> HIDE DEF s
      <4> QED
        BY <3>1
    <3>3. \/ \E c : c # 0 /\ s = <<c, "commit", c, c>>
          \/ s = <<repo.head, "working_tree", repo.tree, repo.tree>>
      BY <1>1, <2>5 DEF Sound
    <3>4. Subject = s
      <4> HIDE DEF s
      <4>1. CASE \E c : c # 0 /\ s = <<c, "commit", c, c>>
        <5>1. PICK c : c # 0 /\ s = <<c, "commit", c, c>>
          BY <4>1
        <5>2. s[1] = c /\ s[2] = "commit" /\ s[3] = c
          BY <5>1
        <5>3. CandidateContent = c
          BY <3>2, <5>2 DEF CandidateContent
        <5> QED
          BY <2>3, <3>2, <5>1, <5>2, <5>3
      <4>2. CASE s = <<repo.head, "working_tree", repo.tree, repo.tree>>
        <5>1. s[1] = repo.head /\ s[2] = "working_tree" /\ s[3] = repo.tree
          BY <4>2
        <5>2. CandidateContent = repo.tree
          BY <3>2, <5>1 DEF CandidateContent
        <5> QED
          BY <2>3, <3>2, <4>2, <5>1, <5>2
      <4> QED
        BY <3>3, <4>1, <4>2
    <3> QED
      BY <3>4 DEF SameSubject
  <2>6. wrong \in BOOLEAN /\ Complain(r, wrong)
    BY <1>4
  <2> HIDE DEF wrong
  <2> QED
    BY <2>4, <2>5, <2>6, ComplainKeeps
<1> QED
  BY <1>2, <1>3, <1>4 DEF VerifyCode

LEMMA VerifyLogKeeps ==
    ASSUME EvidenceInv, At("verify"), NEW r \in Frozen(Port), VerifyLog(r)
    PROVE  EvidenceInv'
<1>1. Kind[Port] = "logs" /\ r.port = Port /\ (still => Sound(r)) /\ stage = "verify"
  BY TheReference DEF VerifyLog, At
<1>2. CASE LogReadable(r) /\ look' = <<log[r.source]>> /\ Stay
  BY <1>1, <1>2, VerifyLogLooks
<1>3. CASE ~LogReadable(r) /\ Complain(r, TRUE)
  <2>1. ASSUME still, now <= r.until, r.source \notin Below \cup Slashed PROVE FALSE
    <3>1. /\ r.source \in registered /\ log[r.source] # 0
          /\ log[r.source] <= MaxFile /\ log[r.source] <= MaxTotal
          /\ Attested[r.source] = 0 \/ doc[r.source] = Attested[r.source]
          /\ Until[r.source] = r.until
      BY <1>1, <2>1 DEF Sound
    <3>2. r.source \in Scope[Port]
      BY <1>1, InScope
    <3>3. Until[r.source] >= now
      <4>1. now \in Nat /\ r.until \in Nat
        BY TheReference, EvidenceAssumption DEF EvidenceInv, TypeOK
      <4> QED
        BY <2>1, <3>1, <4>1
    <3> QED
      BY <1>3, <2>1, <3>1, <3>2, <3>3 DEF LogReadable, Usable
  <2> QED
    BY <1>3, <2>1, ComplainKeeps
<1>4. CASE look # <<>> /\ Complain(r, log[r.source] # r.subject[1])
  <2> DEFINE wrong == log[r.source] # r.subject[1]
  <2>1. ASSUME calm, ~wrong PROVE Current(r)
    <3>1. r.source \in registered /\ Usable(r.source)
      BY <1>1, <1>4, <2>1 DEF EvidenceInv, CalmLook
    <3> QED
      BY <1>1, <2>1, <3>1 DEF Current
  <2>2. still => ~wrong
    BY <1>1 DEF Sound
  <2>3. wrong \in BOOLEAN /\ Complain(r, wrong)
    BY <1>4
  <2> HIDE DEF wrong
  <2> QED
    BY <2>1, <2>2, <2>3, ComplainKeeps
<1> QED
  BY <1>2, <1>3, <1>4 DEF VerifyLog

-----------------------------------------------------------------------------

LEMMA EvidenceStep ==
    ASSUME EvidenceInv, [Next]_vars
    PROVE  EvidenceInv'
<1>1. CASE UNCHANGED vars
  <2>1. /\ UNCHANGED <<files, given, history, asked, stage, i, ports, manifest, errors>>
        /\ look' = look /\ stage' = stage /\ repo' = repo
    BY <1>1 DEF vars, files
  <2>2. /\ Port' = Port /\ Frozen(Port)' = Frozen(Port) /\ Offer(Port)' = Offer(Port)
        /\ (Offered(Port)' <=> Offered(Port)) /\ (TreeSeen' <=> TreeSeen)
    BY <2>1 DEF Port, Frozen, Offer, Offered, TreeSeen, CandidateContent, asked,
       manifest
  <2>3. \A s : Usable(s)' <=> Usable(s)
    BY <2>1 DEF Usable, files, given
  <2>4. Control' /\ Looking'
    BY <2>1, <2>2 DEF EvidenceInv, Control, Looking, given, manifest
  <2>5. CalmLook'
    BY <2>1, <2>2, <2>3 DEF EvidenceInv, CalmLook, given, history
  <2>6. StillLook'
    <3> DEFINE o == Offer(Port)
    <3>1. Usable(Offer(Port).source)' <=> Usable(o.source)
      BY <2>1, <2>2 DEF Usable, files, given
    <3> QED
      BY <2>1, <2>2, <3>1 DEF EvidenceInv, StillLook, history
  <2>7. StillRead'
    BY <2>1, <2>2 DEF EvidenceInv, StillRead, history
  <2>8. Stay
    BY <2>1 DEF Stay
  <2> QED
    BY <2>4, <2>5, <2>6, <2>7, <2>8, JustLooks
<1>2. CASE Begin \/ Freeze \/ StartVerify \/ Report
  BY <1>2, BeginKeeps, FreezeKeeps, StartVerifyKeeps, ReportKeeps
<1>3. CASE SkipDropped \/ ResolveProof \/ ResolveNothing
  BY <1>3, SkipDroppedKeeps, ResolveProofKeeps, ResolveNothingKeeps
<1>4. CASE ResolveOffer \/ Capture \/ FinishCode \/ FinishLog
  BY <1>4, ResolveOfferKeeps, CaptureKeeps, FinishCodeKeeps, FinishLogKeeps
<1>5. CASE SkipUnfilled
  BY <1>5, SkipUnfilledKeeps
<1>6. CASE VerifyRef
  <2>1. PICK r \in Frozen(Port) : VerifyProof(r) \/ VerifyCode(r) \/ VerifyLog(r)
    BY <1>6 DEF VerifyRef
  <2>2. At("verify")
    BY <1>6 DEF VerifyRef
  <2> QED
    BY <2>1, <2>2, VerifyProofKeeps, VerifyCodeKeeps, VerifyLogKeeps
<1>7. CASE Work \/ WriteFile \/ NextCallDiffers
  BY <1>7, ChangeKeeps
<1> QED
  BY <1>1, <1>2, <1>3, <1>4, <1>5, <1>6, <1>7 DEF Next

LEMMA EvidenceAlways == Spec => []EvidenceInv
  BY EvidenceInit, EvidenceStep, PTL DEF Spec

(* The variables keep their types; the bytes that remain never go below    *)
(* zero, so no subtraction of Resolver::resolve wraps.                     *)
THEOREM EvidenceTyped == Spec => []TypeOK
  BY EvidenceAlways, PTL DEF EvidenceInv

(* What Resolver::resolve freezes has evidence for every required port,    *)
(* one reference to a port, each from a source in the narrowed scope, and  *)
(* every offer in it.                                                      *)
THEOREM FrozenIsWhole == Spec => []ManifestComplete
<1>1. EvidenceInv => ManifestComplete
  <2> SUFFICES ASSUME EvidenceInv, IsFrozen PROVE ManifestComplete
    BY DEF ManifestComplete
  <2>1. /\ \A p \in Ports \ DOMAIN ports : ~Required[p]
        /\ \A p \in DOMAIN ports : ports[p] \subseteq Scope[p]
        /\ DOMAIN ports \subseteq Ports
        /\ OfferErrors(DOMAIN ports) = {}
    BY DEF EvidenceInv, Allowed, IsFrozen
  <2>2. \A p \in Ports : Filled(p)
    BY DEF EvidenceInv, Whole
  <2>3. \A p \in Ports : Required[p] => Frozen(p) # {}
    BY <2>1, <2>2 DEF Filled
  <2>4. ASSUME NEW p \in Ports PROVE Cardinality(Frozen(p)) <= 1
    <3>1. CASE Frozen(p) = {}
      BY <3>1, FS_EmptySet
    <3>2. CASE Frozen(p) # {}
      <4>1. PICK r : r \in Frozen(p)
        BY <3>2
      <4>2. Frozen(p) = {r}
        BY <4>1 DEF Frozen, EvidenceInv, References
      <4>3. Cardinality({r}) = 1
        BY FS_Singleton
      <4> QED
        BY <4>2, <4>3
    <3> QED
      BY <3>1, <3>2
  <2>5. \A r \in evidence : /\ r.port \in DOMAIN ports \ omitted
                            /\ r.source \in ports[r.port] \cap Scope[r.port]
    BY <2>1 DEF EvidenceInv, References
  <2>6. ASSUME NEW o \in offers
        PROVE  \E r \in evidence : r.port = o.port /\ r.source = o.source
    <3>1. o.port \in DOMAIN ports
      BY <2>1 DEF OfferErrors
    <3>2. \A x \in offers : x.port = o.port => x = o
      BY <2>1 DEF OfferErrors
    <3>3. Offered(o.port) /\ Offer(o.port) = o
      BY <3>2 DEF Offered, Offer
    <3>4. PICK r : r \in Frozen(o.port)
      BY <2>1, <2>2, <3>1, <3>3 DEF Filled
    <3> QED
      BY <3>3, <3>4 DEF Frozen, EvidenceInv, References
  <2> QED
    BY <2>3, <2>4, <2>5, <2>6 DEF ManifestComplete
<1> QED
  BY <1>1, EvidenceAlways, PTL

(* What one resolution freezes is within the ceiling on all its bytes,     *)
(* though a file may grow between the look at its length and the read: the *)
(* grown file is read whole, but then refused and not frozen.              *)
THEOREM FrozenWithinTotal == Spec => []WithinTotal
<1>1. EvidenceInv => WithinTotal
  <2> SUFFICES ASSUME EvidenceInv PROVE WithinTotal
    OBVIOUS
  <2>1. IsFiniteSet(evidence) /\ Sized(evidence)
    BY Bytes DEF EvidenceInv, Counted, TypeOK, Sized
  <2>2. Total(evidence) \in Nat
    BY <2>1, TotalNat
  <2>3. Total(evidence) + remaining <= MaxTotal /\ remaining \in Nat /\ MaxTotal \in Nat
    BY Bytes DEF EvidenceInv, Counted, TypeOK
  <2>4. Total(evidence) <= MaxTotal
    BY <2>2, <2>3
  <2> QED
    BY <2>4, SumIsTotal DEF WithinTotal
<1> QED
  BY <1>1, EvidenceAlways, PTL

(* Resolver::verify reports every reference that is not what it was any    *)
(* more, if nothing changes while it looks.                                *)
THEOREM ChangesReported == Spec => []ChangeReported
<1>1. EvidenceInv => ChangeReported
  <2> SUFFICES ASSUME EvidenceInv, stage = "verified", calm PROVE ChangeReported
    BY DEF ChangeReported
  <2>1. \A r \in evidence : r.port \in Ports
    BY DEF EvidenceInv, TypeOK
  <2>2. i > Len(PortOrder) /\ TypeOK
    BY DEF EvidenceInv, Control
  <2>3. \A r \in evidence : Done(r.port)
    BY <2>1, <2>2, Order
  <2> QED
    BY <2>3 DEF EvidenceInv, CalmDone, ChangeReported
<1> QED
  BY <1>1, EvidenceAlways, PTL

(* Resolver::verify finds no fault with a manifest whose sources did not   *)
(* change, but for the forms of a source no locator finds again.           *)
THEOREM UnchangedHolds == Spec => []HoldsWhileUnchanged
<1>1. EvidenceInv => HoldsWhileUnchanged
  BY DEF EvidenceInv, StillHolds, HoldsWhileUnchanged
<1> QED
  BY <1>1, EvidenceAlways, PTL
=============================================================================
