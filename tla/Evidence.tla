------------------------------ MODULE Evidence ------------------------------
(***************************************************************************)
(* The inputs of an attempt: Resolver::resolve freezes them in a manifest  *)
(* and Resolver::verify checks the manifest again later                    *)
(* (src/src/evidence/mod.rs), after check_narrowing (budget) and by way of *)
(* capture (adapters/code), while the repository and the directories they  *)
(* read go on changing.                                                    *)
(*                                                                         *)
(* A content stands for the bytes of a file and is as long as its number;  *)
(* commit k holds content k; 0 is no file that can be read inside the      *)
(* directory.  A receipt identifies the result it accepted.                *)
(*                                                                         *)
(* The operators used by no action are faulty twins, as in Ledger.         *)
(***************************************************************************)
EXTENDS Naturals, Sequences, FiniteSets, FiniteSetsExt

CONSTANTS
    PortOrder,      \* the node's evidence ports, ordered by name
    Kind, Required, Scope,   \* what each port declares
    WellTyped,      \* code ports that expect the record this build produces
    Repositories, Directories,   \* names of sources
    Below,          \* repositories registered by a path below their top level
    Slashed,        \* directories with a slash in their name
    Attested,       \* the digest of each directory's attestation, or 0
    Until,          \* the moment after which each directory is stale
    Producers,      \* nodes the node depends on
    Receipts,       \* receipts a producer may be pinned to
    Contents, MaxFile, MaxTotal,
    Revisions,      \* contents of the repository
    Offers, Narrowings,   \* inputs of a resolution
    Moments, Forever, MaxChanges

Sources == Repositories \cup Directories
Ports == {PortOrder[k] : k \in 1..Len(PortOrder)}
RecordSize == 1     \* of a captured candidate

(* A node has no two ports of one name.  A directory without a validity is *)
(* fresh forever.                                                          *)
ASSUME EvidenceAssumption ==
    /\ PortOrder \in Seq(Ports)
    /\ \A j, k \in 1..Len(PortOrder) : PortOrder[j] = PortOrder[k] => j = k
    /\ Kind \in [Ports -> {"code", "logs", "proofs", "boundary"}]
    /\ Required \in [Ports -> BOOLEAN]
    /\ Scope \in [Ports -> SUBSET (Sources \cup Producers)]
    /\ Contents \subseteq Nat \ {0} /\ Revisions \subseteq Contents
    /\ Attested \in [Directories -> Contents \cup {0}]
    /\ Until \in [Directories -> Moments \cup {Forever}]
    /\ Moments \subseteq Nat /\ Forever \in Nat
    /\ 0 \notin Receipts
    /\ {MaxFile, MaxTotal, MaxChanges} \subseteq Nat

VARIABLES
    repo, log, doc,        \* the repository, and two files per directory
    registered, pinned, now,   \* what a call is given
    changes, calm, still,  \* environment steps; none since verify, resolve began
    narrowing, offers,     \* what the resolution is asked for
    stage, i,              \* the call in progress and the port it is at
    ports,                 \* the ports after narrowing, with their scopes
    look,                  \* the capture or read in progress
    remaining, evidence, omitted, errors

files == <<repo, log, doc>>
given == <<registered, pinned, now>>
history == <<changes, calm, still>>
asked == <<narrowing, offers>>
manifest == <<remaining, evidence, omitted>>
vars == <<files, given, history, asked, stage, i, ports, look,
          manifest, errors>>

Init ==
    /\ repo \in [head : Revisions, tree : Revisions]
    /\ log \in [Directories -> Contents]
    /\ doc = Attested
    /\ registered = Sources
    /\ pinned \in [Producers -> Receipts \cup {0}]
    /\ now \in {t \in Moments : \A u \in Moments : t <= u}
    /\ changes = 0 /\ calm = TRUE /\ still = TRUE
    /\ narrowing \in Narrowings /\ offers \in Offers
    /\ stage = "start" /\ i = 1
    /\ ports = <<>>
    /\ look = <<>>
    /\ remaining = MaxTotal
    /\ evidence = {} /\ omitted = {} /\ errors = {}

-----------------------------------------------------------------------------
(* check_narrowing.                                                        *)

Distinct(s) == \A j, k \in 1..Len(s) : s[j] = s[k] => j = k

DropAnything(nw) ==
    LET drop == nw.dropped IN
    /\ Distinct(drop)
    /\ \A k \in 1..Len(drop) : drop[k] \in Ports

(* Only optional ports are dropped, and each only once.                    *)
MayDrop(nw) ==
    LET drop == nw.dropped IN
    /\ Distinct(drop)
    /\ \A k \in 1..Len(drop) : drop[k] \in Ports /\ ~Required[drop[k]]

(* A restriction of a port that is kept leaves it some of its sources.     *)
MayRestrict(nw) ==
    LET restricted == nw.restricted IN
    /\ Distinct([k \in 1..Len(restricted) |-> restricted[k].port])
    /\ \A k \in 1..Len(restricted) :
         LET x == restricted[k] IN
         /\ x.port \in Ports
         /\ \A j \in 1..Len(nw.dropped) : nw.dropped[j] # x.port
         /\ x.sources # {} /\ x.sources \subseteq Scope[x.port]

Narrowed(nw) ==
    [p \in Ports \ {nw.dropped[k] : k \in 1..Len(nw.dropped)} |->
        LET own == {x \in {nw.restricted[k] : k \in 1..Len(nw.restricted)} : x.port = p}
        IN  IF own = {} THEN Scope[p] ELSE UNION {x.sources : x \in own}]

-----------------------------------------------------------------------------
(* Leaving the port at hand, with everything it did not change.            *)

Port == PortOrder[i]
At(s) == stage = s /\ i <= Len(PortOrder)

Leave == /\ i' = i + 1 /\ look' = <<>>
         /\ UNCHANGED <<files, given, history, asked, stage, ports>>

Stay == UNCHANGED <<files, given, history, asked, stage, i, ports, manifest, errors>>

Refuse ==
    /\ Leave
    /\ errors' = errors \cup {Port}
    /\ UNCHANGED manifest

Fill(source, subject, until, size) ==
    /\ Leave
    /\ evidence' = evidence \cup
         {[port |-> Port, source |-> source, subject |-> subject,
           until |-> until, size |-> size]}
    /\ remaining' = remaining - size
    /\ UNCHANGED <<omitted, errors>>

-----------------------------------------------------------------------------
(* capture: git is asked for the commit, whether the tree is clean, the    *)
(* changed files, and the patch, one after the other.                      *)

(* Item 0 is the working tree, any other a commit.                         *)
LookAt(item) ==
    look' = IF item = 0 THEN <<repo.head>> ELSE <<item, "commit">>

(* The commit is known and not yet whether the tree is clean.              *)
LookedUp == Len(look) = 1 /\ Kind[Port] = "code"

AskStatus ==
    /\ LookedUp
    /\ look' = Append(look, IF repo.tree = repo.head THEN "commit" ELSE "working_tree")

CandidateContent == IF look[2] = "commit" THEN look[1] ELSE repo.tree

ReadContent == Len(look) = 2 /\ look' = Append(look, CandidateContent)

(* What the whole capture says: commit, kind, contents and patch.          *)
Subject == Append(look, CandidateContent)

Capture ==
    /\ At("resolve") \/ At("verify")
    /\ Kind[Port] = "code"
    /\ AskStatus \/ ReadContent
    /\ Stay

-----------------------------------------------------------------------------
(* Reading files.                                                          *)

RoomAlone(size) == size <= MaxTotal

(* The ceilings on everything read so far, and on one file.                *)
Room(size) == size <= remaining

Fits(size) == size <= MaxFile /\ Room(size)

(* A directory vouched for by its attestation, if it has one, and not past *)
(* its validity.                                                           *)
Usable(s) == (Attested[s] = 0 \/ doc[s] = Attested[s]) /\ Until[s] >= now

-----------------------------------------------------------------------------
(* resolve.                                                                *)

(* Offers for ports the node does not have any more, and second offers.    *)
OfferErrors(kept) ==
    {o.port : o \in {x \in offers : x.port \notin kept}} \cup
    {o.port : o \in {x \in offers : \E y \in offers : y # x /\ y.port = x.port}}

Begin ==
    /\ stage = "start"
    /\ IF MayDrop(narrowing) /\ MayRestrict(narrowing)
       THEN /\ ports' = Narrowed(narrowing)
            /\ errors' = OfferErrors(DOMAIN ports')
            /\ stage' = "resolve"
       ELSE stage' = "refused" /\ UNCHANGED <<ports, errors>>
    /\ UNCHANGED <<files, given, history, asked, i, look, manifest>>

Offered(p) == \E o \in offers : o.port = p
Offer(p) == CHOOSE o \in offers : o.port = p

Resolving == At("resolve") /\ Port \in DOMAIN ports /\ look = <<>>

SkipDropped ==
    /\ At("resolve") /\ Port \notin DOMAIN ports
    /\ Leave
    /\ UNCHANGED <<manifest, errors>>

(* A proof is the receipt pinned for the one producer in scope.            *)
ResolveProof ==
    /\ Resolving /\ Kind[Port] = "proofs"
    /\ LET matches == {n \in Producers \cap ports[Port] : pinned[n] # 0} IN
       \/ /\ ~Offered(Port) /\ Cardinality(matches) = 1
          /\ \E n \in matches : Fill(n, <<pinned[n]>>, Forever, 0)
       \/ /\ Offered(Port) \/ Cardinality(matches) # 1
          /\ Refuse

ResolveNothing ==
    /\ Resolving /\ Kind[Port] # "proofs" /\ ~Offered(Port)
    /\ \/ Required[Port] /\ Refuse
       \/ /\ ~Required[Port] /\ Leave
          /\ omitted' = omitted \cup {Port}
          /\ UNCHANGED <<remaining, evidence, errors>>

(* The offered source is in scope and registered, feeds the port's kind    *)
(* and holds the item; a commit is compared with its parent.               *)
Accepted(p, o) ==
    /\ o.source \in ports[p] \cap registered
    /\ \/ /\ Kind[p] = "code" /\ o.source \in Repositories /\ o.what = "candidate"
          /\ p \in WellTyped
          /\ o.item = 0 \/ o.item - 1 \in Revisions
       \/ /\ Kind[p] = "logs" /\ o.source \in Directories /\ o.what = "file"
          /\ Usable(o.source)
          /\ log[o.source] # 0 /\ Fits(log[o.source])

ResolveOffer ==
    /\ Resolving /\ Kind[Port] # "proofs" /\ Offered(Port)
    /\ LET o == Offer(Port) IN
       \/ /\ Accepted(Port, o)
          /\ IF Kind[Port] = "code"
             THEN LookAt(o.item)
             ELSE look' = <<log[o.source]>>
          /\ Stay
       \/ ~Accepted(Port, o) /\ Refuse

FinishCode ==
    /\ At("resolve") /\ Kind[Port] = "code" /\ Len(look) = 3
    /\ \/ /\ Room(RecordSize)
          /\ Fill(Offer(Port).source, Subject, Forever, RecordSize)
       \/ ~Room(RecordSize) /\ Refuse

(* The file may have changed since its length was looked up.               *)
FinishLog ==
    /\ At("resolve") /\ Kind[Port] = "logs" /\ look # <<>>
    /\ LET s == Offer(Port).source
           wanted == Offer(Port).item IN
       \/ /\ log[s] # 0 /\ Fits(log[s]) /\ wanted \in {0, log[s]}
          /\ Fill(s, <<log[s]>>, Until[s], log[s])
       \/ /\ log[s] # 0 /\ Fits(log[s]) /\ wanted \notin {0, log[s]}
          /\ Leave
          /\ errors' = errors \cup {Port}
          /\ remaining' = remaining - log[s]
          /\ UNCHANGED <<evidence, omitted>>
       \/ ~(log[s] # 0 /\ Fits(log[s])) /\ Refuse

Freeze ==
    /\ stage = "resolve" /\ i > Len(PortOrder)
    /\ stage' = IF errors = {} THEN "frozen" ELSE "refused"
    /\ UNCHANGED <<files, given, history, asked, i, ports, look, manifest, errors>>

-----------------------------------------------------------------------------
(* verify.                                                                 *)

StartVerify ==
    /\ stage = "frozen"
    /\ stage' = "verify" /\ i' = 1
    /\ now' \in {t \in Moments : now <= t}
    /\ calm' = TRUE
    /\ UNCHANGED <<files, registered, pinned, changes, still, asked, ports,
                   look, manifest, errors>>

Frozen(p) == {r \in evidence : r.port = p}

Complain(r, wrong) ==
    /\ Leave
    /\ errors' = IF wrong \/ r.until < now THEN errors \cup {Port} ELSE errors
    /\ UNCHANGED manifest

SkipUnfilled ==
    /\ At("verify") /\ Frozen(Port) = {}
    /\ Leave
    /\ UNCHANGED <<manifest, errors>>

VerifyProof(r) ==
    /\ Kind[Port] = "proofs"
    /\ Complain(r, \A n \in Producers : pinned[n] # r.subject[1])

TreeAnyway(r) == 0

(* The candidate a locator names: its commit, or whatever the tree is now. *)
Candidate(r) == IF r.subject[2] = "commit" THEN r.subject[1] ELSE 0

SameCommit(r) == look = SubSeq(r.subject, 1, 2) \o <<look[3]>>

SameSubject(r) == Subject = r.subject

(* The locator has the top level of the repository, and must find a source *)
(* registered at that very directory.                                      *)
VerifyCode(r) ==
    /\ Kind[Port] = "code"
    /\ \/ /\ look = <<>>
          /\ (Scope[Port] \cap registered \cap Repositories) \ Below # {}
          /\ Port \in WellTyped
          /\ LookAt(Candidate(r)) /\ Stay
       \/ /\ look = <<>>
          /\ \/ (Scope[Port] \cap registered \cap Repositories) \ Below = {}
             \/ Port \notin WellTyped
          /\ Complain(r, TRUE)
       \/ /\ Len(look) = 3
          /\ Complain(r, ~SameSubject(r))

(* The name of a log's source ends at the first slash of its locator.      *)
LogReadable(r) ==
    /\ r.source \notin Slashed
    /\ r.source \in Scope[Port] \cap registered
    /\ Usable(r.source)
    /\ log[r.source] # 0
    /\ log[r.source] <= MaxFile /\ log[r.source] <= MaxTotal

VerifyLog(r) ==
    /\ Kind[Port] = "logs"
    /\ \/ /\ look = <<>> /\ LogReadable(r)
          /\ look' = <<log[r.source]>> /\ Stay
       \/ /\ look = <<>> /\ ~LogReadable(r)
          /\ Complain(r, TRUE)
       \/ /\ look # <<>>
          /\ Complain(r, log[r.source] # r.subject[1])

VerifyRef ==
    /\ At("verify")
    /\ \E r \in Frozen(Port) : VerifyProof(r) \/ VerifyCode(r) \/ VerifyLog(r)

Report ==
    /\ stage = "verify" /\ i > Len(PortOrder)
    /\ stage' = "verified"
    /\ UNCHANGED <<files, given, history, asked, i, ports, look, manifest, errors>>

-----------------------------------------------------------------------------
(* Everybody else: whoever works in the checkout, writes the logs,         *)
(* registers the sources of the next call, revokes or accepts receipts.    *)

Changing ==
    /\ stage \notin {"refused", "verified"}
    /\ changes < MaxChanges
    /\ changes' = changes + 1
    /\ calm' = FALSE /\ still' = FALSE
    /\ UNCHANGED <<now, asked, stage, i, ports, look, manifest, errors>>

Work ==
    /\ Changing
    /\ repo' \in {[repo EXCEPT !.tree = c] : c \in Revisions} \cup       \* edit
                 {[head |-> c, tree |-> c] : c \in Revisions}   \* commit, check out
    /\ UNCHANGED <<log, doc, registered, pinned>>

WriteFile ==
    /\ Changing
    /\ \E s \in Directories, c \in Contents \cup {0} :
         \/ log' = [log EXCEPT ![s] = c] /\ UNCHANGED doc
         \/ doc' = [doc EXCEPT ![s] = c] /\ UNCHANGED log
    /\ UNCHANGED <<repo, registered, pinned>>

NextCallDiffers ==
    /\ Changing /\ stage = "frozen"
    /\ \/ \E s \in Sources : registered' = registered \ {s} /\ UNCHANGED pinned
       \/ /\ \E n \in Producers, x \in Receipts \cup {0} :
               pinned' = [pinned EXCEPT ![n] = x]
          /\ UNCHANGED registered
    /\ UNCHANGED files

Next ==
    \/ Begin
    \/ SkipDropped
    \/ ResolveProof
    \/ ResolveNothing
    \/ ResolveOffer
    \/ Capture
    \/ FinishCode
    \/ FinishLog
    \/ Freeze
    \/ StartVerify
    \/ SkipUnfilled
    \/ VerifyRef
    \/ Report
    \/ Work
    \/ WriteFile
    \/ NextCallDiffers

Spec == Init /\ [][Next]_vars

-----------------------------------------------------------------------------
(* The types; in particular the bytes that remain never go below zero,     *)
(* where the code's unsigned subtraction would wrap.                       *)
TypeOK ==
    /\ repo \in [head : Revisions, tree : Revisions]
    /\ log \in [Directories -> Contents \cup {0}]
    /\ doc \in [Directories -> Contents \cup {0}]
    /\ registered \subseteq Sources
    /\ pinned \in [Producers -> Receipts \cup {0}]
    /\ now \in Moments
    /\ i \in 1..(Len(PortOrder) + 1)
    /\ remaining \in 0..MaxTotal
    /\ \A r \in evidence :
         /\ r.port \in Ports /\ r.source \in Sources \cup Producers
         /\ r.until \in Moments \cup {Forever}
         /\ r.size \in Contents \cup {0, RecordSize}
    /\ omitted \subseteq Ports

IsFrozen == stage \in {"frozen", "verify", "verified"}

(* A manifest is frozen only when it is whole: every port that must have   *)
(* evidence has it, dropped or not by a narrowing, every offer was used,   *)
(* and everything comes from a source the narrowed contract allows.        *)
ManifestComplete ==
    IsFrozen =>
        /\ \A p \in Ports : Required[p] => Frozen(p) # {}
        /\ \A p \in Ports : Cardinality(Frozen(p)) <= 1
        /\ \A r \in evidence :
             /\ r.port \in DOMAIN ports \ omitted
             /\ r.source \in ports[r.port] \cap Scope[r.port]
        /\ \A o \in offers :
             \E r \in evidence : r.port = o.port /\ r.source = o.source

(* One resolution freezes at most MaxTotal bytes, whatever happens to a    *)
(* file between looking up its length and reading it.  It may read more: a *)
(* file that grew meanwhile is read whole before it is refused.            *)
WithinTotal == MapThenSumSet(LAMBDA r : r.size, evidence) <= MaxTotal

(* The evidence r is what it was when it was frozen.                       *)
Current(r) ==
    CASE Kind[r.port] = "code" ->
            \/ r.subject[2] = "commit"
            \/ r.subject = <<repo.head, "working_tree", repo.tree, repo.tree>>
               /\ repo.head # repo.tree
      [] Kind[r.port] = "logs" ->
            /\ r.source \in registered /\ Usable(r.source)
            /\ log[r.source] = r.subject[1]
      [] OTHER -> \E n \in Producers : pinned[n] = r.subject[1]

(* Whatever changed since a manifest was frozen is reported: if nothing    *)
(* changes while it is verified and no problem is found, every reference   *)
(* still is what it was, even if it was captured while the files changed.  *)
ChangeReported ==
    stage = "verified" /\ calm =>
        \A r \in evidence : r.port \in errors \/ (Current(r) /\ now <= r.until)

(* A manifest whose sources did not change since its resolution began      *)
(* holds until its evidence expires, unless the source was registered in a *)
(* form its locator cannot find again.                                     *)
HoldsWhileUnchanged ==
    stage = "verified" /\ still =>
        \A r \in evidence :
            now <= r.until /\ r.source \notin Below \cup Slashed => r.port \notin errors
=============================================================================
