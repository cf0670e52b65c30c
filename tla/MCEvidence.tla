----------------------------- MODULE MCEvidence -----------------------------
(***************************************************************************)
(* A node with one port of each kind, and what may be asked of it.         *)
(***************************************************************************)
EXTENDS Evidence

ByName == <<"ask", "log", "patch", "proof">>
KindOf == [p \in Ports |-> CASE p = "ask" -> "boundary" [] p = "patch" -> "code"
                             [] p = "log" -> "logs" [] OTHER -> "proofs"]
CodeAndProof == [p \in Ports |-> p \in {"patch", "proof"}]
ScopeOf == [p \in Ports |->
    CASE p = "patch" -> {"top", "sub"} [] p = "log" -> {"logs", "top"}
      [] p = "proof" -> {"n1"} [] OTHER -> {"logs"}]
Vouched == [s \in Directories |-> 1]
Stale == [s \in Directories |-> 1]

Wants(p, s, what, item) == [port |-> p, source |-> s, what |-> what, item |-> item]
Tree == Wants("patch", "top", "candidate", 0)
Log == Wants("log", "logs", "file", 0)

LogIs(d) == Wants("log", "logs", "file", d)

(* The controller's offer, and the ones the tests make.                    *)
SomeOffers ==
    { {Tree}, {Tree, Log}, {Tree, LogIs(2)},
      {Wants("patch", "top", "candidate", 2), LogIs(1)},
      {Wants("patch", "sub", "candidate", 0)},
      {}, {Tree, Wants("patch", "sub", "candidate", 0)},
      {Tree, Wants("log", "top", "file", 0)},
      {Tree, Wants("ask", "logs", "file", 0)},
      {Tree, Wants("proof", "top", "file", 0)},
      {Tree, Wants("other", "top", "file", 0)} }

Narrow(drop, restrict) == [dropped |-> drop, restricted |-> restrict]
To(p, S) == [port |-> p, sources |-> S]
SomeNarrowings ==
    { Narrow(<<>>, <<>>), Narrow(<<"log">>, <<>>), Narrow(<<"patch">>, <<>>),
      Narrow(<<>>, <<To("patch", {"top"}), To("log", {"logs"})>>),
      Narrow(<<>>, <<To("log", {"sub"})>>),
      Narrow(<<"ask">>, <<To("ask", {"logs"})>>) }
=============================================================================
