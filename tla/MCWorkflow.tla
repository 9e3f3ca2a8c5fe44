----------------------------- MODULE MCWorkflow -----------------------------
(* Small workflow definitions and the constants of the Workflow runs. *)
EXTENDS WorkflowGraphs, TLC

To(t) == [target |-> t, label |-> "none"]
If(t, l) == [target |-> t, label |-> l]

MCNodes == {"start", "cond", "split", "a", "b", "x", "join", "svc", "end"}

(* "full" is a condition with an approval on its no branch and, on its yes  *)
(* branch, an approval and an external action in parallel, a join and an    *)
(* automatic step.  "pair" has two approvals in parallel, as the definition *)
(* of the end-to-end test; "ext" is the yes branch of "full"; "line" is     *)
(* linear.                                                                  *)
NoOuts == [n \in MCNodes |-> <<>>]
AfterJoin == [NoOuts EXCEPT !["a"] = <<To("join")>>, !["join"] = <<To("svc")>>, !["svc"] = <<To("end")>>]
Ext == [AfterJoin EXCEPT !["start"] = <<To("split")>>, !["split"] = <<To("a"), To("x")>>, !["x"] = <<To("join")>>]
AllOuts ==
    [ full |-> [Ext EXCEPT !["start"] = <<To("cond")>>,
                           !["cond"] = <<If("b", "no"), If("split", "yes")>>, !["b"] = <<To("end")>>],
      pair |-> [AfterJoin EXCEPT !["start"] = <<To("split")>>, !["split"] = <<To("a"), To("b")>>,
                             !["b"] = <<To("join")>>],
      ext  |-> Ext,
      line |-> [NoOuts EXCEPT !["start"] = <<To("a")>>, !["a"] = <<To("svc")>>, !["svc"] = <<To("end")>>] ]

Lacks == [full |-> {}, pair |-> {"cond", "x"}, ext |-> {"cond", "b"},
          line |-> {"cond", "split", "b", "x", "join"}]
AllKinds ==
    [ cond |-> "condition", split |-> "split", join |-> "join", a |-> "stop", b |-> "stop",
      x |-> "external", svc |-> "auto", end |-> "end", start |-> "pass" ]

(* Clients are interchangeable, and so are the requests that are not seeded. *)
Sym == Permutations(Clients) \cup Permutations(Instances \ Seeded)

MCOuts == [d \in Definitions |-> AllOuts[d]]
MCKind == [d \in Definitions |-> [n \in MCNodes |-> IF n \in Lacks[d] THEN "absent" ELSE AllKinds[n]]]

(* "full" is a definition that the theorems on joins and on automatic steps *)
(* are about: the parts of the crossing of svc, which two tokens that meet  *)
(* at the join share, the tokens that feed the join, and the turns of the   *)
(* loop that are left.                                                      *)
SvcParts == [n \in MCNodes |-> CASE n \in {"start", "cond", "split", "svc"} -> 2
                                 [] n \in {"a", "x", "join"} -> 1
                                 [] OTHER -> 0]
JoinParts == [SvcParts EXCEPT !["svc"] = 0]
Turns == [start |-> 10, cond |-> 9, split |-> 3, a |-> 1, b |-> 1, x |-> 1, join |-> 3, svc |-> 2, end |-> 1]

ASSUME FullIsSound ==
    Definitions = {"full"} =>
        /\ \A m \in MCNodes : IF m = "svc" THEN Shares(m, SvcParts, 2) ELSE Shares(m, [n \in MCNodes |-> 0], 1)
        /\ Feeds("full", "join", JoinParts, [n \in MCNodes |-> 0])
        /\ Lengths("full", Turns)
=============================================================================
