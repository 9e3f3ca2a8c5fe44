--------------------------- MODULE WorkflowGraphs ---------------------------
(***************************************************************************)
(* What a workflow definition must be like for its requests to run every   *)
(* automatic step at most once and never to wait at a join for a token     *)
(* that cannot come.  Nothing in the code makes definitions so; these are  *)
(* the hypotheses of theorems and are checked of the definitions of the    *)
(* runs.                                                                   *)
(*                                                                         *)
(* Both are stated by weights on the nodes: what a token at a node weighs  *)
(* is compared with what the tokens weigh that advanceMulti makes of it.   *)
(***************************************************************************)
EXTENDS Workflow

(* The sum of g[x] over the x of a finite set S. *)
Total(S, g) == Cardinality(UNION {{x} \X (1 .. g[x]) : x \in S})

(* What the tokens of the bag b weigh, and those at the nodes of s. *)
Weigh(V, b) == Total(Nodes, [n \in Nodes |-> b[n] * V[n]])
BagOf(s) == [n \in Nodes |-> CountIn(s, n)]
Weight(V, s) == Weigh(V, BagOf(s))

(* Where advanceMulti may go on from n, for either value of a condition. *)
Onward(d, n) ==
    IF Kind[d][n] \in {"end", "absent"} THEN {<<>>}
    ELSE IF Kind[d][n] = "split" THEN {Targets(Outs[d][n])}
    ELSE {NextTarget(d, n, {}), NextTarget(d, n, {n})}

(* How many tokens at n it takes. *)
Needed(d, n) == IF Kind[d][n] = "join" THEN JoinNeeds(d, n) ELSE 1

(* Where a request begins. *)
Entries(d) == {NextTarget(d, Start, {}), NextTarget(d, Start, {Start})}

(* A token at n stands for V[n] parts of a crossing of m, of which u make  *)
(* one.  No step makes more of them than it takes, the crossing itself     *)
(* uses u up, and a request begins with less than two crossings.           *)
Shares(m, V, u) ==
    /\ \A d \in Definitions, n \in Nodes : \A s \in Onward(d, n) :
          Weight(V, s) + (IF n = m /\ Kind[d][n] \in {"auto", "subflow"} THEN u ELSE 0) <= Needed(d, n) * V[n]
    /\ \A d \in Definitions : \A s \in Entries(d) : Weight(V, s) < 2 * u
    /\ V[SeedNode] < 2 * u

CrossedOnce == \A m \in Nodes : \E V \in [Nodes -> Nat], u \in Nat \ {0} : Shares(m, V, u)

(* The tokens that will reach the join j, counted modulo the number it     *)
(* waits for: a token that rests there is one, no step changes the count,  *)
(* and a request begins with a full number.  A token that waits at another *)
(* join counts only if that join comes before, in the order r.             *)
Feeds(d, j, V, r) ==
    LET q == JoinNeeds(d, j) IN
    /\ V[j] = 1
    /\ \A n \in Nodes : \A s \in Onward(d, n) : Weight(V, s) % q = (Needed(d, n) * V[n]) % q
    /\ \A s \in Entries(d) : Weight(V, s) % q = 0
    /\ V[SeedNode] % q = 0
    /\ \A n \in Nodes : Kind[d][n] = "join" /\ n # j /\ V[n] # 0 => r[n] < r[j]

JoinsFed(d) ==
    \E r \in [Nodes -> Nat] : \A j \in Nodes :
        Kind[d][j] = "join" => \E V \in [Nodes -> Nat] : Feeds(d, j, V, r)

(* L[n] turns of the loop are enough for what begins at n, and the loop's  *)
(* limit is not reached from the start nor from a node that waits.         *)
Lengths(d, L) ==
    /\ \A n \in Nodes : \A s \in Onward(d, n) :
          /\ Kind[d][n] \notin {"stop", "external"} => Weight(L, s) + 1 <= L[n]
          /\ Weight(L, s) <= GuardLimit
    /\ \A n \in Nodes : L[n] >= 1
    /\ \A s \in Entries(d) : Weight(L, s) <= GuardLimit

ShortWalks(d) == \E L \in [Nodes -> Nat] : Lengths(d, L)
=============================================================================
