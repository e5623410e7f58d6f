------------------------- MODULE MCWorkflowScheduler -------------------------
(* The graphs WorkflowScheduler is checked on. *)
EXTENDS WorkflowScheduler

E(a, b)      == [from |-> a, to |-> b, when |-> Always]
If(a, w, b)  == [from |-> a, to |-> b, when |-> w]

\* The keyword search of runWeiBoKeywordSearchWorkflow.ts: html parses a page
\* and asks for the next page or for a search with an earlier end date.
Order == <<"account", "urlBuilder", "playwright", "html">>
SearchNodes == {Order[i] : i \in 1..4}
SearchGraph ==
    { E("urlBuilder", "html"), If("html", "nextPage", "playwright"),
      If("html", "nextSearch", "urlBuilder"), E("playwright", "html"),
      E("account", "playwright"), E("urlBuilder", "playwright") }

\* All graphs without conditions whose edges go up in the order of the nodes,
\* which is every acyclic graph over four nodes up to renaming.
AcyclicGraphs ==
    SUBSET {E(Order[p[1]], Order[p[2]]) : p \in {q \in (1..4) \X (1..4) : q[1] < q[2]}}

RealGraphs == {SearchGraph} \cup AcyclicGraphs

\* They have the shapes for which the verdicts are proved.
ASSUME RealShapes ==
    Nodes = SearchNodes =>
        \A G \in RealGraphs : Grounded(G) /\ LoopsBack(G) /\ RestartsTogether(G) /\ EnteredFromReached(G)

\* Every graph over three nodes in which each ordered pair of distinct nodes
\* has no edge, an unconditional one, or one that asks for the value "go".
ThreeNodes == {"a", "b", "c"}
AllGraphs ==
    LET pairs == {p \in ThreeNodes \X ThreeNodes : p[1] # p[2]} IN
    {{[from |-> p[1], to |-> p[2], when |-> f[p]] : p \in {q \in pairs : f[q] # "none"}} :
        f \in [pairs -> {"none", Always, "go"}]}
=============================================================================
