---------------------------- MODULE MCNlbServers ----------------------------
(***************************************************************************)
(* Instances of NlbServers: two nodes, a virtual node, two Pods, and the   *)
(* changes made to them.                                                   *)
(***************************************************************************)
EXTENDS NlbServers, TLC

CONSTANTS n1, n2, vk, p1, p2

NoLabels == [k \in {} |-> ""]
OneLabel(k, v) == [l \in {k} |-> v]

Plain(i) == [labels |-> NoLabels, taint |-> FALSE, unsched |-> FALSE, ready |-> "True",
             inst |-> i, parses |-> TRUE]
With(i, k, v) == [Plain(i) EXCEPT !.labels = OneLabel(k, v)]
Virtual3 == [With(3, "type", "x") EXCEPT !.ready = "False"]
HiddenVirtual == [Virtual3 EXCEPT !.labels = OneLabel("type", "x") @@ OneLabel("exclude", "")]
HiddenCordoned == [HiddenVirtual EXCEPT !.unsched = TRUE]
\* The providerID does not parse, and the instance is looked up.
Lookup == [Plain(2) EXCEPT !.parses = FALSE]
\* The cluster autoscaler marks a node, and may cordon it too.
Leaving == [Plain(1) EXCEPT !.taint = TRUE]
Cordoned == [Leaving EXCEPT !.unsched = TRUE]

MCNodes ==
  {Plain(1), Lookup, Virtual3, HiddenVirtual, HiddenCordoned, Leaving, Cordoned,
   [Plain(1) EXCEPT !.ready = "False"], [Plain(1) EXCEPT !.ready = None],
   [Plain(1) EXCEPT !.unsched = TRUE],
   With(1, "exclude", ""), With(1, "balancer", ""), With(1, "master", ""), With(1, "pool", "x")}

OnNode(n, e) == [node |-> n, ready |-> TRUE, port |-> 80, eni |-> e, shown |-> TRUE]
MCPods ==
  {OnNode(n1, 11), OnNode(n2, 12), OnNode(vk, 13), OnNode(n1, 12), OnNode(None, 11),
   [OnNode(n1, 11) EXCEPT !.ready = FALSE], [OnNode(n1, 11) EXCEPT !.port = 0],
   [OnNode(vk, 14) EXCEPT !.shown = FALSE]}

Sv(policy) == [policy |-> policy, label |-> "", removeUnsched |-> FALSE, attr |-> None]
MCServices ==
  {Sv("ENI"), Sv("Local"), Sv("Cluster"), [Sv("Cluster") EXCEPT !.removeUnsched = TRUE],
   [Sv("Local") EXCEPT !.label = "pool"], [Sv("Cluster") EXCEPT !.label = "bad"],
   [Sv("Local") EXCEPT !.attr = "a1"], [Sv("Cluster") EXCEPT !.attr = "a2"],
   [Sv("Cluster") EXCEPT !.attr = "bad"]}

At(nn, pp, s) == [node |-> nn, pod |-> pp, svc |-> s]
Nodes == (n1 :> Plain(1)) @@ (n2 :> Lookup) @@ (vk :> HiddenVirtual)
Pods == (p1 :> OnNode(n1, 11)) @@ (p2 :> OnNode(n2, 12))
MCStart ==
  {At(Nodes, Pods, s) : s \in {Sv("ENI"), Sv("Local"), Sv("Cluster"), None}}
    \cup {At([Nodes EXCEPT ![n1] = None], Pods, [Sv("Cluster") EXCEPT !.removeUnsched = TRUE])}

\* Nodes come, go and change; labels are added or taken away, never both in
\* one change; a Pod moves, becomes ready or gets another address.
NodeEdits ==
  {<<Plain(1), v>> : v \in {w \in MCNodes : w.inst = 1} \ {Plain(1)}}
    \cup {<<v, Plain(1)>> : v \in {With(1, "exclude", ""), With(1, "balancer", ""), Leaving, Cordoned}}
    \cup {<<Leaving, Cordoned>>}
    \cup {<<Plain(1), None>>, <<None, Plain(1)>>, <<HiddenVirtual, Virtual3>>,
          <<HiddenVirtual, HiddenCordoned>>}
PodEdits ==
  {<<OnNode(n1, 11), v>> : v \in {None, OnNode(None, 11), [OnNode(n1, 11) EXCEPT !.ready = FALSE],
                                  [OnNode(n1, 11) EXCEPT !.port = 0]}}
    \cup {<<OnNode(n2, 12), OnNode(n1, 12)>>, <<None, OnNode(vk, 13)>>,
          <<OnNode(n2, 12), [OnNode(vk, 14) EXCEPT !.shown = FALSE]>>}
SvcEdits ==
  {<<Sv("Local"), [Sv("Cluster") EXCEPT !.attr = "a2"]>>, <<Sv("Cluster"), Sv("Local")>>,
   <<None, [Sv("Local") EXCEPT !.attr = "a1"]>>,
   <<Sv("Cluster"), [Sv("Cluster") EXCEPT !.attr = "bad"]>>,
   <<[Sv("Cluster") EXCEPT !.attr = "bad"], Sv("Cluster")>>,
   <<Sv("Local"), [Sv("Local") EXCEPT !.label = "pool"]>>,
   <<Sv("Cluster"), [Sv("Cluster") EXCEPT !.label = "bad"]>>}
MCEdit == NodeEdits \cup PodEdits \cup SvcEdits

\* One label takes the place of another.
SwapEdit == {<<With(1, "balancer", ""), With(1, "pool", "x")>>}
SwapStart == {At([Nodes EXCEPT ![n1] = With(1, "balancer", "")], Pods, Sv("Cluster"))}

AllFaults == FaultKind
=============================================================================
