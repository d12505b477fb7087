----------------------------- MODULE NlbServers -----------------------------
(***************************************************************************)
(* The servers of one server group of an NLB: from the nodes, the Pods and *)
(* the Service in the cache of the controller to the cloud.                *)
(*                                                                         *)
(* Handlers for nodes, endpoints and Services decide whether a change is   *)
(* worth a pass (event_handler.go).  A pass builds the list of servers for *)
(* the traffic policy of the Service (server_groups.go, backend.go), lists *)
(* the group, and then adds, removes and updates servers in batches.  The  *)
(* cloud carries each call out as a job, for which waitJobFinish waits.    *)
(* NlbController has the calls around this one; there the servers of a     *)
(* group are a single value.                                               *)
(***************************************************************************)
EXTENDS Integers, FiniteSets, Functions

CONSTANTS
  Node,           \* nodes; a node keeps its name and address
  Pod,            \* endpoints, by address
  NodeVersion,    \* what a node may look like
  PodVersion,     \* what an endpoint may look like
  SvcVersion,     \* what the Service may look like
  Start,          \* [node, pod, svc] to start from
  Edit,           \* pairs of versions: the changes made to an object
  BatchNum,       \* MaxBackendNum: servers of one call
  EndpointSlice,  \* the feature gate of that name
  Faults,         \* kinds of faults, of FaultKind
  MaxEdits, MaxFaults,  \* bounds: changes and faults in one behaviour
  None

FaultKind == {"call", "poll", "slow", "job", "crash"}

Label == {"exclude", "balancer", "master", "type", "pool"}

\* labels maps the keys a node has to their values; ready is the status of
\* the Ready condition, None without any condition; inst is the instance,
\* which spec.providerID tells if parses.
ANode ==
  [labels : UNION {[K -> {"", "x"}] : K \in SUBSET Label}, taint : BOOLEAN,
   unsched : BOOLEAN, ready : {"True", "False", None}, inst : Int, parses : BOOLEAN]

\* port is the one found under the target port (0: none of that name), eni
\* the network interface of the address, shown whether the cloud tells it.
APod ==
  [node : Node \cup {None}, ready : BOOLEAN, port : Nat, eni : Int, shown : BOOLEAN]

\* label is the annotation backend-label, removeUnsched the annotation
\* remove-unscheduled-backend, attr stands for those on scheduler, connection
\* drain, client address and health check, bad for one that does not parse.
AService ==
  [policy : {"ENI", "Local", "Cluster"}, label : {"", "pool", "bad"}, removeUnsched : BOOLEAN,
   attr : {None, "a1", "a2", "bad"}]

ASSUME NlbServersAssumption ==
  /\ BatchNum \in Nat \ {0}
  /\ EndpointSlice \in BOOLEAN
  /\ Faults \subseteq FaultKind
  /\ MaxEdits \in Nat /\ MaxFaults \in Nat
  /\ NodeVersion \subseteq ANode
  /\ PodVersion \subseteq APod
  /\ SvcVersion \subseteq AService

VARIABLES
  node,      \* [Node -> ANode or None]: the nodes in the cache
  pod,       \* [Pod -> APod or None]: the endpoints in the cache
  svc,       \* the Service in the cache, or None
  queued,    \* whether a pass of the Service is due
  pc,        \* the next step of the pass
  want,      \* local.Servers of the pass
  wantAttr,  \* the attributes the annotations set, or None
  todo,      \* [op |-> servers]: what the pass has still to add, delete, update
  nodeCache, \* [Node -> Int or None]: instances looked up by address
  created,   \* whether the group is there
  group,     \* its servers in the cloud
  attr,      \* attributes of the group in the cloud, None for the defaults
  job,       \* the job the cloud works on, or None
  late,      \* history: a wait ended before its job or in spite of its failure
  missed,    \* history: since the latest pass a node changed in a way the handler is blind to
  edits, faults

vars == <<node, pod, svc, queued, pc, want, wantAttr, todo, nodeCache, created, group, attr, job,
          late, missed, edits, faults>>
pass == <<pc, want, wantAttr, todo>>
cloud == <<created, group, attr, job>>

Op == {"add", "del", "upd"}
NoWork == [o \in Op |-> {}]

NodePort == 30000
DefaultServerWeight == 100

Server ==
  [type : {"Ecs", "Eni"}, id : Int, ip : Pod \cup {None}, port : Nat, weight : Nat]

\* What the cloud works on: one call's servers.
Job == [op : Op, servers : SUBSET Server]

\* The cluster is finite, and None is none of the values it stands in for.
ASSUME ClusterAssumption ==
  /\ IsFiniteSet(Node) /\ IsFiniteSet(Pod)
  /\ None \notin SvcVersion /\ None \notin Job /\ None \notin APod
  /\ \A s \in Start : /\ s.node \in [Node -> NodeVersion \cup {None}]
                     /\ s.pod \in [Pod -> PodVersion \cup {None}]
                     /\ s.svc \in SvcVersion \cup {None}

-----------------------------------------------------------------------------
(* The nodes a load balancer may use *)

Has(n, l) == l \in DOMAIN n.labels

HasExcludeLabel(n) == Has(n, "exclude")
IsMasterNode(n) == Has(n, "master")
IsVK(n) == Has(n, "type") /\ n.labels["type"] = "x"
IsNodeExcludeFromLoadBalancer(n) == Has(n, "balancer") \/ HasExcludeLabel(n)

needExcludeFromLB(s, n) ==
  \/ IsMasterNode(n)
  \/ n.taint
  \/ n.unsched /\ s.removeUnsched
  \/ ~IsVK(n) /\ n.ready # "True"

filterOutByLabel(s, n) ==
  s.label # "" => Has(n, "pool") /\ n.labels["pool"] = "x"

Present == {n \in Node : node[n] # None}

GetNodes(s) ==
  {n \in Present : filterOutByLabel(s, node[n]) /\ ~needExcludeFromLB(s, node[n])}

\* An annotation backend-label that does not parse is met at the first node.
GetNodesFails(s) == s.label = "bad" /\ Present # {}

-----------------------------------------------------------------------------
(* The servers for a traffic policy *)

\* setBackendsFromEndpoints, setBackendsFromEndpointSlices: the ready
\* addresses.
Ready == {p \in Pod : pod[p] # None /\ pod[p].ready}

NodeFromProviderID(n) == node[n].parses

\* The instance of a node whose providerID does not parse is looked up by its
\* address and remembered for a year.
getInstanceIdByNode(n) == IF nodeCache[n] # None THEN nodeCache[n] ELSE node[n].inst

InstanceId(n) == IF NodeFromProviderID(n) THEN node[n].inst ELSE getInstanceIdByNode(n)

Ecs(n) ==
  [type |-> "Ecs", id |-> InstanceId(n), ip |-> None, port |-> NodePort,
   weight |-> DefaultServerWeight]

\* updateENIBackends
Eni(p) ==
  [type |-> "Eni", id |-> pod[p].eni, ip |-> p, port |-> pod[p].port,
   weight |-> DefaultServerWeight]

\* The Pods on virtual nodes; those on a node that is not found are skipped.
EciPods(s) == {p \in Ready : pod[p].node \in GetNodes(s) /\ IsVK(node[pod[p].node])}

EcsNodes(s) == {n \in GetNodes(s) : ~IsNodeExcludeFromLoadBalancer(node[n])}

\* Pods whose node becomes a server under the Local policy.
EcsPods(s) ==
  {p \in Ready : pod[p].node \in EcsNodes(s) /\ ~IsVK(node[pod[p].node])}

\* podNumberAlgorithm under the Local policy: an entry for each Pod, counted
\* by the server it is on, before entries of the same server become one.
LocalWeight(s, b) ==
  Cardinality({p \in EcsPods(s) : InstanceId(pod[p].node) = b.id})
    + Cardinality({p \in EciPods(s) : pod[p].eni = b.id})

\* One entry for each server id.
remoteDuplicatedECS(B) == {CHOOSE b \in B : b.id = i : i \in {b.id : b \in B}}

LocalEntries(s) == {Ecs(pod[p].node) : p \in EcsPods(s)} \cup {Eni(p) : p \in EciPods(s)}

setWeightBackends(s, B) ==
  IF s.policy = "Local" THEN {[b EXCEPT !.weight = LocalWeight(s, b)] : b \in B} ELSE B

buildENIBackends(s) == setWeightBackends(s, {Eni(p) : p \in Ready})
buildLocalBackends(s) == remoteDuplicatedECS(setWeightBackends(s, LocalEntries(s)))
buildClusterBackends(s) ==
  setWeightBackends(s, {Ecs(n) : n \in EcsNodes(s)} \cup {Eni(p) : p \in EciPods(s)})

setServerGroupServers(s) ==
  CASE s.policy = "ENI" -> buildENIBackends(s)
    [] s.policy = "Local" -> buildLocalBackends(s)
    [] OTHER -> buildClusterBackends(s)

\* The addresses whose network interface is asked for.
EniPods(s) == IF s.policy = "ENI" THEN Ready ELSE EciPods(s)

\* An endpoint without a node name (an empty host name with EndpointSlices),
\* or an address the cloud knows no interface of.
BackendsFail(s) ==
  \/ s.policy # "ENI" /\ ~EndpointSlice /\ \E p \in Ready : pod[p].node = None
  \/ \E p \in EniPods(s) : ~pod[p].shown

\* The nodes looked up by a pass.
LookedUp(s) ==
  LET Asked == CASE s.policy = "ENI" -> {}
                 [] s.policy = "Local" -> {pod[p].node : p \in EcsPods(s)}
                 [] OTHER -> EcsNodes(s)
  IN  {n \in Asked : ~NodeFromProviderID(n)}

\* An annotation of the Service cannot be parsed.
setServerGroupAttributeFails(s) == s.attr = "bad"

-----------------------------------------------------------------------------
(* The difference to the group *)

isServerEqual(a, b) == a.type = b.type /\ a.id = b.id /\ a.ip = b.ip

In(a, S) == \E b \in S : isServerEqual(a, b)

diff_ByValue(remote, local) ==
  [add |-> local \ remote, del |-> {r \in remote : ~In(r, local)}, upd |-> {}]

diff(remote, local) ==
  [add |-> {l \in local : ~In(l, remote)},
   del |-> {r \in remote : ~In(r, local)},
   upd |-> {l \in local : In(l, remote) /\ l \notin remote}]

\* What the listing shows while a job runs: servers being added too, those
\* being removed still.
ListNLBServers ==
  IF job # None /\ job.op = "add" THEN group \cup job.servers ELSE group

Effect(j) ==
  CASE j.op = "add" -> group \cup j.servers
    [] j.op = "del" -> {g \in group : ~In(g, j.servers)}
    [] OTHER -> {g \in group : ~In(g, j.servers)} \cup {s \in j.servers : In(s, group)}

-----------------------------------------------------------------------------
(* Handlers *)

canNodeSkipEventHandler(n) == HasExcludeLabel(n) \/ IsMasterNode(n)

\* A key the new labels lack reads as the empty value.
nodeLabelsChanged(old, new) ==
  \/ Cardinality(DOMAIN old) # Cardinality(DOMAIN new)
  \/ \E k \in DOMAIN old : old[k] # (IF k \in DOMAIN new THEN new[k] ELSE "")

nodeSpecChanged(old, new) ==
  \/ nodeLabelsChanged(old.labels, new.labels)
  \/ old.unsched # new.unsched
  \/ old.ready # new.ready

NodeEventNeeded_Either(old, new) ==
  \/ old = None /\ ~canNodeSkipEventHandler(new)
  \/ new = None /\ ~canNodeSkipEventHandler(old)
  \/ /\ old # None /\ new # None
     /\ ~canNodeSkipEventHandler(old) /\ ~canNodeSkipEventHandler(new)
     /\ nodeSpecChanged(old, new)

NodeEventNeeded(old, new) ==
  \/ old = None /\ ~canNodeSkipEventHandler(new)
  \/ new = None /\ ~canNodeSkipEventHandler(old)
  \/ /\ old # None /\ new # None
     /\ ~(canNodeSkipEventHandler(old) /\ canNodeSkipEventHandler(new))
     /\ nodeSpecChanged(old, new)

\* History: what the handler of nodes does not look at.  Taints are not
\* compared; a label with the empty value that gives way to another one reads
\* the same; a virtual node with the label exclude is passed over.
Unseen(v) == v = None \/ {"exclude", "master"} \cap DOMAIN v.labels # {}

BlindSpot(old, new) ==
  \/ /\ None \notin {old, new}
     /\ \/ old.taint # new.taint
        \/ \E k \in DOMAIN old.labels \ DOMAIN new.labels : old.labels[k] = ""
  \/ /\ Unseen(old) /\ Unseen(new)
     /\ \E v \in {old, new} \ {None} : "type" \in DOMAIN v.labels

\* Changes of endpoints and of nodes matter only with a Service in the cache;
\* it brings a pass of its own when it appears.
isEndpointProcessNeeded == svc # None

Editing == edits < MaxEdits /\ edits' = edits + 1

NodeChanges(n, v) ==
  /\ Editing
  /\ <<node[n], v>> \in Edit
  /\ node' = [node EXCEPT ![n] = v]
  /\ queued' = (queued \/ (svc # None /\ NodeEventNeeded(node[n], v)))
  /\ missed' = (missed \/ BlindSpot(node[n], v))
  /\ UNCHANGED <<pod, svc, pass, nodeCache, cloud, late, faults>>

PodChanges(p, v) ==
  /\ Editing
  /\ <<pod[p], v>> \in Edit
  /\ pod' = [pod EXCEPT ![p] = v]
  /\ queued' = (queued \/ isEndpointProcessNeeded)
  /\ UNCHANGED <<node, svc, pass, nodeCache, cloud, late, missed, faults>>

ServiceChanges(v) ==
  /\ Editing
  /\ <<svc, v>> \in Edit
  /\ svc' = v
  /\ queued' = TRUE
  /\ UNCHANGED <<node, pod, pass, nodeCache, cloud, late, missed, faults>>

\* The cloud comes to know the interface of an address; no event tells.
EniShown(p) ==
  /\ pod[p] # None /\ ~pod[p].shown
  /\ pod' = [pod EXCEPT ![p].shown = TRUE]
  /\ UNCHANGED <<node, svc, queued, pass, nodeCache, cloud, late, missed, edits, faults>>

-----------------------------------------------------------------------------
(* A pass *)

Idle == pc' = "idle" /\ want' = {} /\ wantAttr' = None /\ todo' = NoWork

Fail_Dropped == Idle /\ queued' = queued
\* A pass that returns an error is repeated.
Fail == Idle /\ queued' = TRUE

\* The Service, the nodes and the endpoints are read from the cache.
BuildLocalModel ==
  /\ pc = "idle" /\ queued
  /\ LET fails == \/ GetNodesFails(svc)
                  \/ setServerGroupAttributeFails(svc)
                  \/ BackendsFail(svc)
     IN
     /\ nodeCache' = [n \in Node |->
                       IF /\ ~GetNodesFails(svc) /\ ~setServerGroupAttributeFails(svc)
                          /\ n \in LookedUp(svc)
                       THEN InstanceId(n) ELSE nodeCache[n]]
     /\ \/ fails /\ Fail /\ UNCHANGED missed
        \/ /\ ~fails
           /\ queued' = FALSE /\ missed' = FALSE
           /\ pc' = "list"
           /\ want' = setServerGroupServers(svc)
           /\ wantAttr' = svc.attr
           /\ UNCHANGED todo
  /\ UNCHANGED <<node, pod, svc, cloud, late, edits, faults>>

\* The group is found by its name, or created with its attributes and
\* without servers.
applyVGroups ==
  /\ pc = "list"
  /\ \/ /\ created
        /\ todo' = diff(ListNLBServers, want)
        /\ pc' = IF wantAttr \in {None, attr} THEN "work" ELSE "attr"
        /\ UNCHANGED <<created, attr>>
     \/ /\ ~created
        /\ created' = TRUE
        /\ attr' = wantAttr
        /\ todo' = [NoWork EXCEPT !["add"] = want]
        /\ pc' = "work"
  /\ UNCHANGED <<node, pod, svc, queued, want, wantAttr, nodeCache, group, job, late, missed, edits,
                 faults>>

\* Only what an annotation sets is compared and changed.
UpdateServerGroup ==
  /\ pc = "attr"
  /\ attr' = wantAttr
  /\ pc' = "work"
  /\ UNCHANGED <<node, pod, svc, queued, want, wantAttr, todo, nodeCache, created, group, job,
                 late, missed, edits, faults>>

\* The operation whose batches are due.
NextOp_DeleteFirst ==
  IF todo["del"] # {} THEN "del" ELSE IF todo["add"] # {} THEN "add" ELSE "upd"

NextOp ==
  IF todo["add"] # {} THEN "add" ELSE IF todo["del"] # {} THEN "del" ELSE "upd"

\* AddNLBServers, RemoveNLBServers, UpdateNLBServers with up to MaxBackendNum
\* servers.  The cloud refuses a change of a group it has a job for.
Batch ==
  /\ pc = "work"
  /\ todo[NextOp] # {}
  /\ \/ /\ job = None
        /\ \E S \in SUBSET todo[NextOp] :
             /\ \/ Cardinality(S) = BatchNum
                \/ S = todo[NextOp] /\ Cardinality(S) < BatchNum
             /\ job' = [op |-> NextOp, servers |-> S]
             /\ todo' = [todo EXCEPT ![NextOp] = @ \ S]
        /\ pc' = "wait"
        /\ UNCHANGED <<queued, want, wantAttr>>
     \/ job # None /\ Fail /\ UNCHANGED job
  /\ UNCHANGED <<node, pod, svc, nodeCache, created, group, attr, late, missed, edits, faults>>

\* The job of the call is over.  A job that failed is never Succeeded, and
\* the polls run out without an error.
waitJobFinish ==
  /\ pc = "wait" /\ job = None
  /\ pc' = "work"
  /\ UNCHANGED <<node, pod, svc, queued, want, wantAttr, todo, nodeCache, cloud, late, missed, edits,
                 faults>>

PassEnds ==
  /\ pc = "work" /\ todo = NoWork
  /\ Idle
  /\ UNCHANGED <<node, pod, svc, queued, nodeCache, cloud, late, missed, edits, faults>>

Pass ==
  BuildLocalModel \/ applyVGroups \/ UpdateServerGroup \/ Batch \/ waitJobFinish \/ PassEnds

-----------------------------------------------------------------------------
(* The cloud and faults *)

JobEnds ==
  /\ job # None
  /\ group' = Effect(job)
  /\ job' = None
  /\ UNCHANGED <<node, pod, svc, queued, pass, nodeCache, created, attr, late, missed, edits, faults>>

Fault(kind) == kind \in Faults /\ faults < MaxFaults /\ faults' = faults + 1

\* A call is refused: a listing, a change of the group, or one of the calls
\* for the load balancer and its listeners around these.
CallFails ==
  /\ pc \in {"list", "attr", "work"}
  /\ Fault("call")
  /\ Fail
  /\ UNCHANGED <<node, pod, svc, nodeCache, cloud, late, missed, edits>>

\* GetJobStatus fails, which ends the wait and the pass.
PollFails ==
  /\ pc = "wait" /\ job # None
  /\ Fault("poll")
  /\ Fail
  /\ late' = TRUE
  /\ UNCHANGED <<node, pod, svc, nodeCache, cloud, missed, edits>>

\* The polls run out before the job ends; the call counts as done.
WaitTimesOut ==
  /\ pc = "wait" /\ job # None
  /\ Fault("slow")
  /\ pc' = "work"
  /\ late' = TRUE
  /\ UNCHANGED <<node, pod, svc, queued, want, wantAttr, todo, nodeCache, cloud, missed, edits>>

JobFails ==
  /\ job # None
  /\ Fault("job")
  /\ job' = None
  /\ late' = TRUE
  /\ UNCHANGED <<node, pod, svc, queued, pass, nodeCache, created, group, attr, missed, edits>>

\* The informers list everything anew.
Restart ==
  /\ Fault("crash")
  /\ Idle
  /\ queued' = (svc # None)
  /\ nodeCache' = [n \in Node |-> None]
  /\ late' = (late \/ job # None)
  /\ UNCHANGED <<node, pod, svc, cloud, missed, edits>>

Init ==
  /\ \E s \in Start : node = s.node /\ pod = s.pod /\ svc = s.svc /\ queued = (s.svc # None)
  /\ pc = "idle" /\ want = {} /\ wantAttr = None /\ todo = NoWork
  /\ nodeCache = [n \in Node |-> None]
  /\ created = FALSE /\ group = {} /\ attr = None /\ job = None
  /\ late = FALSE /\ missed = FALSE
  /\ edits = 0 /\ faults = 0

Change ==
  \/ \E n \in Node, v \in NodeVersion \cup {None} : NodeChanges(n, v)
  \/ \E p \in Pod, v \in PodVersion \cup {None} : PodChanges(p, v)
  \/ \E v \in SvcVersion : ServiceChanges(v)

Next ==
  \/ Change
  \/ \E p \in Pod : EniShown(p)
  \/ Pass
  \/ JobEnds
  \/ CallFails \/ PollFails \/ WaitTimesOut \/ JobFails \/ Restart

Spec == Init /\ [][Next]_vars

\* The worker runs, the cloud ends its jobs and comes to know addresses.
FairSpec ==
  /\ Spec
  /\ WF_vars(Pass)
  /\ WF_vars(JobEnds)
  /\ WF_vars(\E p \in Pod : EniShown(p))

-----------------------------------------------------------------------------
(* Properties *)

\* Every variable has its type, and a group never has a server twice: diff
\* compares what identifies a server, not its port and weight.
TypeOK ==
  /\ node \in [Node -> NodeVersion \cup {None}]
  /\ pod \in [Pod -> APod \cup {None}]
  /\ svc \in SvcVersion \cup {None}
  /\ queued \in BOOLEAN /\ late \in BOOLEAN /\ missed \in BOOLEAN /\ created \in BOOLEAN
  /\ pc \in {"idle", "list", "attr", "work", "wait"}
  /\ want \subseteq Server
  /\ todo \in [Op -> SUBSET Server]
  /\ nodeCache \in [Node -> Int \cup {None}]
  /\ job # None => job \in Job /\ Cardinality(job.servers) \in 1..BatchNum
  /\ {attr, wantAttr} \subseteq {None, "a1", "a2"}
  /\ group \subseteq Server
  /\ \A a, b \in group : isServerEqual(a, b) => a = b
  /\ edits \in 0..MaxEdits /\ faults \in 0..MaxFaults

Labelled(v, k) == k \in DOMAIN v.labels /\ v.labels[k] = "x"

\* The nodes that should get traffic on their node port.
Serving(n) ==
  /\ node[n] # None
  /\ {"exclude", "balancer", "master"} \cap DOMAIN node[n].labels = {}
  /\ ~node[n].taint
  /\ svc.removeUnsched => ~node[n].unsched
  /\ svc.label = "pool" => Labelled(node[n], "pool")
  /\ node[n].ready = "True" \/ Labelled(node[n], "type")

\* A Pod on a virtual node gets traffic itself, also if the node is marked
\* as excluded.
Virtual(n) ==
  /\ node[n] # None
  /\ Labelled(node[n], "type")
  /\ "master" \notin DOMAIN node[n].labels
  /\ ~node[n].taint
  /\ svc.removeUnsched => ~node[n].unsched
  /\ svc.label = "pool" => Labelled(node[n], "pool")

On(n) == {p \in Pod : pod[p] # None /\ pod[p].ready /\ pod[p].node = n}

\* The servers the Service should have now, by the documentation of the
\* three policies.
Expected ==
  LET Direct(P) == {[type |-> "Eni", id |-> pod[p].eni, ip |-> p, port |-> pod[p].port,
                     weight |-> IF svc.policy = "Local" THEN 1 ELSE 100] : p \in P}
      Through(N) == {[type |-> "Ecs", id |-> node[n].inst, ip |-> None, port |-> NodePort,
                      weight |-> IF svc.policy = "Local" THEN Cardinality(On(n)) ELSE 100] : n \in N}
      Eci == UNION {On(n) : n \in {m \in Node : Virtual(m)}}
  IN  CASE svc.policy = "ENI" -> Direct(UNION {On(n) : n \in Node \cup {None}})
        [] svc.policy = "Cluster" -> Through({n \in Node : Serving(n)}) \cup Direct(Eci)
        [] OTHER -> Through({n \in Node : Serving(n) /\ ~Virtual(n) /\ On(n) # {}}) \cup Direct(Eci)

InSync == created /\ group = Expected /\ svc.attr \in {None, attr}

Quiet == ~queued /\ pc = "idle" /\ job = None

\* When no pass is due or under way, the group has exactly the servers, with
\* the ports and weights, that the nodes, the Pods and the policy of the
\* Service call for: no change was overlooked by a handler, overtaken by
\* another or lost with a failed pass.  Without waits that ended early, as the
\* controller takes a job that failed or went on for one that succeeded, and
\* as long as nothing happened in the blind spots of the handler of nodes.
QuietInSync == Quiet /\ svc # None /\ ~late /\ ~missed => InSync

\* The same with the blind spots: nodeLabelsChanged notices every change of
\* labels without comparing the keys of the new ones (event_handler.go:486).
NoReverseCompare == Quiet /\ svc # None /\ ~late => InSync

Keys(S) == {<<s.type, s.id, s.ip>> : s \in S}

\* No server leaves the group before every server the pass wants is in it,
\* also if adding them took several batches or an earlier pass had failed: a
\* group is never without the servers it had and those it is to have.
ReplacementsFirst ==
  [][ ~late' /\ ~(Keys(group) \subseteq Keys(group'))
        => Keys(want) \subseteq Keys(group') ]_vars

\* An annotation that does not parse or an endpoint without a node stops
\* every pass until it is corrected.
Blocked ==
  /\ svc # None
  /\ \/ svc.label = "bad"
     \/ svc.attr = "bad"
     \/ \E p \in Pod : pod[p] # None /\ pod[p].node = None

\* When changes and faults stop, work comes to an end with the group in
\* step: an address whose interface the cloud does not show yet and a call
\* refused because of a job only delay it.
Converges == <>[](Blocked \/ (Quiet /\ (svc = None \/ late \/ missed \/ InSync)))
=============================================================================
