-------------------------- MODULE NlbServersProofs --------------------------
(***************************************************************************)
(* Proofs about NlbServers, for every number of nodes, Pods and servers,   *)
(* every batch size and any mix of changes and faults: a group never has   *)
(* a server twice, no server leaves it before its replacements are in, and *)
(* a group at rest has the servers that the cluster calls for.             *)
(***************************************************************************)
EXTENDS NlbServers, FiniteSetTheorems, TLAPS

Distinct(S) == \A a, b \in S : isServerEqual(a, b) => a = b

\* There is a Service whenever a pass is due or under way.
PassHasService == queued \/ pc # "idle" => svc # None

\* What a pass has to do comes from its list of servers, and none of those it
\* adds is in the listing, even though an older job may still be running.
WorkFits ==
  /\ Distinct(want) /\ IsFiniteSet(want) /\ \A o \in Op : IsFiniteSet(todo[o])
  /\ pc = "idle" => todo = NoWork
  /\ todo["add"] \subseteq want /\ todo["upd"] \subseteq want
  /\ \A s \in todo["add"] : ~In(s, ListNLBServers)

\* The running job is one batch of a group that is there.
JobFits ==
  job # None =>
    /\ created /\ IsFiniteSet(job.servers)
    /\ job.op # "del" => Distinct(job.servers)
    /\ job.op = "add" => \A s \in job.servers : ~In(s, group)

\* A group that is not there has no servers and is not worked on.
GroupFits ==
  /\ IsFiniteSet(group)
  /\ ~created => group = {} /\ pc \in {"idle", "list"}

ServersInv == TypeOK /\ PassHasService /\ WorkFits /\ JobFits /\ GroupFits

\* While every wait ended with its job: a job runs only while its pass waits,
\* every server wanted is in the group or on its way into it, and a job that
\* removes servers comes after all additions and removes none that is wanted.
OrderInv ==
  ~late =>
    /\ job # None => pc = "wait"
    /\ pc \in {"attr", "work", "wait"} =>
         \A w \in want : \/ In(w, group)
                         \/ w \in todo["add"]
                         \/ job # None /\ job.op = "add" /\ w \in job.servers
    /\ \A d \in todo["del"] : ~In(d, want)
    /\ job # None /\ job.op = "del" =>
         todo["add"] = {} /\ \A j \in job.servers : ~In(j, want)

-----------------------------------------------------------------------------
(* Servers are the same when type, id and ip are                           *)

\* isServerEqual is an equivalence.
LEMMA EqualIsEquivalence ==
  /\ \A a : isServerEqual(a, a)
  /\ \A a, b : isServerEqual(a, b) => isServerEqual(b, a)
  /\ \A a, b, c : isServerEqual(a, b) /\ isServerEqual(b, c) => isServerEqual(a, c)
BY DEF isServerEqual

\* A server that is in a set stays in it under a larger one.
LEMMA InMonotone ==
  ASSUME NEW a, NEW S, NEW T, S \subseteq T, In(a, S)
  PROVE  In(a, T)
BY DEF In

\* What a job leaves of the group: additions join it, removals leave the rest,
\* updates keep who is in it.
LEMMA EffectMembers ==
  ASSUME NEW j
  PROVE  /\ j.op = "add" => Effect(j) = group \cup j.servers
         /\ j.op = "del" => Effect(j) \subseteq group
         /\ j.op \notin {"add", "del"} => \A a : In(a, Effect(j)) <=> In(a, group)
<1>1. j.op = "add" => Effect(j) = group \cup j.servers
  BY DEF Effect
<1>2. j.op = "del" => Effect(j) \subseteq group
  BY DEF Effect
<1>3. ASSUME j.op \notin {"add", "del"}, NEW a PROVE In(a, Effect(j)) <=> In(a, group)
  <2>1. Effect(j) = {g \in group : ~In(g, j.servers)} \cup {s \in j.servers : In(s, group)}
    BY <1>3 DEF Effect
  <2>2. ASSUME In(a, Effect(j)) PROVE In(a, group)
    BY <2>1, <2>2, EqualIsEquivalence DEF In
  <2>3. ASSUME In(a, group) PROVE In(a, Effect(j))
    <3>1. PICK g \in group : isServerEqual(a, g)
      BY <2>3 DEF In
    <3>2. CASE ~In(g, j.servers)
      BY <2>1, <3>1, <3>2 DEF In
    <3>3. CASE In(g, j.servers)
      <4>1. PICK s \in j.servers : isServerEqual(g, s)
        BY <3>3 DEF In
      <4>2. In(s, group) /\ isServerEqual(a, s)
        BY <3>1, <4>1, EqualIsEquivalence DEF In
      <4> QED
        BY <2>1, <4>1, <4>2 DEF In
    <3> QED
      BY <3>2, <3>3
  <2> QED
    BY <2>2, <2>3
<1> QED
  BY <1>1, <1>2, <1>3

-----------------------------------------------------------------------------
(* The list of servers                                                     *)

\* The image of a finite set under a function is finite.
LEMMA FiniteImage ==
  ASSUME NEW S, IsFiniteSet(S), NEW f, f \in [S -> {f[x] : x \in S}]
  PROVE  IsFiniteSet({f[x] : x \in S})
<1>1. f \in Surjection(S, {f[x] : x \in S})
  BY DEF Surjection
<1> QED
  BY <1>1, FS_Surjection

\* The number of Pods of a server is a number.
LEMMA LocalWeightType ==
  ASSUME NEW s, NEW b PROVE LocalWeight(s, b) \in Nat
<1>1. ASSUME NEW P, P \subseteq Pod PROVE Cardinality(P) \in Nat
  BY <1>1, ClusterAssumption, FS_Subset, FS_CardinalityType
<1>2. /\ {p \in EcsPods(s) : InstanceId(pod[p].node) = b.id} \subseteq Pod
      /\ {p \in EciPods(s) : pod[p].eni = b.id} \subseteq Pod
  BY DEF EcsPods, EciPods, Ready
<1> DEFINE A == {p \in EcsPods(s) : InstanceId(pod[p].node) = b.id}
           B == {p \in EciPods(s) : pod[p].eni = b.id}
<1>3. Cardinality(A) \in Nat /\ Cardinality(B) \in Nat
  BY <1>1, <1>2
<1> HIDE DEF A, B
<1>4. Cardinality(A) + Cardinality(B) \in Nat
  BY <1>3
<1> QED
  BY <1>4 DEF LocalWeight, A, B

\* A node is a server of its instance, a Pod one of its interface.
LEMMA EntryTypes ==
  ASSUME TypeOK
  PROVE  /\ \A n \in Present : Ecs(n) \in Server
         /\ \A p \in Ready : Eni(p) \in Server
<1>1. ASSUME NEW n \in Present PROVE Ecs(n) \in Server
  <2>1. node[n] \in ANode /\ n \in Node
    BY NlbServersAssumption DEF Present, TypeOK
  <2>2. InstanceId(n) \in Int
    BY <2>1 DEF InstanceId, getInstanceIdByNode, TypeOK, ANode
  <2> QED
    BY <2>2 DEF Ecs, Server, NodePort, DefaultServerWeight
<1>2. ASSUME NEW p \in Ready PROVE Eni(p) \in Server
  <2>1. pod[p] \in APod /\ p \in Pod
    BY DEF Ready, TypeOK
  <2> QED
    BY <2>1 DEF Eni, Server, DefaultServerWeight, APod
<1> QED
  BY <1>1, <1>2

\* Sets of entries: made of servers, finite, and without a server twice, since
\* the entry of a node depends on its instance only.
LEMMA EntriesFit ==
  ASSUME TypeOK, NEW N, N \subseteq Present, NEW P, P \subseteq Ready
  PROVE  LET B == {Ecs(n) : n \in N} \cup {Eni(p) : p \in P}
         IN  B \subseteq Server /\ IsFiniteSet(B) /\ Distinct(B)
<1> DEFINE E == {Ecs(n) : n \in N}
           I == {Eni(p) : p \in P}
<1>1. E \cup I \subseteq Server
  BY EntryTypes
<1>2. IsFiniteSet(N) /\ IsFiniteSet(P)
  BY ClusterAssumption, FS_Subset DEF Present, Ready
<1>3. IsFiniteSet(E)
  <2> DEFINE f == [n \in N |-> Ecs(n)]
  <2>1. f \in [N -> {f[x] : x \in N}] /\ {f[x] : x \in N} = E
    OBVIOUS
  <2> HIDE DEF f, E
  <2> QED
    BY <1>2, <2>1, FiniteImage
<1>4. IsFiniteSet(I)
  <2> DEFINE f == [p \in P |-> Eni(p)]
  <2>1. f \in [P -> {f[x] : x \in P}] /\ {f[x] : x \in P} = I
    OBVIOUS
  <2> HIDE DEF f, I
  <2> QED
    BY <1>2, <2>1, FiniteImage
<1>5. IsFiniteSet(E \cup I)
  BY <1>3, <1>4, FS_Union
<1>6. Distinct(E \cup I)
  <2> SUFFICES ASSUME NEW a \in E \cup I, NEW b \in E \cup I, isServerEqual(a, b)
               PROVE  a = b
    BY DEF Distinct
  <2>1. a \in E /\ b \in E => a = b
    BY DEF isServerEqual, Ecs
  <2>2. a \in I /\ b \in I => a = b
    BY DEF isServerEqual, Eni
  <2>3. (a \in E \/ a \in I) /\ (b \in E \/ b \in I)
    OBVIOUS
  <2>4. ~(a \in E /\ b \in I) /\ ~(a \in I /\ b \in E)
    BY DEF isServerEqual, Ecs, Eni
  <2> QED
    BY <2>1, <2>2, <2>3, <2>4
<1> QED
  BY <1>1, <1>5, <1>6

\* Whatever the policy, the list of a pass names no server twice.
LEMMA WantFits ==
  ASSUME TypeOK, NEW s
  PROVE  LET W == setServerGroupServers(s)
         IN  W \subseteq Server /\ IsFiniteSet(W) /\ Distinct(W)
<1>1. /\ EcsNodes(s) \subseteq Present /\ EciPods(s) \subseteq Ready
      /\ {pod[p].node : p \in EcsPods(s)} \subseteq Present
  BY DEF EcsNodes, GetNodes, EciPods, EcsPods
<1>2. CASE s.policy = "ENI"
  <2>1. setServerGroupServers(s) = {Ecs(n) : n \in {}} \cup {Eni(p) : p \in Ready}
    BY <1>2 DEF setServerGroupServers, buildENIBackends, setWeightBackends
  <2> QED
    BY <2>1, EntriesFit
<1>3. CASE s.policy = "Local"
  <2> DEFINE B == LocalEntries(s)
             V == {[b EXCEPT !.weight = LocalWeight(s, b)] : b \in B}
             W == setServerGroupServers(s)
  <2>1. W = {CHOOSE b \in V : b.id = i : i \in {b.id : b \in V}}
    BY <1>3 DEF setServerGroupServers, buildLocalBackends, remoteDuplicatedECS, setWeightBackends
  <2>2. B = {Ecs(n) : n \in {pod[p].node : p \in EcsPods(s)}} \cup {Eni(p) : p \in EciPods(s)}
    BY DEF LocalEntries
  <2>3. B \subseteq Server /\ IsFiniteSet(B)
    BY <1>1, <2>2, EntriesFit
  <2>4. V \subseteq Server
    BY <2>3, LocalWeightType DEF Server
  <2>5. IsFiniteSet(V)
    <3> DEFINE f == [b \in B |-> [b EXCEPT !.weight = LocalWeight(s, b)]]
    <3>1. f \in [B -> {f[x] : x \in B}] /\ {f[x] : x \in B} = V
      OBVIOUS
    <3> HIDE DEF f, B, V
    <3> QED
      BY <2>3, <3>1, FiniteImage
  <2> HIDE DEF B, V, W
  <2>6. W \subseteq V
    BY <2>1
  <2>7. Distinct(W)
    <3> DEFINE First(i) == CHOOSE b \in V : b.id = i
    <3>1. ASSUME NEW w \in W PROVE w = First(w.id)
      <4>1. PICK c \in V : w = First(c.id)
        BY <2>1
      <4>2. w.id = c.id
        BY <4>1
      <4> QED
        BY <4>1, <4>2
    <3> HIDE DEF First
    <3> QED
      BY <3>1 DEF Distinct, isServerEqual
  <2>8. W \subseteq Server /\ IsFiniteSet(W)
    BY <2>4, <2>5, <2>6, FS_Subset
  <2> QED
    BY <2>7, <2>8 DEF W
<1>4. CASE s.policy \notin {"ENI", "Local"}
  <2>1. setServerGroupServers(s)
          = {Ecs(n) : n \in EcsNodes(s)} \cup {Eni(p) : p \in EciPods(s)}
    BY <1>4 DEF setServerGroupServers, buildClusterBackends, setWeightBackends
  <2> QED
    BY <1>1, <2>1, EntriesFit
<1> QED
  BY <1>2, <1>3, <1>4

-----------------------------------------------------------------------------
(* The invariant                                                           *)

\* The invariants hold at first.
LEMMA ServersInit == Init => ServersInv /\ OrderInv
<1> SUFFICES ASSUME Init PROVE ServersInv /\ OrderInv
  OBVIOUS
<1> USE NlbServersAssumption, ClusterAssumption
<1>1. PICK s \in Start : node = s.node /\ pod = s.pod /\ svc = s.svc /\ queued = (s.svc # None)
  BY DEF Init
<1>2. node \in [Node -> NodeVersion \cup {None}] /\ svc \in SvcVersion \cup {None}
  BY <1>1
<1>3. pod \in [Pod -> APod \cup {None}]
  BY <1>1
<1>4. todo \in [Op -> SUBSET Server] /\ \A o \in Op : todo[o] = {}
  BY DEF Init, NoWork
<1>5. TypeOK
  <2>1. queued \in BOOLEAN
    BY <1>1
  <2>2. \A a, b \in group : isServerEqual(a, b) => a = b
    BY DEF Init
  <2>3. edits \in 0..MaxEdits /\ faults \in 0..MaxFaults
    BY DEF Init
  <2> QED
    BY <1>2, <1>3, <1>4, <2>1, <2>2, <2>3 DEF Init, TypeOK
<1>6. PassHasService
  BY <1>1 DEF Init, PassHasService
<1>7. WorkFits /\ JobFits /\ GroupFits
  BY <1>4, FS_EmptySet DEF Init, WorkFits, JobFits, GroupFits, Distinct, Op
<1>8. OrderInv
  BY <1>4 DEF Init, OrderInv, Op
<1> QED
  BY <1>5, <1>6, <1>7, <1>8 DEF ServersInv

\* What the invariant says of the work of a pass that has ended.
LEMMA IdleFits ==
  ASSUME Idle
  PROVE  /\ want' = {} /\ todo' \in [Op -> SUBSET Server] /\ \A o \in Op : todo'[o] = {}
         /\ WorkFits'
<1>1. /\ want' = {} /\ todo' = NoWork /\ todo' \in [Op -> SUBSET Server]
      /\ \A o \in Op : todo'[o] = {}
  BY DEF Idle, NoWork
<1> QED
  BY <1>1, FS_EmptySet DEF WorkFits, Distinct, Op

\* The nodes, the Pods and the Service change; the pass and the cloud do not
\* see it.
LEMMA ChangeKeeps ==
  ASSUME ServersInv, OrderInv, Change \/ \E p \in Pod : EniShown(p)
  PROVE  ServersInv' /\ OrderInv'
<1> USE NlbServersAssumption, ClusterAssumption DEF ServersInv
<1>1. UNCHANGED <<pass, nodeCache, cloud, late, faults>>
  BY DEF Change, NodeChanges, PodChanges, ServiceChanges, EniShown
<1>2. WorkFits' /\ JobFits' /\ GroupFits' /\ OrderInv'
  BY <1>1 DEF pass, cloud, WorkFits, JobFits, GroupFits, OrderInv, ListNLBServers
<1>3. missed' \in BOOLEAN
  BY DEF Change, NodeChanges, PodChanges, ServiceChanges, EniShown, TypeOK
<1>4. ASSUME NEW n \in Node, NEW v \in NodeVersion \cup {None}, NodeChanges(n, v)
      PROVE  TypeOK' /\ PassHasService'
  <2>1. /\ edits' \in 0..MaxEdits /\ node' \in [Node -> NodeVersion \cup {None}]
        /\ queued' \in BOOLEAN /\ (queued' => queued \/ svc # None)
        /\ UNCHANGED <<pod, svc>>
    BY <1>4 DEF NodeChanges, Editing, TypeOK
  <2> QED
    BY <1>1, <1>3, <2>1 DEF pass, cloud, TypeOK, PassHasService
<1>5. ASSUME NEW p \in Pod, NEW v \in PodVersion \cup {None}, PodChanges(p, v)
      PROVE  TypeOK' /\ PassHasService'
  <2>1. /\ edits' \in 0..MaxEdits /\ pod' \in [Pod -> APod \cup {None}]
        /\ queued' \in BOOLEAN /\ (queued' => queued \/ svc # None)
        /\ UNCHANGED <<node, svc>>
    BY <1>5 DEF PodChanges, Editing, TypeOK, isEndpointProcessNeeded
  <2> QED
    BY <1>1, <1>3, <2>1 DEF pass, cloud, TypeOK, PassHasService
<1>6. ASSUME NEW v \in SvcVersion, ServiceChanges(v)
      PROVE  TypeOK' /\ PassHasService'
  <2>1. edits' \in 0..MaxEdits /\ svc' = v /\ queued' = TRUE /\ UNCHANGED <<node, pod>>
    BY <1>6 DEF ServiceChanges, Editing, TypeOK
  <2> QED
    BY <1>1, <1>3, <2>1 DEF pass, cloud, TypeOK, PassHasService
<1>7. ASSUME NEW p \in Pod, EniShown(p)
      PROVE  TypeOK' /\ PassHasService'
  <2>1. pod' \in [Pod -> APod \cup {None}] /\ UNCHANGED <<node, svc, queued, edits>>
    <3>1. pod[p] \in APod /\ pod' = [pod EXCEPT ![p] = [pod[p] EXCEPT !.shown = TRUE]]
      BY <1>7 DEF EniShown, TypeOK
    <3>2. [pod[p] EXCEPT !.shown = TRUE] \in APod
      BY <3>1 DEF APod
    <3> QED
      BY <1>7, <3>1, <3>2 DEF EniShown, TypeOK
  <2> QED
    BY <1>1, <1>3, <2>1 DEF pass, cloud, TypeOK, PassHasService
<1> QED
  BY <1>2, <1>4, <1>5, <1>6, <1>7 DEF Change

\* The pass that fails or ends leaves nothing behind that it had to do.
LEMMA EndKeeps ==
  ASSUME ServersInv, OrderInv, Idle, queued' \in BOOLEAN, queued' => svc # None,
         UNCHANGED <<node, pod, svc, cloud, missed, edits>>, faults' \in 0..MaxFaults,
         nodeCache' \in [Node -> Int \cup {None}],
         late' \in BOOLEAN, late' \/ (~late /\ job = None)
  PROVE  ServersInv' /\ OrderInv'
<1> USE DEF ServersInv
<1>1. /\ want' = {} /\ todo' \in [Op -> SUBSET Server] /\ \A o \in Op : todo'[o] = {}
      /\ WorkFits'
  BY IdleFits
<1>2. TypeOK'
  BY <1>1 DEF Idle, TypeOK, cloud
<1>3. PassHasService' /\ JobFits' /\ GroupFits'
  BY DEF Idle, PassHasService, JobFits, GroupFits, cloud
<1>4. OrderInv'
  BY <1>1 DEF Idle, OrderInv, cloud, Op
<1> QED
  BY <1>1, <1>2, <1>3, <1>4

\* The list of a pass is built, or refused.
LEMMA BuildKeeps ==
  ASSUME ServersInv, OrderInv, BuildLocalModel
  PROVE  ServersInv' /\ OrderInv'
<1> USE NlbServersAssumption, ClusterAssumption DEF ServersInv
<1>1. /\ pc = "idle" /\ queued /\ svc # None /\ svc \in SvcVersion
      /\ UNCHANGED <<node, pod, svc, cloud, late, edits, faults>>
  BY DEF BuildLocalModel, PassHasService, TypeOK
<1>2. nodeCache' \in [Node -> Int \cup {None}]
  <2>1. ASSUME NEW n \in LookedUp(svc), n \in Node PROVE InstanceId(n) \in Int
    <3>1. n \in Present
      BY <2>1 DEF LookedUp, EcsPods, EcsNodes, GetNodes
    <3>2. Ecs(n) \in Server
      BY <3>1, EntryTypes
    <3> QED
      BY <3>2 DEF Ecs, Server
  <2>2. PICK M : nodeCache' = [n \in Node |->
                   IF M /\ n \in LookedUp(svc) THEN InstanceId(n) ELSE nodeCache[n]]
    BY DEF BuildLocalModel
  <2> QED
    BY <2>1, <2>2 DEF TypeOK
<1>3. CASE Fail /\ UNCHANGED missed
  <2>1. job # None => late
    BY <1>1 DEF OrderInv
  <2> QED
    BY <1>1, <1>2, <1>3, <2>1, EndKeeps DEF Fail, TypeOK
<1>4. CASE /\ ~setServerGroupAttributeFails(svc) /\ queued' = FALSE /\ pc' = "list"
           /\ missed' \in BOOLEAN
           /\ want' = setServerGroupServers(svc) /\ wantAttr' = svc.attr /\ todo' = todo
  <2>1. want' \subseteq Server /\ IsFiniteSet(want') /\ Distinct(want')
    BY <1>4, WantFits
  <2>2. wantAttr' \in {None, "a1", "a2"}
    BY <1>1, <1>4 DEF setServerGroupAttributeFails, AService
  <2>3. \A o \in Op : todo[o] = {} /\ todo'[o] = {}
    BY <1>1, <1>4 DEF WorkFits, NoWork
  <2>4. TypeOK'
    BY <1>1, <1>2, <1>4, <2>1, <2>2 DEF TypeOK, cloud
  <2>5. PassHasService' /\ JobFits' /\ GroupFits'
    BY <1>1, <1>4 DEF PassHasService, JobFits, GroupFits, cloud
  <2>6. WorkFits'
    BY <1>4, <2>1, <2>3, FS_EmptySet DEF WorkFits, Op, Distinct
  <2>7. OrderInv'
    BY <1>1, <1>4, <2>3 DEF OrderInv, cloud, Op
  <2> QED
    BY <2>4, <2>5, <2>6, <2>7
<1> QED
  BY <1>3, <1>4 DEF BuildLocalModel

\* The difference to the listing adds what is not in it and removes what is
\* not wanted.
LEMMA ApplyKeeps ==
  ASSUME ServersInv, OrderInv, applyVGroups
  PROVE  ServersInv' /\ OrderInv'
<1> USE NlbServersAssumption, ClusterAssumption DEF ServersInv
<1>1. /\ pc = "list" /\ created' = TRUE
      /\ UNCHANGED <<node, pod, svc, queued, want, wantAttr, nodeCache, group, job, late, missed, edits, faults>>
      /\ pc' \in {"work", "attr"} /\ attr' \in {None, "a1", "a2"}
  BY DEF applyVGroups, TypeOK
<1>2. ListNLBServers \subseteq Server /\ IsFiniteSet(ListNLBServers)
  <2>1. CASE job # None /\ job.op = "add"
    <3>1. job.servers \subseteq Server /\ IsFiniteSet(job.servers)
      BY <2>1 DEF TypeOK, Job, JobFits
    <3>2. IsFiniteSet(group) /\ group \subseteq Server
      BY DEF TypeOK, GroupFits
    <3>3. IsFiniteSet(group \cup job.servers)
      BY <3>1, <3>2, FS_Union
    <3> QED
      BY <2>1, <3>1, <3>2, <3>3 DEF ListNLBServers
  <2>2. CASE ~(job # None /\ job.op = "add")
    BY <2>2 DEF ListNLBServers, TypeOK, GroupFits
  <2> QED
    BY <2>1, <2>2
<1>3. /\ todo' \in [Op -> SUBSET Server] /\ \A o \in Op : IsFiniteSet(todo'[o])
      /\ todo'["add"] = {l \in want : ~In(l, ListNLBServers)}
      /\ todo'["upd"] \subseteq want
      /\ \A d \in todo'["del"] : ~In(d, want)
  <2>1. want \subseteq Server /\ IsFiniteSet(want)
    BY DEF TypeOK, WorkFits
  <2>2. \A S : S \subseteq want \/ S \subseteq ListNLBServers => IsFiniteSet(S)
    BY <1>2, <2>1, FS_Subset
  <2>3. CASE created /\ todo' = diff(ListNLBServers, want)
    <3>1. /\ todo' \in [Op -> SUBSET Server]
          /\ todo'["add"] = {l \in want : ~In(l, ListNLBServers)}
          /\ todo'["upd"] = {l \in want : In(l, ListNLBServers) /\ l \notin ListNLBServers}
          /\ todo'["del"] = {r \in ListNLBServers : ~In(r, want)}
      BY <1>2, <2>1, <2>3 DEF diff, Op
    <3>2. \A o \in Op : todo'[o] \subseteq want \/ todo'[o] \subseteq ListNLBServers
      BY <3>1 DEF Op
    <3> QED
      BY <2>2, <3>1, <3>2
  <2>4. CASE ~created /\ todo' = [NoWork EXCEPT !["add"] = want]
    <3>1. /\ todo' \in [Op -> SUBSET Server]
          /\ todo'["add"] = want /\ todo'["upd"] = {} /\ todo'["del"] = {}
      BY <2>1, <2>4 DEF NoWork, Op
    <3>2. ListNLBServers = {}
      BY <2>4 DEF ListNLBServers, JobFits, GroupFits
    <3>3. want = {l \in want : ~In(l, ListNLBServers)}
      BY <3>2 DEF In
    <3> QED
      BY <2>1, <3>1, <3>3, FS_EmptySet DEF Op
  <2> QED
    BY <2>3, <2>4 DEF applyVGroups
<1>4. ListNLBServers' = ListNLBServers
  BY <1>1 DEF ListNLBServers
<1>5. TypeOK' /\ PassHasService' /\ GroupFits'
  BY <1>1, <1>3 DEF TypeOK, PassHasService, GroupFits
<1>6. WorkFits' /\ JobFits'
  BY <1>1, <1>3, <1>4 DEF WorkFits, JobFits, Distinct
<1>7. OrderInv'
  <2>1. ASSUME ~late' PROVE job = None /\ job' = None /\ ListNLBServers = group
    BY <1>1, <2>1 DEF OrderInv, ListNLBServers
  <2> QED
    BY <1>1, <1>3, <2>1 DEF OrderInv
<1> QED
  BY <1>5, <1>6, <1>7

\* A batch takes some of the servers of the operation that is due.
LEMMA BatchKeeps ==
  ASSUME ServersInv, OrderInv, Batch
  PROVE  ServersInv' /\ OrderInv'
<1> USE NlbServersAssumption, ClusterAssumption DEF ServersInv
<1> DEFINE op == NextOp
<1>1. /\ pc = "work" /\ todo[op] # {} /\ op \in Op
      /\ UNCHANGED <<node, pod, svc, nodeCache, created, group, attr, late, missed, edits, faults>>
  BY DEF Batch, NextOp, Op
<1>2. CASE job # None /\ Fail /\ UNCHANGED job
  <2>1. late
    BY <1>1, <1>2 DEF OrderInv
  <2> QED
    BY <1>1, <1>2, <2>1, EndKeeps DEF Fail, TypeOK, cloud, PassHasService
<1>3. ASSUME job = None, pc' = "wait", UNCHANGED <<queued, want, wantAttr>>,
             NEW S \in SUBSET todo[op],
             Cardinality(S) = BatchNum \/ (S = todo[op] /\ Cardinality(S) < BatchNum),
             job' = [op |-> op, servers |-> S],
             todo' = [todo EXCEPT ![op] = @ \ S]
      PROVE  ServersInv' /\ OrderInv'
  <2> HIDE DEF op
  <2>1. IsFiniteSet(S) /\ S \subseteq Server
    BY <1>1, FS_Subset DEF WorkFits, TypeOK
  <2>2. Cardinality(S) \in 1..BatchNum
    <3>1. Cardinality(S) \in Nat
      BY <2>1, FS_CardinalityType
    <3>2. CASE Cardinality(S) = BatchNum
      BY <3>1, <3>2
    <3>3. CASE S = todo[op] /\ Cardinality(S) < BatchNum
      <4>1. Cardinality(S) # 0
        BY <1>1, <2>1, <3>3, FS_EmptySet
      <4> QED
        BY <3>1, <3>3, <4>1
    <3> QED
      BY <1>3, <3>2, <3>3
  <2>3. job' \in Job /\ job' # None /\ job'.op = op /\ job'.servers = S
    BY <1>1, <1>3, <2>1 DEF Job
  <2>4. /\ todo' \in [Op -> SUBSET Server]
        /\ \A o \in Op : todo'[o] \subseteq todo[o]
        /\ todo'[op] = todo[op] \ S /\ \A o \in Op \ {op} : todo'[o] = todo[o]
    BY <1>1, <1>3 DEF TypeOK
  <2>5. TypeOK' /\ PassHasService' /\ GroupFits'
    BY <1>1, <1>3, <2>2, <2>3, <2>4 DEF TypeOK, PassHasService, GroupFits
  <2>6. ListNLBServers = group
    BY <1>3 DEF ListNLBServers
  <2>7. /\ op = "add" => \A s \in S : ~In(s, group)
        /\ op # "del" => S \subseteq want
    BY <1>1, <1>3, <2>6 DEF WorkFits, Op
  <2>8. JobFits'
    <3>1. created
      BY <1>1 DEF GroupFits, TypeOK
    <3> QED
      BY <1>1, <1>3, <2>1, <2>3, <2>7, <3>1 DEF JobFits, WorkFits, Distinct
  <2>9. WorkFits'
    <3>1. \A o \in Op : IsFiniteSet(todo'[o])
      BY <2>4, FS_Subset DEF WorkFits
    <3>2. todo'["add"] \subseteq want' /\ todo'["upd"] \subseteq want'
      BY <1>3, <2>4 DEF WorkFits, Op
    <3>3. ASSUME NEW s \in todo'["add"] PROVE ~In(s, ListNLBServers')
      <4>1. s \in todo["add"] /\ ~In(s, group)
        BY <2>4, <2>6 DEF WorkFits, Op
      <4>2. CASE op = "add"
        <5>1. ListNLBServers' = group \cup S /\ s \notin S /\ s \in want
          BY <1>1, <2>3, <2>4, <4>1, <4>2 DEF ListNLBServers, WorkFits
        <5>2. ~In(s, S)
          BY <2>7, <4>2, <5>1 DEF In, WorkFits, Distinct
        <5> QED
          BY <4>1, <5>1, <5>2 DEF In
      <4>3. CASE op # "add"
        BY <1>1, <2>3, <4>1, <4>3 DEF ListNLBServers
      <4> QED
        BY <4>2, <4>3
    <3> QED
      BY <1>3, <3>1, <3>2, <3>3 DEF WorkFits
  <2>10. OrderInv'
    <3> SUFFICES ASSUME ~late' PROVE OrderInv'
      BY DEF OrderInv
    <3>1. \A w \in want : In(w, group) \/ w \in todo["add"]
      BY <1>1, <1>3 DEF OrderInv
    <3>2. \A w \in want' : In(w, group') \/ w \in todo'["add"] \/ (job'.op = "add" /\ w \in job'.servers)
      BY <1>1, <1>3, <2>3, <2>4, <3>1 DEF Op
    <3>3. \A d \in todo["del"] : ~In(d, want)
      BY <1>1 DEF OrderInv
    <3>4. op = "del" => todo["add"] = {}
      BY DEF op, NextOp
    <3> QED
      BY <1>1, <1>3, <2>3, <2>4, <3>2, <3>3, <3>4 DEF OrderInv, Op
  <2> QED
    BY <2>5, <2>8, <2>9, <2>10
<1> QED
  BY <1>2, <1>3 DEF Batch

\* A job ends: what it adds was not in the group.
LEMMA JobEndsKeeps ==
  ASSUME ServersInv, OrderInv, JobEnds
  PROVE  ServersInv' /\ OrderInv'
<1> USE DEF ServersInv
<1>1. /\ job # None /\ job \in Job /\ group' = Effect(job) /\ job' = None
      /\ UNCHANGED <<node, pod, svc, queued, pass, nodeCache, created, attr, late, missed, edits, faults>>
  BY DEF JobEnds, TypeOK
<1>2. /\ created /\ IsFiniteSet(job.servers) /\ job.servers \subseteq Server /\ job.op \in Op
      /\ job.op # "del" => Distinct(job.servers)
  BY <1>1 DEF JobFits, Job
<1>3. group' \subseteq group \cup job.servers
  BY <1>1 DEF Effect
<1>4. IsFiniteSet(group') /\ group' \subseteq Server
  <2>1. IsFiniteSet(group \cup job.servers)
    BY <1>2, FS_Union DEF GroupFits
  <2> QED
    BY <1>2, <1>3, <2>1, FS_Subset DEF TypeOK
<1>5. Distinct(group')
  <2>1. Distinct(group)
    BY DEF TypeOK, Distinct
  <2>2. CASE job.op = "add"
    <3>1. group' = group \cup job.servers /\ \A s \in job.servers : ~In(s, group)
      BY <1>1, <2>2, EffectMembers DEF JobFits
    <3> QED
      BY <1>2, <2>1, <2>2, <3>1, EqualIsEquivalence DEF Distinct, In
  <2>3. CASE job.op = "del"
    <3>1. group' \subseteq group
      BY <1>1, <2>3, EffectMembers
    <3> QED
      BY <2>1, <3>1 DEF Distinct
  <2>4. CASE job.op = "upd"
    <3>1. group' = {g \in group : ~In(g, job.servers)} \cup {s \in job.servers : In(s, group)}
      BY <1>1, <2>4 DEF Effect
    <3> SUFFICES ASSUME NEW a \in group', NEW b \in group', isServerEqual(a, b)
                 PROVE  a = b
      BY DEF Distinct
    <3>2. CASE a \in group /\ ~In(a, job.servers)
      <4>1. b \notin job.servers
        BY <3>2 DEF In
      <4> QED
        BY <2>1, <3>1, <3>2, <4>1 DEF Distinct
    <3>3. CASE a \in job.servers
      <4>1. b \in job.servers
        BY <3>1, <3>3, EqualIsEquivalence DEF In
      <4> QED
        BY <1>2, <2>4, <3>3, <4>1 DEF Distinct
    <3> QED
      BY <3>1, <3>2, <3>3
  <2> QED
    BY <1>2, <2>2, <2>3, <2>4 DEF Op
<1>6. TypeOK' /\ PassHasService' /\ GroupFits' /\ JobFits'
  BY <1>1, <1>2, <1>4, <1>5 DEF TypeOK, PassHasService, GroupFits, JobFits, pass, Distinct
<1>7. \A s : In(s, group') => In(s, ListNLBServers)
  <2>1. CASE job.op = "add"
    BY <1>1, <2>1, EffectMembers DEF ListNLBServers
  <2>2. CASE job.op # "add"
    BY <1>1, <1>2, <2>2, EffectMembers, InMonotone DEF ListNLBServers, Op
  <2> QED
    BY <2>1, <2>2
<1>8. WorkFits'
  <2>1. ListNLBServers' = group'
    BY <1>1 DEF ListNLBServers
  <2> QED
    BY <1>1, <1>7, <2>1 DEF WorkFits, pass
<1>9. OrderInv'
  <2> SUFFICES ASSUME ~late' PROVE OrderInv'
    BY DEF OrderInv
  <2>1. /\ pc = "wait" /\ \A d \in todo["del"] : ~In(d, want)
        /\ \A w \in want : In(w, group) \/ w \in todo["add"] \/ (job.op = "add" /\ w \in job.servers)
        /\ job.op = "del" => \A j \in job.servers : ~In(j, want)
    BY <1>1 DEF OrderInv
  <2>2. ASSUME NEW w \in want PROVE In(w, group') \/ w \in todo["add"]
    <3>1. CASE job.op = "add"
      <4>1. group' = group \cup job.servers
        BY <1>1, <3>1, EffectMembers
      <4> QED
        BY <2>1, <4>1, EqualIsEquivalence DEF In
    <3>2. CASE job.op = "upd"
      BY <1>1, <2>1, <3>2, EffectMembers
    <3>3. CASE job.op = "del"
      <4>1. group' = {g \in group : ~In(g, job.servers)}
        BY <1>1, <3>3 DEF Effect
      <4>2. ASSUME NEW g \in group, isServerEqual(w, g) PROVE ~In(g, job.servers)
        BY <2>1, <3>3, <4>2, EqualIsEquivalence DEF In
      <4> QED
        BY <2>1, <3>3, <4>1, <4>2 DEF In
    <3> QED
      BY <1>2, <3>1, <3>2, <3>3 DEF Op
  <2> QED
    BY <1>1, <2>1, <2>2 DEF OrderInv, pass
<1> QED
  BY <1>6, <1>8, <1>9

\* The rest of a pass, and the faults.
LEMMA RestKeeps ==
  ASSUME ServersInv, OrderInv,
         \/ UpdateServerGroup \/ waitJobFinish \/ PassEnds
         \/ CallFails \/ PollFails \/ WaitTimesOut \/ JobFails \/ Restart
         \/ UNCHANGED vars
  PROVE  ServersInv' /\ OrderInv'
<1> USE NlbServersAssumption, ClusterAssumption DEF ServersInv
<1>1. CASE UpdateServerGroup
  <2>1. /\ pc = "attr" /\ pc' = "work" /\ attr' = wantAttr
        /\ UNCHANGED <<node, pod, svc, queued, want, wantAttr, todo, nodeCache, created, group, job,
                       late, missed, edits, faults>>
    BY <1>1 DEF UpdateServerGroup
  <2>2. TypeOK' /\ PassHasService' /\ GroupFits' /\ JobFits'
    BY <2>1 DEF TypeOK, PassHasService, GroupFits, JobFits
  <2>3. WorkFits' /\ OrderInv'
    BY <2>1 DEF WorkFits, OrderInv, ListNLBServers
  <2> QED
    BY <2>2, <2>3
<1>2. CASE waitJobFinish
  <2>1. /\ pc = "wait" /\ job = None /\ pc' = "work"
        /\ UNCHANGED <<node, pod, svc, queued, want, wantAttr, todo, nodeCache, cloud, late, missed, edits, faults>>
    BY <1>2 DEF waitJobFinish
  <2>2. TypeOK' /\ PassHasService' /\ GroupFits' /\ JobFits'
    BY <2>1 DEF TypeOK, PassHasService, GroupFits, JobFits, cloud
  <2>3. WorkFits' /\ OrderInv'
    BY <2>1 DEF WorkFits, OrderInv, ListNLBServers, cloud
  <2> QED
    BY <2>2, <2>3
<1>3. CASE PassEnds
  <2>1. late \/ job = None
    BY <1>3 DEF PassEnds, OrderInv
  <2> QED
    BY <1>3, <2>1, EndKeeps DEF PassEnds, TypeOK, PassHasService
<1>4. CASE CallFails
  <2>1. late \/ job = None
    BY <1>4 DEF CallFails, OrderInv
  <2>2. svc # None /\ faults' \in 0..MaxFaults
    BY <1>4 DEF CallFails, PassHasService, Fault, TypeOK
  <2> QED
    BY <1>4, <2>1, <2>2, EndKeeps DEF CallFails, Fail, TypeOK
<1>5. CASE PollFails
  <2>1. svc # None /\ faults' \in 0..MaxFaults
    BY <1>5 DEF PollFails, PassHasService, Fault, TypeOK
  <2> QED
    BY <1>5, <2>1, EndKeeps DEF PollFails, Fail, TypeOK
<1>6. CASE WaitTimesOut
  <2>1. /\ pc = "wait" /\ pc' = "work" /\ late' = TRUE /\ faults' \in 0..MaxFaults
        /\ UNCHANGED <<node, pod, svc, queued, want, wantAttr, todo, nodeCache, cloud, missed, edits>>
    BY <1>6 DEF WaitTimesOut, Fault, TypeOK
  <2>2. TypeOK' /\ PassHasService' /\ GroupFits' /\ JobFits'
    BY <2>1 DEF TypeOK, PassHasService, GroupFits, JobFits, cloud
  <2>3. WorkFits' /\ OrderInv'
    BY <2>1 DEF WorkFits, OrderInv, ListNLBServers, cloud
  <2> QED
    BY <2>2, <2>3
<1>7. CASE JobFails
  <2>1. /\ job # None /\ job' = None /\ late' = TRUE /\ faults' \in 0..MaxFaults
        /\ UNCHANGED <<node, pod, svc, queued, pass, nodeCache, created, group, attr, missed, edits>>
    BY <1>7 DEF JobFails, Fault, TypeOK
  <2>2. TypeOK' /\ PassHasService' /\ GroupFits' /\ JobFits'
    BY <2>1 DEF TypeOK, PassHasService, GroupFits, JobFits, pass
  <2>3. ListNLBServers' = group /\ group \subseteq ListNLBServers
    BY <2>1 DEF ListNLBServers
  <2>4. WorkFits' /\ OrderInv'
    BY <2>1, <2>3, InMonotone DEF WorkFits, OrderInv, pass
  <2> QED
    BY <2>2, <2>4
<1>8. CASE Restart
  <2>1. /\ nodeCache' = [n \in Node |-> None] /\ faults' \in 0..MaxFaults
        /\ queued' = (svc # None) /\ late' = (late \/ job # None) /\ Idle
        /\ UNCHANGED <<node, pod, svc, cloud, missed, edits>>
    BY <1>8 DEF Restart, Fault, TypeOK
  <2>2. late' \in BOOLEAN /\ (late' \/ (~late /\ job = None))
    BY <2>1 DEF TypeOK
  <2>3. nodeCache' \in [Node -> Int \cup {None}] /\ queued' \in BOOLEAN /\ (queued' => svc # None)
    BY <2>1
  <2> QED
    BY <2>1, <2>2, <2>3, EndKeeps
<1>9. CASE UNCHANGED vars
  <2>1. TypeOK' /\ PassHasService' /\ GroupFits' /\ JobFits'
    BY <1>9 DEF vars, TypeOK, PassHasService, GroupFits, JobFits
  <2>2. WorkFits' /\ OrderInv'
    BY <1>9 DEF vars, WorkFits, OrderInv, ListNLBServers
  <2> QED
    BY <2>1, <2>2
<1> QED
  BY <1>1, <1>2, <1>3, <1>4, <1>5, <1>6, <1>7, <1>8, <1>9

\* Every step keeps the invariants.
LEMMA ServersNext ==
  ASSUME ServersInv, OrderInv, [Next]_vars
  PROVE  ServersInv' /\ OrderInv'
BY ChangeKeeps, BuildKeeps, ApplyKeeps, BatchKeeps, JobEndsKeeps, RestKeeps DEF Next, Pass

\* The invariants always hold.
LEMMA Invariance == Spec => [](ServersInv /\ OrderInv)
<1>1. ServersInv /\ OrderInv /\ [Next]_vars => (ServersInv /\ OrderInv)'
  BY ServersNext
<1> QED
  BY <1>1, ServersInit, PTL DEF Spec

(***************************************************************************)
(* However jobs, waits, passes and restarts overlap, the variables keep    *)
(* their types, no call has more than MaxBackendNum servers, and the group *)
(* never has a server twice.                                               *)
(***************************************************************************)
THEOREM NoServerTwice == Spec => []TypeOK
<1>1. ServersInv => TypeOK
  BY DEF ServersInv
<1> QED
  BY <1>1, Invariance, PTL

\* Only a job that removes servers takes a key out of the group, and then
\* every server wanted is in it.
LEMMA ReplacementsStep ==
  ASSUME ServersInv, OrderInv, [Next]_vars, ~late', ~(Keys(group) \subseteq Keys(group'))
  PROVE  Keys(want) \subseteq Keys(group')
<1>1. ASSUME NEW S, NEW T
      PROVE  Keys(S) \subseteq Keys(T) <=> \A s \in S : In(s, T)
  <2>1. ASSUME NEW s \in S PROVE <<s.type, s.id, s.ip>> \in Keys(T) <=> In(s, T)
    <3>1. ASSUME NEW t \in T
          PROVE  <<s.type, s.id, s.ip>> = <<t.type, t.id, t.ip>> <=> isServerEqual(s, t)
      BY DEF isServerEqual
    <3> QED
      BY <3>1 DEF Keys, In
  <2>2. Keys(S) \subseteq Keys(T) <=> \A s \in S : <<s.type, s.id, s.ip>> \in Keys(T)
    BY DEF Keys
  <2> QED
    BY <2>1, <2>2
<1>2. group' # group
  OBVIOUS
<1>3. JobEnds
  BY <1>2 DEF Next, Change, NodeChanges, PodChanges, ServiceChanges, EniShown, Pass, BuildLocalModel,
     applyVGroups, UpdateServerGroup, Batch, waitJobFinish, PassEnds, CallFails, PollFails,
     WaitTimesOut, JobFails, Restart, cloud, vars
<1>4. job # None /\ group' = Effect(job) /\ ~late /\ job.op \in Op
  BY <1>3 DEF JobEnds, ServersInv, TypeOK, Job
<1>5. job.op = "del"
  <2>1. job.op = "add" => \A s \in group : In(s, group')
    BY <1>4, EffectMembers, EqualIsEquivalence DEF In
  <2>2. job.op = "upd" => \A s \in group : In(s, group')
    BY <1>4, EffectMembers, EqualIsEquivalence DEF In
  <2> QED
    BY <1>1, <1>4, <2>1, <2>2 DEF Op
<1>6. /\ \A w \in want : In(w, group)
      /\ \A j \in job.servers : ~In(j, want)
  BY <1>4, <1>5 DEF OrderInv
<1>7. ASSUME NEW w \in want PROVE In(w, group')
  <2>1. group' = {g \in group : ~In(g, job.servers)}
    BY <1>4, <1>5 DEF Effect
  <2>2. ASSUME NEW g \in group, isServerEqual(w, g) PROVE ~In(g, job.servers)
    BY <1>6, <2>2, EqualIsEquivalence DEF In
  <2> QED
    BY <1>6, <2>1, <2>2 DEF In
<1> QED
  BY <1>1, <1>7

(***************************************************************************)
(* For every batch size: no server leaves the group before all the pass    *)
(* wants are in it, while every wait ends with its job.                    *)
(***************************************************************************)
THEOREM ReplacementsComeFirst == Spec => ReplacementsFirst
<1>1. ServersInv /\ OrderInv /\ [Next]_vars
        => [ ~late' /\ ~(Keys(group) \subseteq Keys(group'))
               => Keys(want) \subseteq Keys(group') ]_vars
  BY ReplacementsStep
<1> QED
  BY <1>1, Invariance, PTL DEF Spec, ReplacementsFirst

-----------------------------------------------------------------------------
(* What a group at rest holds                                              *)

\* What a Service makes of a node that looks like v: a server of its own, or
\* one whose Pods are servers.
ServesAs(v, s) ==
  /\ v # None
  /\ {"exclude", "balancer", "master"} \cap DOMAIN v.labels = {}
  /\ ~v.taint
  /\ s.removeUnsched => ~v.unsched
  /\ s.label = "pool" => Labelled(v, "pool")
  /\ v.ready = "True" \/ Labelled(v, "type")

VirtualAs(v, s) ==
  /\ v # None
  /\ Labelled(v, "type")
  /\ "master" \notin DOMAIN v.labels
  /\ ~v.taint
  /\ s.removeUnsched => ~v.unsched
  /\ s.label = "pool" => Labelled(v, "pool")

OnVirtual(p) ==
  /\ pod[p] # None /\ pod[p].node \in Node
  /\ node[pod[p].node] # None /\ Labelled(node[pod[p].node], "type")

\* Nodes keep their instances, and a Pod on a virtual node has a network
\* interface of its own.
OwnIds(InstOf) ==
  /\ \A n \in Node : node[n] # None => node[n].inst = InstOf[n]
  /\ \A p, q \in Pod : OnVirtual(p) /\ OnVirtual(q) /\ pod[p].eni = pod[q].eni => p = q
  /\ \A p \in Pod, n \in Node : OnVirtual(p) => pod[p].eni # InstOf[n]

\* The instances remembered are those of the nodes.
CacheFits(InstOf) == \A n \in Node : nodeCache[n] \in {None, InstOf[n]}

\* While every wait ended with its job: what is in the group and not as wanted
\* is still to be removed or updated, and jobs bring in only what is wanted.
WorkAccount ==
  ~late =>
    /\ pc \in {"attr", "work", "wait"} =>
         \A g \in group : \/ g \in want \/ In(g, todo["del"]) \/ In(g, todo["upd"])
                          \/ job # None /\ job.op # "add" /\ In(g, job.servers)
    /\ job # None /\ job.op # "del" => job.servers \subseteq want
    /\ pc \in {"work", "wait"} => wantAttr \in {None, attr}

\* Unless another pass is due, the pass under way wants what the Service should
\* have now, and with no pass under way the group has it.
RestAccount ==
  ~late /\ ~missed /\ svc # None /\ ~queued =>
    IF pc = "idle" THEN InSync ELSE want = Expected /\ wantAttr = svc.attr

SyncInv(InstOf) == CacheFits(InstOf) /\ WorkAccount /\ RestAccount

\* The servers of Pods and of nodes.
Direct(P) == {[type |-> "Eni", id |-> pod[p].eni, ip |-> p, port |-> pod[p].port,
               weight |-> IF svc.policy = "Local" THEN 1 ELSE 100] : p \in P}

Through(N) == {[type |-> "Ecs", id |-> node[n].inst, ip |-> None, port |-> NodePort,
                weight |-> IF svc.policy = "Local" THEN Cardinality(On(n)) ELSE 100] : n \in N}

EciExpected == UNION {On(n) : n \in {m \in Node : Virtual(m)}}

\* The servers the Service should have, policy by policy.
LEMMA ExpectedIs ==
  /\ svc.policy = "ENI" => Expected = Direct(UNION {On(n) : n \in Node \cup {None}})
  /\ svc.policy = "Cluster" =>
       Expected = Through({n \in Node : Serving(n)}) \cup Direct(EciExpected)
  /\ svc.policy = "Local" =>
       Expected = Through({n \in Node : Serving(n) /\ ~Virtual(n) /\ On(n) # {}})
                    \cup Direct(EciExpected)
BY DEF Expected, Direct, Through, EciExpected

\* The builder and the documentation mean the same nodes and Pods.
LEMMA SameNodes ==
  ASSUME TypeOK, svc # None, ~GetNodesFails(svc)
  PROVE  /\ EcsNodes(svc) = {n \in Node : Serving(n)}
         /\ \A n \in GetNodes(svc) : IsVK(node[n]) <=> Virtual(n)
         /\ \A n \in Node : Virtual(n) => n \in GetNodes(svc)
         /\ \A n \in Node : Serving(n) => n \in GetNodes(svc)
<1>1. svc \in AService /\ svc.label \in {"", "pool", "bad"}
  BY NlbServersAssumption DEF TypeOK, AService
<1>2. Present # {} => svc.label # "bad"
  BY DEF GetNodesFails
<1>3. ASSUME NEW n \in Node, node[n] # None
      PROVE  /\ n \in Present /\ svc.label \in {"", "pool"}
             /\ IsVK(node[n]) <=> Labelled(node[n], "type")
             /\ filterOutByLabel(svc, node[n]) <=>
                  (svc.label = "pool" => Labelled(node[n], "pool"))
  <2>1. n \in Present
    BY <1>3 DEF Present
  <2> QED
    BY <1>1, <1>2, <2>1 DEF IsVK, filterOutByLabel, Has, Labelled
<1>4. ASSUME NEW n \in Node
      PROVE  /\ n \in EcsNodes(svc) <=> Serving(n)
             /\ n \in GetNodes(svc) => (IsVK(node[n]) <=> Virtual(n))
             /\ Virtual(n) => n \in GetNodes(svc)
             /\ Serving(n) => n \in GetNodes(svc)
  <2>1. CASE node[n] = None
    BY <2>1 DEF EcsNodes, GetNodes, Present, Serving, Virtual
  <2>2. CASE node[n] # None
    BY <1>3, <2>2 DEF EcsNodes, GetNodes, needExcludeFromLB, IsMasterNode,
       IsNodeExcludeFromLoadBalancer, HasExcludeLabel, Has, Serving, Virtual
  <2> QED
    BY <2>1, <2>2
<1> QED
  BY <1>4 DEF EcsNodes, GetNodes, Present

\* The same for the Pods.
LEMMA SamePods ==
  ASSUME TypeOK, svc # None, ~GetNodesFails(svc)
  PROVE  /\ EciPods(svc) = EciExpected
         /\ EcsPods(svc) = UNION {On(n) : n \in {m \in Node : Serving(m) /\ ~Virtual(m)}}
         /\ Ready = UNION {On(n) : n \in Node \cup {None}}
<1>1. \A p \in Pod : pod[p] # None => pod[p].node \in Node \cup {None}
  BY DEF TypeOK, APod
<1>2. GetNodes(svc) \subseteq Node
  BY DEF GetNodes, Present
<1>3. EciPods(svc) = EciExpected
  BY <1>2, SameNodes DEF EciPods, EciExpected, On, Ready
<1>4. EcsPods(svc) = UNION {On(n) : n \in {m \in Node : Serving(m) /\ ~Virtual(m)}}
  BY <1>2, SameNodes DEF EcsPods, On, Ready, EcsNodes
<1>5. Ready = UNION {On(n) : n \in Node \cup {None}}
  BY <1>1 DEF Ready, On
<1> QED
  BY <1>3, <1>4, <1>5

\* The instance of a node, from its providerID or from the cloud.
LEMMA InstanceIs ==
  ASSUME NEW InstOf, OwnIds(InstOf), CacheFits(InstOf), NEW n \in Present
  PROVE  InstanceId(n) = node[n].inst /\ node[n].inst = InstOf[n]
BY DEF Present, InstanceId, getInstanceIdByNode, OwnIds, CacheFits

\* Under the Local policy the weight of a node is the number of its Pods, and
\* that of a Pod on a virtual node is one.
LEMMA WeightIs ==
  ASSUME TypeOK, svc # None, ~GetNodesFails(svc),
         NEW InstOf, \A n, m \in Node : InstOf[n] = InstOf[m] => n = m,
         OwnIds(InstOf), CacheFits(InstOf)
  PROVE  /\ \A n \in Node : Serving(n) /\ ~Virtual(n) =>
              LocalWeight(svc, Ecs(n)) = Cardinality(On(n))
         /\ \A p \in EciPods(svc) : LocalWeight(svc, Eni(p)) = 1
<1>1. \A p \in EciPods(svc) : OnVirtual(p) /\ p \in Pod
  BY SameNodes DEF EciPods, Ready, OnVirtual, GetNodes, Present, Virtual
<1>2. \A p \in EcsPods(svc) : pod[p].node \in Present /\ pod[p].node \in Node
  BY DEF EcsPods, EcsNodes, GetNodes, Present
<1>3. IsFiniteSet({}) /\ Cardinality({}) = 0
  BY FS_EmptySet
<1>4. ASSUME NEW n \in Node, Serving(n), ~Virtual(n)
      PROVE  LocalWeight(svc, Ecs(n)) = Cardinality(On(n))
  <2> DEFINE A == {p \in EcsPods(svc) : InstanceId(pod[p].node) = Ecs(n).id}
             B == {p \in EciPods(svc) : pod[p].eni = Ecs(n).id}
  <2>1. n \in Present /\ Ecs(n).id = InstOf[n]
    BY <1>4, InstanceIs DEF Serving, Present, Ecs
  <2>2. \A p \in EcsPods(svc) : InstanceId(pod[p].node) = InstOf[pod[p].node]
    BY <1>2, InstanceIs
  <2>3. A = On(n)
    <3>1. \A p \in EcsPods(svc) : p \in A <=> pod[p].node = n
      BY <1>2, <2>1, <2>2
    <3>2. \A p : p \in On(n) <=> p \in EcsPods(svc) /\ pod[p].node = n
      BY <1>4, SamePods DEF On
    <3> QED
      BY <3>1, <3>2
  <2>4. B = {}
    BY <1>1, <2>1 DEF OwnIds
  <2>5. IsFiniteSet(On(n)) /\ Cardinality(On(n)) \in Nat
    BY ClusterAssumption, FS_Subset, FS_CardinalityType DEF On
  <2>6. LocalWeight(svc, Ecs(n)) = Cardinality(A) + Cardinality(B)
    BY DEF LocalWeight
  <2> HIDE DEF A, B
  <2> QED
    BY <1>3, <2>3, <2>4, <2>5, <2>6
<1>5. ASSUME NEW p \in EciPods(svc) PROVE LocalWeight(svc, Eni(p)) = 1
  <2> DEFINE A == {q \in EcsPods(svc) : InstanceId(pod[q].node) = Eni(p).id}
             B == {q \in EciPods(svc) : pod[q].eni = Eni(p).id}
  <2>1. Eni(p).id = pod[p].eni
    BY DEF Eni
  <2>2. A = {}
    <3>1. \A q \in EcsPods(svc) : InstanceId(pod[q].node) = InstOf[pod[q].node]
      BY <1>2, InstanceIs
    <3> QED
      BY <1>1, <1>2, <1>5, <2>1, <3>1 DEF OwnIds
  <2>3. B = {p}
    BY <1>1, <1>5, <2>1 DEF OwnIds
  <2>4. Cardinality({p}) = 1
    BY FS_Singleton
  <2>5. LocalWeight(svc, Eni(p)) = Cardinality(A) + Cardinality(B)
    BY DEF LocalWeight
  <2> HIDE DEF A, B
  <2> QED
    BY <1>3, <2>2, <2>3, <2>4, <2>5
<1> QED
  BY <1>4, <1>5

\* The list the builder makes is the one the Service should have.
LEMMA BuiltIsExpected ==
  ASSUME TypeOK, svc # None, ~GetNodesFails(svc),
         NEW InstOf, \A n, m \in Node : InstOf[n] = InstOf[m] => n = m,
         OwnIds(InstOf), CacheFits(InstOf)
  PROVE  setServerGroupServers(svc) = Expected
<1>1. \A n \in Present : InstanceId(n) = node[n].inst /\ node[n].inst = InstOf[n]
  BY InstanceIs
<1>2. svc.policy \in {"ENI", "Local", "Cluster"}
  BY NlbServersAssumption DEF TypeOK, AService
<1>3. EcsNodes(svc) \subseteq Present
  BY DEF EcsNodes, GetNodes
<1>4. CASE svc.policy = "ENI"
  <2>1. setServerGroupServers(svc) = {Eni(p) : p \in Ready}
    BY <1>4 DEF setServerGroupServers, buildENIBackends, setWeightBackends
  <2>2. \A P : Direct(P) = {Eni(p) : p \in P}
    BY <1>4 DEF Direct, Eni, DefaultServerWeight
  <2> QED
    BY <1>4, <2>1, <2>2, SamePods, ExpectedIs
<1>5. CASE svc.policy = "Cluster"
  <2>1. setServerGroupServers(svc)
          = {Ecs(n) : n \in EcsNodes(svc)} \cup {Eni(p) : p \in EciPods(svc)}
    BY <1>5 DEF setServerGroupServers, buildClusterBackends, setWeightBackends
  <2>2. \A P : Direct(P) = {Eni(p) : p \in P}
    BY <1>5 DEF Direct, Eni, DefaultServerWeight
  <2>3. Through(EcsNodes(svc)) = {Ecs(n) : n \in EcsNodes(svc)}
    <3>1. \A n \in EcsNodes(svc) : Ecs(n) =
            [type |-> "Ecs", id |-> node[n].inst, ip |-> None, port |-> NodePort, weight |-> 100]
      BY <1>1, <1>3 DEF Ecs, DefaultServerWeight
    <3> QED
      BY <1>5, <3>1 DEF Through
  <2>4. Expected = Through(EcsNodes(svc)) \cup Direct(EciPods(svc))
    BY <1>5, ExpectedIs, SameNodes, SamePods
  <2> QED
    BY <2>1, <2>2, <2>3, <2>4
<1>6. CASE svc.policy = "Local"
  <2> DEFINE N == {n \in Node : Serving(n) /\ ~Virtual(n) /\ On(n) # {}}
             B == LocalEntries(svc)
             V == {[b EXCEPT !.weight = LocalWeight(svc, b)] : b \in B}
  <2>1. setServerGroupServers(svc) = {CHOOSE b \in V : b.id = i : i \in {b.id : b \in V}}
    BY <1>6 DEF setServerGroupServers, buildLocalBackends, remoteDuplicatedECS, setWeightBackends
  <2>2. B = {Ecs(n) : n \in N} \cup {Eni(p) : p \in EciPods(svc)}
    <3>1. {pod[p].node : p \in EcsPods(svc)} = N
      BY SamePods DEF On
    <3>2. {Ecs(pod[p].node) : p \in EcsPods(svc)} = {Ecs(n) : n \in {pod[p].node : p \in EcsPods(svc)}}
      OBVIOUS
    <3> HIDE DEF N
    <3> QED
      BY <3>1, <3>2 DEF LocalEntries
  <2>3. N \subseteq Present
    BY DEF Serving, Present
  <2>4. ASSUME NEW n \in N
        PROVE  [Ecs(n) EXCEPT !.weight = LocalWeight(svc, Ecs(n))] =
                 [type |-> "Ecs", id |-> node[n].inst, ip |-> None, port |-> NodePort,
                  weight |-> Cardinality(On(n))]
    <3>1. LocalWeight(svc, Ecs(n)) = Cardinality(On(n)) /\ InstanceId(n) = node[n].inst
      BY <1>1, <2>3, WeightIs
    <3> QED
      BY <3>1 DEF Ecs
  <2>5. ASSUME NEW p \in EciPods(svc)
        PROVE  [Eni(p) EXCEPT !.weight = LocalWeight(svc, Eni(p))] =
                 [type |-> "Eni", id |-> pod[p].eni, ip |-> p, port |-> pod[p].port, weight |-> 1]
    <3>1. LocalWeight(svc, Eni(p)) = 1
      BY WeightIs
    <3> QED
      BY <3>1 DEF Eni
  <2>6. Expected = Through(N) \cup Direct(EciPods(svc))
    BY <1>6, ExpectedIs, SamePods
  <2>7. V = Through(N) \cup Direct(EciPods(svc))
    <3> DEFINE F(b) == [b EXCEPT !.weight = LocalWeight(svc, b)]
    <3>1. V = {F(Ecs(n)) : n \in N} \cup {F(Eni(p)) : p \in EciPods(svc)}
      <4> HIDE DEF N, F, B
      <4>1. V = {F(b) : b \in B}
        BY DEF F
      <4> HIDE DEF V
      <4> QED
        BY <2>2, <4>1
    <3>2. {F(Ecs(n)) : n \in N} = Through(N)
      <4>1. \A n \in N : F(Ecs(n)) = [type |-> "Ecs", id |-> node[n].inst, ip |-> None, port |-> NodePort,
                  weight |-> Cardinality(On(n))]
        BY <2>4
      <4> HIDE DEF F, N
      <4> QED
        BY <1>6, <4>1 DEF Through
    <3>3. {F(Eni(p)) : p \in EciPods(svc)} = Direct(EciPods(svc))
      <4>1. \A p \in EciPods(svc) : F(Eni(p)) = [type |-> "Eni", id |-> pod[p].eni, ip |-> p, port |-> pod[p].port, weight |-> 1]
        BY <2>5
      <4> HIDE DEF F
      <4> QED
        BY <1>6, <4>1 DEF Direct
    <3> HIDE DEF F, V, N
    <3> QED
      BY <3>1, <3>2, <3>3
  <2>8. \A a, b \in V : a.id = b.id => a = b
    <3>1. \A p \in EciPods(svc) : OnVirtual(p) /\ p \in Pod
      BY SameNodes DEF EciPods, Ready, OnVirtual, GetNodes, Present, Virtual
    <3>2. \A a \in Through(N) : \E n \in N : a.id = InstOf[n]
            /\ a = [type |-> "Ecs", id |-> node[n].inst, ip |-> None, port |-> NodePort,
                  weight |-> Cardinality(On(n))]
      BY <1>1, <1>6, <2>3 DEF Through
    <3>3. \A a \in Direct(EciPods(svc)) : \E p \in EciPods(svc) : a.id = pod[p].eni
            /\ a = [type |-> "Eni", id |-> pod[p].eni, ip |-> p, port |-> pod[p].port, weight |-> 1]
      BY <1>6 DEF Direct
    <3>4. N \subseteq Node
      OBVIOUS
    <3> HIDE DEF N, V
    <3> SUFFICES ASSUME NEW a \in V, NEW b \in V, a.id = b.id PROVE a = b
      OBVIOUS
    <3>5. CASE a \in Through(N) /\ b \in Through(N)
      BY <3>2, <3>4, <3>5
    <3>6. CASE a \in Direct(EciPods(svc)) /\ b \in Direct(EciPods(svc))
      BY <3>1, <3>3, <3>6 DEF OwnIds
    <3>7. CASE a \in Through(N) /\ b \in Direct(EciPods(svc))
      BY <3>1, <3>2, <3>3, <3>4, <3>7 DEF OwnIds
    <3>8. CASE b \in Through(N) /\ a \in Direct(EciPods(svc))
      BY <3>1, <3>2, <3>3, <3>4, <3>8 DEF OwnIds
    <3> QED
      BY <2>7, <3>5, <3>6, <3>7, <3>8
  <2> HIDE DEF V, B, N
  <2>9. setServerGroupServers(svc) = V
    <3>1. \A b \in V : (CHOOSE x \in V : x.id = b.id) = b
      BY <2>8
    <3> QED
      BY <2>1, <3>1
  <2> QED
    BY <2>6, <2>7, <2>9
<1> QED
  BY <1>2, <1>4, <1>5, <1>6

\* What the Service should have depends on the nodes that serve, on their
\* instances and on the ready Pods.
LEMMA ExpectedSame ==
  ASSUME svc' = svc,
         \A n \in Node : (Serving(n)' <=> Serving(n)) /\ (Virtual(n)' <=> Virtual(n)),
         \A n \in Node : Serving(n) => node'[n].inst = node[n].inst,
         \A n \in Node \cup {None} : On(n)' = On(n),
         \A p \in Pod : pod[p] # None => pod'[p].eni = pod[p].eni /\ pod'[p].port = pod[p].port
  PROVE  Expected' = Expected
<1> DEFINE S == {n \in Node : Serving(n)}
           L == {n \in Node : Serving(n) /\ ~Virtual(n) /\ On(n) # {}}
           A == UNION {On(n) : n \in Node \cup {None}}
           E == EciExpected
<1>1. S' = S /\ L' = L /\ A' = A /\ E' = E
  BY DEF EciExpected
<1>2. /\ \A n \in S : n \in Node /\ On(n)' = On(n) /\ node'[n].inst = node[n].inst
      /\ L \subseteq S
      /\ \A p \in A \cup E : pod'[p].eni = pod[p].eni /\ pod'[p].port = pod[p].port
  BY DEF EciExpected, On
<1>3. svc.policy = "ENI" => Expected = Direct(A) /\ Expected' = Direct(A)'
  BY DEF Expected, Direct
<1>4. svc.policy = "Cluster" =>
        Expected = Through(S) \cup Direct(E) /\ Expected' = Through(S)' \cup Direct(E)'
  BY DEF Expected, Direct, Through, EciExpected
<1>5. svc.policy \notin {"ENI", "Cluster"} =>
        Expected = Through(L) \cup Direct(E) /\ Expected' = Through(L)' \cup Direct(E)'
  BY DEF Expected, Direct, Through, EciExpected
<1> HIDE DEF S, L, A, E
<1>6. Direct(A)' = Direct(A) /\ Direct(E)' = Direct(E)
  BY <1>1, <1>2 DEF Direct
<1>7. Through(S)' = Through(S)
  BY <1>1, <1>2 DEF Through
<1>8. Through(L)' = Through(L)
  BY <1>1, <1>2 DEF Through
<1> QED
  BY <1>3, <1>4, <1>5, <1>6, <1>7, <1>8

\* Nodes have instances of their own.
SyncHyp(InstOf) == \A n, m \in Node : InstOf[n] = InstOf[m] => n = m

\* What holds at first: whoever has a Service has a pass due.
LEMMA SyncInit ==
  ASSUME NEW InstOf, Init
  PROVE  SyncInv(InstOf)
BY DEF Init, SyncInv, CacheFits, WorkAccount, RestAccount

\* There are finitely many labels.
LEMMA FiniteLabel == IsFiniteSet(Label)
<1>1. IsFiniteSet({"exclude"}) /\ IsFiniteSet({"balancer"}) /\ IsFiniteSet({"master"})
      /\ IsFiniteSet({"type"}) /\ IsFiniteSet({"pool"})
  BY FS_Singleton
<1>2. Label = {"exclude"} \cup ({"balancer"} \cup ({"master"} \cup ({"type"} \cup {"pool"})))
  BY DEF Label
<1>3. IsFiniteSet({"type"} \cup {"pool"})
  BY <1>1, FS_Union
<1>4. IsFiniteSet({"master"} \cup ({"type"} \cup {"pool"}))
  BY <1>1, <1>3, FS_Union
<1>5. IsFiniteSet({"balancer"} \cup ({"master"} \cup ({"type"} \cup {"pool"})))
  BY <1>1, <1>4, FS_Union
<1> QED
  BY <1>1, <1>2, <1>5, FS_Union

\* A change of a node that the handler passes over, and that is in none of its
\* blind spots, makes no difference to a Service.
LEMMA NoticedUnlessBlind ==
  ASSUME NEW old \in NodeVersion \cup {None}, NEW new \in NodeVersion \cup {None}, NEW s,
         ~NodeEventNeeded(old, new), ~BlindSpot(old, new)
  PROVE  /\ ServesAs(old, s) <=> ServesAs(new, s)
         /\ VirtualAs(old, s) <=> VirtualAs(new, s)
<1>1. CASE Unseen(old) /\ Unseen(new)
  <2>1. \A v \in {old, new} \ {None} : "type" \notin DOMAIN v.labels
    BY <1>1 DEF BlindSpot
  <2>2. ~VirtualAs(old, s) /\ ~VirtualAs(new, s)
    BY <2>1 DEF VirtualAs, Labelled
  <2>3. ~ServesAs(old, s) /\ ~ServesAs(new, s)
    BY <1>1 DEF Unseen, ServesAs
  <2> QED
    BY <2>2, <2>3
<1>2. CASE ~(Unseen(old) /\ Unseen(new))
  <2>1. old # None /\ new # None
    BY <1>2 DEF NodeEventNeeded, canNodeSkipEventHandler, HasExcludeLabel, IsMasterNode, Has, Unseen
  <2>2. old \in ANode /\ new \in ANode
    BY <2>1, NlbServersAssumption
  <2>3. ~nodeSpecChanged(old, new)
    BY <1>2, <2>1 DEF NodeEventNeeded, canNodeSkipEventHandler, HasExcludeLabel, IsMasterNode, Has,
       Unseen
  <2>4. old.taint = new.taint /\ old.unsched = new.unsched /\ old.ready = new.ready
    BY <2>1, <2>3 DEF BlindSpot, nodeSpecChanged
  <2>5. old.labels = new.labels
    <3> DEFINE K == DOMAIN old.labels
               L == DOMAIN new.labels
    <3>1. K \subseteq Label /\ L \subseteq Label
      BY <2>2 DEF ANode
    <3>2. \A k \in K : k \in L /\ old.labels[k] = new.labels[k]
      BY <2>1, <2>3 DEF BlindSpot, nodeSpecChanged, nodeLabelsChanged
    <3>3. IsFiniteSet(L)
      BY <3>1, FS_Subset, FiniteLabel
    <3>4. Cardinality(K) = Cardinality(L)
      BY <2>3 DEF nodeSpecChanged, nodeLabelsChanged
    <3>5. K = L
      BY <3>2, <3>3, <3>4, FS_Subset
    <3>6. /\ old.labels = [k \in K |-> old.labels[k]]
          /\ new.labels = [k \in L |-> new.labels[k]]
      BY <2>2 DEF ANode
    <3> HIDE DEF K, L
    <3> QED
      BY <3>2, <3>5, <3>6
  <2> QED
    BY <2>1, <2>4, <2>5 DEF ServesAs, VirtualAs, Labelled
<1> QED
  BY <1>1, <1>2

\* A change is followed by a pass, or it makes no difference.
LEMMA ChangeSync ==
  ASSUME NEW InstOf, SyncHyp(InstOf), ServersInv, SyncInv(InstOf), OwnIds(InstOf), OwnIds(InstOf)',
         Change \/ \E p \in Pod : EniShown(p)
  PROVE  SyncInv(InstOf)'
<1> USE DEF SyncInv, ServersInv
<1>1. UNCHANGED <<pass, nodeCache, cloud, late, faults>>
  BY DEF Change, NodeChanges, PodChanges, ServiceChanges, EniShown
<1>2. CacheFits(InstOf)' /\ WorkAccount'
  BY <1>1 DEF pass, cloud, CacheFits, WorkAccount
<1>3. ASSUME svc' = svc, svc # None => Expected' = Expected, queued' = queued, missed => missed'
      PROVE  RestAccount'
  BY <1>1, <1>3 DEF RestAccount, InSync, pass, cloud
<1>4. ASSUME NEW n \in Node, NEW v \in NodeVersion \cup {None}, NodeChanges(n, v)
      PROVE  RestAccount'
  <2>1. /\ <<node[n], v>> \in Edit /\ node' = [node EXCEPT ![n] = v] /\ UNCHANGED <<svc, pod>>
        /\ queued' = (queued \/ (svc # None /\ NodeEventNeeded(node[n], v)))
        /\ missed' = (missed \/ BlindSpot(node[n], v))
    BY <1>4 DEF NodeChanges
  <2>2. CASE queued' # queued
    BY <2>1, <2>2 DEF RestAccount, TypeOK
  <2>3. CASE queued' = queued
    <3>1. CASE queued
      BY <2>3, <3>1 DEF RestAccount
    <3>2. CASE ~queued /\ svc # None /\ ~missed'
      <4>1. ~NodeEventNeeded(node[n], v)
        <5>1. NodeEventNeeded(node[n], v) => queued'
          BY <2>1, <3>2
        <5> QED
          BY <2>3, <3>2, <5>1
      <4>2. {node[n], v} \subseteq NodeVersion \cup {None} /\ svc \in SvcVersion
        BY <3>2 DEF TypeOK
      <4>3. ~BlindSpot(node[n], v)
        BY <2>1, <3>2
      <4>4. /\ ServesAs(node[n], svc) <=> ServesAs(v, svc)
            /\ VirtualAs(node[n], svc) <=> VirtualAs(v, svc)
        BY <4>1, <4>2, <4>3, NoticedUnlessBlind
      <4>5. \A m \in Node : /\ Serving(m) <=> ServesAs(node[m], svc)
                            /\ Virtual(m) <=> VirtualAs(node[m], svc)
                            /\ Serving(m)' <=> ServesAs(node'[m], svc)
                            /\ Virtual(m)' <=> VirtualAs(node'[m], svc)
        BY <2>1 DEF Serving, Virtual, ServesAs, VirtualAs
      <4>6. \A m \in Node : node'[m] = IF m = n THEN v ELSE node[m]
        BY <2>1 DEF TypeOK
      <4>7. \A m \in Node : (Serving(m)' <=> Serving(m)) /\ (Virtual(m)' <=> Virtual(m))
        BY <4>4, <4>5, <4>6
      <4>8. \A m \in Node : Serving(m) => node'[m].inst = node[m].inst
        <5>1. \A m \in Node : Serving(m) => node[m] # None /\ node'[m] # None
          BY <4>5, <4>7 DEF ServesAs
        <5> QED
          BY <5>1 DEF OwnIds
      <4>9. \A m \in Node \cup {None} : On(m)' = On(m)
        BY <2>1 DEF On
      <4>10. Expected' = Expected
        BY <2>1, <4>7, <4>8, <4>9, ExpectedSame
      <4> QED
        BY <1>3, <2>1, <2>3, <4>10
    <3>3. CASE svc = None \/ missed'
      BY <2>1, <3>3 DEF RestAccount
    <3> QED
      BY <3>1, <3>2, <3>3 DEF TypeOK
  <2> QED
    BY <2>2, <2>3
<1>5. ASSUME NEW p \in Pod, NEW v \in PodVersion \cup {None}, PodChanges(p, v)
      PROVE  RestAccount'
  BY <1>5 DEF PodChanges, isEndpointProcessNeeded, RestAccount
<1>6. ASSUME NEW v \in SvcVersion, ServiceChanges(v)
      PROVE  RestAccount'
  BY <1>6 DEF ServiceChanges, RestAccount
<1>7. ASSUME NEW p \in Pod, EniShown(p)
      PROVE  RestAccount'
  <2>1. /\ pod[p] # None /\ pod' = [pod EXCEPT ![p].shown = TRUE]
        /\ UNCHANGED <<node, svc, queued, missed>>
    BY <1>7 DEF EniShown
  <2>2. ASSUME NEW q \in Pod
        PROVE  /\ (pod'[q] # None) <=> (pod[q] # None)
               /\ pod[q] # None => /\ pod'[q].eni = pod[q].eni /\ pod'[q].port = pod[q].port
                                   /\ pod'[q].node = pod[q].node /\ pod'[q].ready = pod[q].ready
    <3>1. pod[p] \in APod /\ pod'[q] = IF q = p THEN [pod[p] EXCEPT !.shown = TRUE] ELSE pod[q]
      BY <2>1 DEF TypeOK
    <3>2. [pod[p] EXCEPT !.shown = TRUE] \in APod
      BY <3>1 DEF APod
    <3>3. None \notin APod
      BY ClusterAssumption
    <3>4. CASE q = p
      <4>1. pod'[q] # None /\ pod[q] # None
        BY <2>1, <3>1, <3>2, <3>3, <3>4
      <4> QED
        BY <3>1, <3>4, <4>1 DEF APod
    <3>5. CASE q # p
      BY <3>1, <3>5
    <3> QED
      BY <3>4, <3>5
  <2>3. \A m \in Node \cup {None} : On(m)' = On(m)
    BY <2>2 DEF On
  <2>4. \A m \in Node : (Serving(m)' <=> Serving(m)) /\ (Virtual(m)' <=> Virtual(m))
    BY <2>1 DEF Serving, Virtual
  <2>5. Expected' = Expected
    BY <2>1, <2>2, <2>3, <2>4, ExpectedSame
  <2> QED
    BY <1>3, <2>1, <2>5
<1> QED
  BY <1>2, <1>4, <1>5, <1>6, <1>7 DEF Change

\* A pass starts with the list the Service should have now.
LEMMA BuildSync ==
  ASSUME NEW InstOf, SyncHyp(InstOf), ServersInv, OrderInv, SyncInv(InstOf), OwnIds(InstOf), BuildLocalModel
  PROVE  SyncInv(InstOf)'
<1> USE DEF SyncInv, ServersInv
<1>1. /\ pc = "idle" /\ queued /\ svc # None
      /\ UNCHANGED <<node, pod, svc, cloud, late, edits, faults>>
  BY DEF BuildLocalModel, PassHasService
<1>2. CacheFits(InstOf)'
  <2>1. \A n \in LookedUp(svc) : n \in Present
    BY DEF LookedUp, EcsPods, EcsNodes, GetNodes
  <2>2. \A n \in LookedUp(svc) : InstanceId(n) = InstOf[n]
    BY <2>1, InstanceIs
  <2>3. PICK M : nodeCache' = [n \in Node |->
                   IF M /\ n \in LookedUp(svc) THEN InstanceId(n) ELSE nodeCache[n]]
    BY DEF BuildLocalModel
  <2> QED
    BY <2>2, <2>3 DEF CacheFits
<1>3. ~late => job = None
  BY <1>1 DEF OrderInv
<1>4. CASE Fail
  BY <1>1, <1>2, <1>3, <1>4 DEF Fail, Idle, WorkAccount, RestAccount, cloud
<1>5. CASE /\ ~GetNodesFails(svc) /\ queued' = FALSE /\ pc' = "list"
           /\ want' = setServerGroupServers(svc) /\ wantAttr' = svc.attr
  <2>1. want' = Expected
    BY <1>1, <1>5, BuiltIsExpected DEF SyncHyp
  <2>2. Expected' = Expected
    <3>1. \A m \in Node : (Serving(m)' <=> Serving(m)) /\ (Virtual(m)' <=> Virtual(m))
      BY <1>1 DEF Serving, Virtual
    <3>2. \A m \in Node \cup {None} : On(m)' = On(m)
      BY <1>1 DEF On
    <3> QED
      BY <1>1, <3>1, <3>2, ExpectedSame
  <2> QED
    BY <1>1, <1>2, <1>3, <1>5, <2>1, <2>2 DEF WorkAccount, RestAccount, cloud
<1> QED
  BY <1>4, <1>5 DEF BuildLocalModel

\* Steps that leave the cluster alone leave alone what the Service should have.
LEMMA ExpectedStays ==
  ASSUME UNCHANGED <<node, pod, svc>>
  PROVE  Expected' = Expected
<1>1. \A m \in Node : (Serving(m)' <=> Serving(m)) /\ (Virtual(m)' <=> Virtual(m))
  BY DEF Serving, Virtual
<1>2. \A m \in Node \cup {None} : On(m)' = On(m)
  BY DEF On
<1> QED
  BY <1>1, <1>2, ExpectedSame

\* The difference to the group accounts for all that is in it.
LEMMA ApplySync ==
  ASSUME NEW InstOf, ServersInv, OrderInv, SyncInv(InstOf), applyVGroups
  PROVE  SyncInv(InstOf)'
<1> USE DEF SyncInv, ServersInv
<1>1. /\ pc = "list" /\ pc' \in {"work", "attr"}
      /\ UNCHANGED <<node, pod, svc, queued, want, wantAttr, nodeCache, group, job, late, missed, edits, faults>>
  BY DEF applyVGroups
<1>2. CacheFits(InstOf)' /\ RestAccount'
  BY <1>1, ExpectedStays DEF CacheFits, RestAccount
<1>3. ASSUME ~late PROVE WorkAccount'
  <2>1. job = None /\ ListNLBServers = group
    BY <1>1, <1>3 DEF OrderInv, ListNLBServers
  <2>2. pc' = "work" => wantAttr \in {None, attr'}
    BY <1>1 DEF applyVGroups
  <2>3. ASSUME NEW g \in group
        PROVE  g \in want \/ In(g, todo'["del"]) \/ In(g, todo'["upd"])
    <3>1. created /\ todo' = diff(group, want)
      BY <2>1 DEF applyVGroups, GroupFits
    <3>2. /\ todo'["del"] = {r \in group : ~In(r, want)}
          /\ todo'["upd"] = {l \in want : In(l, group) /\ l \notin group}
      BY <3>1 DEF diff
    <3>3. CASE ~In(g, want)
      BY <3>2, <3>3, EqualIsEquivalence DEF In
    <3>4. CASE In(g, want)
      <4>1. PICK l \in want : isServerEqual(g, l)
        BY <3>4 DEF In
      <4>2. l \in group => l = g
        BY <4>1 DEF TypeOK
      <4>3. In(l, group)
        BY <4>1, EqualIsEquivalence DEF In
      <4> QED
        BY <3>2, <4>1, <4>2, <4>3 DEF In
    <3> QED
      BY <3>3, <3>4
  <2> QED
    BY <1>1, <2>1, <2>2, <2>3 DEF WorkAccount
<1>4. late => WorkAccount'
  BY <1>1 DEF WorkAccount
<1> QED
  BY <1>2, <1>3, <1>4

\* A batch moves servers from what is to be done to the job.
LEMMA BatchSync ==
  ASSUME NEW InstOf, ServersInv, OrderInv, SyncInv(InstOf), Batch
  PROVE  SyncInv(InstOf)'
<1> USE DEF SyncInv, ServersInv
<1> DEFINE op == NextOp
<1>1. /\ pc = "work" /\ todo[op] # {} /\ op \in Op
      /\ UNCHANGED <<node, pod, svc, nodeCache, created, group, attr, late, missed, edits, faults>>
  BY DEF Batch, NextOp, Op
<1>2. CASE job # None /\ Fail /\ UNCHANGED job
  <2>1. late
    BY <1>1, <1>2 DEF OrderInv
  <2> QED
    BY <1>1, <1>2, <2>1 DEF Fail, CacheFits, WorkAccount, RestAccount
<1>3. ASSUME job = None, pc' = "wait", UNCHANGED <<queued, want, wantAttr>>,
             NEW S \in SUBSET todo[op],
             job' = [op |-> op, servers |-> S],
             todo' = [todo EXCEPT ![op] = @ \ S]
      PROVE  SyncInv(InstOf)'
  <2> HIDE DEF op
  <2>1. CacheFits(InstOf)' /\ RestAccount'
    BY <1>1, <1>3, ExpectedStays DEF CacheFits, RestAccount
  <2>2. job'.op = op /\ job'.servers = S
    BY <1>3
  <2>3. /\ todo'[op] = todo[op] \ S /\ \A o \in Op \ {op} : todo'[o] = todo[o]
    BY <1>1, <1>3 DEF TypeOK
  <2>4. op # "del" => S \subseteq want
    BY <1>1, <1>3 DEF WorkFits, Op
  <2>5. ASSUME ~late, NEW g \in group
        PROVE  \/ g \in want \/ In(g, todo'["del"]) \/ In(g, todo'["upd"])
               \/ op # "add" /\ In(g, S)
    <3>1. g \in want \/ In(g, todo["del"]) \/ In(g, todo["upd"])
      BY <1>1, <1>3, <2>5 DEF WorkAccount
    <3>2. ASSUME NEW o \in {"del", "upd"}, In(g, todo[o])
          PROVE  In(g, todo'[o]) \/ (op # "add" /\ In(g, S))
      <4>1. PICK b \in todo[o] : isServerEqual(g, b)
        BY <3>2 DEF In
      <4>2. CASE o = op /\ b \in S
        BY <4>1, <4>2 DEF In
      <4>3. CASE ~(o = op /\ b \in S)
        <5>1. b \in todo'[o]
          BY <2>3, <3>2, <4>1, <4>3 DEF Op
        <5> QED
          BY <4>1, <5>1 DEF In
      <4> QED
        BY <4>2, <4>3
    <3> QED
      BY <3>1, <3>2
  <2>6. WorkAccount'
    <3>1. job' # None
      <4>1. todo[op] \subseteq Server
        BY <1>1 DEF TypeOK
      <4>2. job' \in Job
        BY <1>1, <1>3, <4>1 DEF Job
      <4> QED
        BY <4>2, ClusterAssumption
    <3> QED
      BY <1>1, <1>3, <2>2, <2>4, <2>5, <3>1 DEF WorkAccount
  <2> QED
    BY <2>1, <2>6
<1> QED
  BY <1>2, <1>3 DEF Batch

\* What a job leaves in the group and is not as wanted was to be removed or
\* updated by something else.
LEMMA JobEndsSync ==
  ASSUME NEW InstOf, ServersInv, OrderInv, SyncInv(InstOf), JobEnds
  PROVE  SyncInv(InstOf)'
<1> USE DEF SyncInv, ServersInv
<1>1. /\ job # None /\ group' = Effect(job) /\ job' = None /\ job.op \in Op
      /\ UNCHANGED <<node, pod, svc, queued, pass, nodeCache, created, attr, late, missed, edits, faults>>
  BY DEF JobEnds, TypeOK, Job
<1>2. ~late => pc = "wait"
  BY <1>1 DEF OrderInv
<1>3. CacheFits(InstOf)' /\ RestAccount'
  BY <1>1, <1>2, ExpectedStays DEF CacheFits, RestAccount, pass
<1>4. ASSUME ~late, NEW g \in group'
      PROVE  g \in want \/ In(g, todo["del"]) \/ In(g, todo["upd"])
  <2>1. \A h \in group : \/ h \in want \/ In(h, todo["del"]) \/ In(h, todo["upd"])
                         \/ job.op # "add" /\ In(h, job.servers)
    BY <1>1, <1>2, <1>4 DEF WorkAccount
  <2>2. job.op # "del" => job.servers \subseteq want
    BY <1>1, <1>4 DEF WorkAccount
  <2>3. CASE job.op = "add"
    <3>1. g \in group \cup job.servers
      BY <1>1, <1>4, <2>3 DEF Effect
    <3> QED
      BY <2>1, <2>2, <2>3, <3>1
  <2>4. CASE job.op = "del"
    <3>1. g \in group /\ ~In(g, job.servers)
      BY <1>1, <1>4, <2>4 DEF Effect
    <3> QED
      BY <2>1, <3>1
  <2>5. CASE job.op = "upd"
    <3>1. g \in job.servers \/ (g \in group /\ ~In(g, job.servers))
      BY <1>1, <1>4, <2>5 DEF Effect
    <3> QED
      BY <2>1, <2>2, <2>5, <3>1
  <2> QED
    BY <1>1, <2>3, <2>4, <2>5 DEF Op
<1>5. WorkAccount'
  BY <1>1, <1>2, <1>4 DEF WorkAccount, pass
<1> QED
  BY <1>3, <1>5

\* A group whose pass has nothing left to do is what the pass wanted.
LEMMA WorkDone ==
  ASSUME ServersInv, OrderInv, WorkAccount, ~late, pc = "work", todo = NoWork
  PROVE  group = want /\ created /\ wantAttr \in {None, attr} /\ job = None
<1> USE DEF ServersInv
<1>1. job = None /\ todo["add"] = {} /\ todo["del"] = {} /\ todo["upd"] = {}
  BY DEF OrderInv, NoWork, Op
<1>2. \A w \in want : In(w, group)
  BY <1>1 DEF OrderInv
<1>3. group \subseteq want
  BY <1>1 DEF WorkAccount, In
<1>4. want \subseteq group
  <2> SUFFICES ASSUME NEW w \in want PROVE w \in group
    OBVIOUS
  <2>1. PICK g \in group : isServerEqual(w, g)
    BY <1>2 DEF In
  <2> QED
    BY <1>3, <2>1 DEF WorkFits, Distinct
<1> QED
  BY <1>1, <1>3, <1>4 DEF WorkAccount, GroupFits, TypeOK

\* The rest of a pass, and the faults: a pass that fails is repeated.
LEMMA RestSync ==
  ASSUME NEW InstOf, ServersInv, OrderInv, SyncInv(InstOf),
         \/ UpdateServerGroup \/ waitJobFinish \/ PassEnds
         \/ CallFails \/ PollFails \/ WaitTimesOut \/ JobFails \/ Restart
         \/ UNCHANGED vars
  PROVE  SyncInv(InstOf)'
<1> USE DEF SyncInv, ServersInv
<1>1. Expected' = Expected /\ UNCHANGED <<node, pod, svc>>
  BY ExpectedStays DEF UpdateServerGroup, waitJobFinish, PassEnds, CallFails, PollFails,
     WaitTimesOut, JobFails, Restart, vars
<1>2. CacheFits(InstOf)'
  BY DEF CacheFits, UpdateServerGroup, waitJobFinish, PassEnds, CallFails, PollFails,
     WaitTimesOut, JobFails, Restart, vars
<1>3. CASE UpdateServerGroup
  BY <1>1, <1>2, <1>3 DEF UpdateServerGroup, WorkAccount, RestAccount
<1>4. CASE waitJobFinish
  BY <1>1, <1>2, <1>4 DEF waitJobFinish, WorkAccount, RestAccount, cloud
<1>5. CASE PassEnds
  <2>1. /\ pc = "work" /\ todo = NoWork /\ Idle
        /\ UNCHANGED <<node, pod, svc, queued, nodeCache, cloud, late, missed, edits, faults>>
    BY <1>5 DEF PassEnds
  <2>2. ~late => group = want /\ created /\ wantAttr \in {None, attr} /\ job = None
    BY <2>1, WorkDone
  <2>3. ASSUME ~late, ~missed, svc # None, ~queued PROVE InSync'
    BY <1>1, <2>1, <2>2, <2>3 DEF RestAccount, InSync, cloud
  <2> QED
    BY <1>1, <1>2, <2>1, <2>2, <2>3 DEF Idle, WorkAccount, RestAccount, cloud
<1>6. CASE CallFails
  <2>1. ~late => job = None
    BY <1>6 DEF CallFails, OrderInv
  <2> QED
    BY <1>2, <1>6, <2>1 DEF CallFails, Fail, Idle, WorkAccount, RestAccount, cloud
<1>7. CASE PollFails \/ WaitTimesOut \/ JobFails
  <2>1. late'
    BY <1>7 DEF PollFails, WaitTimesOut, JobFails
  <2> QED
    BY <1>2, <2>1 DEF WorkAccount, RestAccount
<1>8. CASE Restart
  <2>1. /\ Idle /\ queued' = (svc # None) /\ late' = (late \/ job # None)
        /\ UNCHANGED <<svc, cloud>>
    BY <1>8 DEF Restart
  <2> QED
    BY <1>2, <2>1 DEF Idle, WorkAccount, RestAccount, cloud
<1>9. CASE UNCHANGED vars
  BY <1>1, <1>2, <1>9 DEF vars, WorkAccount, RestAccount, InSync
<1> QED
  BY <1>3, <1>4, <1>5, <1>6, <1>7, <1>8, <1>9

\* Every step keeps the account of what is left to do.
LEMMA SyncNext ==
  ASSUME NEW InstOf, SyncHyp(InstOf), ServersInv, OrderInv, SyncInv(InstOf), OwnIds(InstOf),
         OwnIds(InstOf)', [Next]_vars
  PROVE  SyncInv(InstOf)'
BY ChangeSync, BuildSync, ApplySync, BatchSync, JobEndsSync, RestSync DEF Next, Pass

(***************************************************************************)
(* For every cluster, batch size and mix of changes and faults: with no    *)
(* pass due or under way the group has exactly the servers, ports and      *)
(* weights the Service should have, unless a wait ended early or a node    *)
(* changed, since the latest pass, in one of the blind spots of the        *)
(* handler: every other change it passes over makes no difference.  Nodes  *)
(* have instances of their own and keep them, and Pods on virtual nodes    *)
(* have interfaces of their own.                                           *)
(***************************************************************************)
THEOREM GroupInSync ==
  ASSUME NEW CONSTANT InstOf, SyncHyp(InstOf)
  PROVE  Spec /\ []OwnIds(InstOf) => []QuietInSync
<1>1. Init => SyncInv(InstOf)
  BY SyncInit
<1>2. /\ ServersInv /\ OrderInv /\ SyncInv(InstOf) /\ OwnIds(InstOf) /\ OwnIds(InstOf)'
      /\ [Next]_vars
      => SyncInv(InstOf)'
  BY SyncNext
<1>3. SyncInv(InstOf) => QuietInSync
  BY DEF SyncInv, RestAccount, QuietInSync, Quiet
<1> QED
  BY <1>1, <1>2, <1>3, Invariance, PTL DEF Spec
=============================================================================
