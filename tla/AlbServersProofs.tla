-------------------------- MODULE AlbServersProofs --------------------------
(***************************************************************************)
(* Proofs about AlbServers, for any number of Pods, workers, elements and  *)
(* any mix of faults: the types hold; no change of the backends is lost on *)
(* its way to a pass that reads the Endpoints its event announced; and     *)
(* whenever nothing is due and the latest pass left no doubt, the group    *)
(* ends up with the backends.                                              *)
(***************************************************************************)
EXTENDS AlbServers, TLAPS

\* A worker that is not idle processes an element.
BusyHasElement ==
  \A w \in Workers : worker[w].pc # "idle" => worker[w].el \in Elements

\* Without an event to deliver, a Pod whose containers start keeps a pass due,
\* unless the latest pass read Endpoints that were behind.
StartingDue ==
  ~news /\ Potential(Endpoints) => "cache" \in doubt \/ PassDue

ServersInv == TypeOK /\ BusyHasElement /\ StartingDue /\ ChangeNotLost

\* No pass resolves the backends; one may meet a reason for doubt.
PastKept ==
  built' = built /\ doubt \subseteq doubt' /\ doubt' \subseteq Doubts

\* What the invariants see of the cluster and of the past.
Calm == UNCHANGED <<pod, news, cached>> /\ PastKept

USE DEF past

-----------------------------------------------------------------------------
\* A ring channel that has taken an element in is not empty.
LEMMA RingKeeps ==
  ASSUME TypeOK, NEW e \in Elements, RingIn(e)
  PROVE  ring' \in Seq(Elements) /\ ring' # <<>>
<1>1. ring \in Seq(Elements) /\ Len(ring) \in Nat /\ RingSize \in Nat \ {0}
  BY ServersAssumption DEF TypeOK
<1>2. ASSUME NEW s \in Seq(Elements)
      PROVE  Append(s, e) \in Seq(Elements) /\ Append(s, e) # <<>>
  <2>1. Append(s, e) \in Seq(Elements) /\ Len(Append(s, e)) = Len(s) + 1
    OBVIOUS
  <2>2. Len(s) + 1 # 0 /\ Len(<<>>) = 0
    OBVIOUS
  <2> QED
    BY <2>1, <2>2
<1>3. CASE Len(ring) < RingSize
  BY <1>1, <1>2, <1>3 DEF RingIn
<1>4. CASE ~(Len(ring) < RingSize)
  <2>1. ring # <<>>
    BY <1>1, <1>4
  <2>2. Tail(ring) \in Seq(Elements)
    BY <1>1, <2>1
  <2> QED
    BY <1>2, <1>4, <2>2 DEF RingIn
<1> QED
  BY <1>3, <1>4

\* The end of a pass keeps the types and every reason for another pass, and
\* retries a pass that failed.
LEMMA FinishKeeps ==
  ASSUME TypeOK, BusyHasElement, NEW w \in Workers, NEW failed \in BOOLEAN,
         worker[w].pc # "idle", Finish(w, failed)
  PROVE  /\ ring' \in Seq(Elements) /\ queue' \in Seq(Elements)
         /\ dirty' \subseteq Elements /\ waiting' \subseteq Elements
         /\ worker' \in [Workers -> WorkerState]
         /\ BusyHasElement'
         /\ failed => PassDue'
         /\ worker[w].pc # "build" /\ PassDue => PassDue'
<1> DEFINE e == worker[w].el
<1>1. e \in Elements
  BY DEF BusyHasElement
<1>2. /\ ring' = ring /\ dirty' = dirty
      /\ waiting' = IF failed \/ worker[w].potential THEN waiting \cup {e}
                                                     ELSE waiting
      /\ queue' = IF e \in dirty THEN Append(queue, e) ELSE queue
      /\ worker' = [worker EXCEPT ![w] = Idle]
  BY DEF Finish
<1>3. /\ ring' \in Seq(Elements) /\ queue' \in Seq(Elements)
      /\ dirty' \subseteq Elements /\ waiting' \subseteq Elements
  BY <1>1, <1>2 DEF TypeOK
<1>4. worker' \in [Workers -> WorkerState]
  BY <1>2 DEF TypeOK, WorkerState, Idle, Step, JobResult
<1>5. BusyHasElement'
  BY <1>2 DEF BusyHasElement, TypeOK, Idle
<1>6. failed => PassDue'
  BY <1>2 DEF PassDue
<1>7. ASSUME worker[w].pc # "build", PassDue PROVE PassDue'
  <2>1. queue # <<>> => queue' # <<>>
    BY <1>2 DEF TypeOK
  <2>2. CASE ring # <<>> \/ queue # <<>> \/ dirty # {} \/ waiting # {}
    BY <1>2, <2>1, <2>2 DEF PassDue
  <2>3. CASE worker[w].potential
    BY <1>2, <2>3 DEF PassDue
  <2>4. CASE \E v \in Workers : v # w /\ (worker[v].pc = "build" \/ worker[v].potential)
    BY <1>2, <2>4 DEF PassDue, TypeOK
  <2> QED
    BY <1>7, <2>2, <2>3, <2>4 DEF PassDue
<1> QED
  BY <1>3, <1>4, <1>5, <1>6, <1>7

\* A step that leaves the cluster alone and keeps the reasons for another
\* pass keeps the two facts about changes.
LEMMA CalmKeeps ==
  ASSUME TypeOK, StartingDue, ChangeNotLost, Calm, PassDue => PassDue'
  PROVE  StartingDue' /\ ChangeNotLost'
<1>1. /\ Endpoints' = Endpoints
      /\ Potential(Endpoints)' = Potential(Endpoints)
      /\ Backends(Endpoints)' = Backends(Endpoints)
  BY DEF Calm, PastKept, Endpoints, EpView, Potential, Backends
<1> QED
  BY <1>1 DEF Calm, PastKept, StartingDue, ChangeNotLost

-----------------------------------------------------------------------------
(* One lemma per part of the next-state relation                           *)

\* Pods, events and caches keep the invariant.
LEMMA ClusterKeeps ==
  ASSUME ServersInv,
         \/ \E p \in Pods : PodStarts(p) \/ ContainersReady(p) \/ PodStops(p)
         \/ EndpointsEvent \/ CacheSync
         \/ \E e \in Elements : ServiceEvent(e)
  PROVE  ServersInv'
<1> USE DEF ServersInv
<1>1. ASSUME NEW p \in Pods, PodStarts(p) \/ PodStops(p)
      PROVE  ServersInv'
  <2>1. /\ news' = TRUE /\ cached' = cached /\ changes' = changes + 1
        /\ pod' \in [Pods -> PodState]
        /\ UNCHANGED <<tasks, worker, cloud, past, faults>>
    BY <1>1 DEF PodStarts, PodStops, TypeOK, PodState
  <2>2. TypeOK'
    BY <2>1 DEF TypeOK, tasks, cloud
  <2>3. BusyHasElement'
    BY <2>1 DEF BusyHasElement
  <2> QED
    BY <2>1, <2>2, <2>3 DEF StartingDue, ChangeNotLost
<1>2. ASSUME NEW p \in Pods, ContainersReady(p)
      PROVE  ServersInv'
  <2>1. /\ pod[p] = "starting"
        /\ pod' = [pod EXCEPT ![p] = IF p \in Gated THEN "gated" ELSE "ready"]
        /\ news' = (news \/ p \notin Gated)
        /\ UNCHANGED <<cached, changes, tasks, worker, cloud, past, faults>>
    BY <1>2 DEF ContainersReady
  <2>2. TypeOK'
    BY <2>1 DEF TypeOK, PodState, tasks, cloud
  <2>3. BusyHasElement'
    BY <2>1 DEF BusyHasElement
  <2>4. PassDue' = PassDue
    BY <2>1 DEF PassDue, tasks
  <2>5. CASE news'
    BY <2>2, <2>3, <2>5 DEF StartingDue, ChangeNotLost
  <2>6. CASE ~news'
    <3>1. ~news /\ p \in Gated /\ pod' = [pod EXCEPT ![p] = "gated"]
      BY <2>1, <2>6
    <3>2. Endpoints' = Endpoints
      BY <2>1, <3>1 DEF Endpoints, EpView, TypeOK
    <3>3. Endpoints[p] = "notReady"
      BY <2>1 DEF Endpoints, EpView
    <3>4. Potential(Endpoints)
      BY <2>1, <3>1, <3>3 DEF Potential
    <3>5. "cache" \in doubt' \/ PassDue'
      BY <2>1, <2>4, <3>1, <3>4 DEF StartingDue
    <3> QED
      BY <2>1, <2>2, <2>3, <3>1, <3>2, <3>5
         DEF StartingDue, ChangeNotLost
  <2> QED
    BY <2>5, <2>6
<1>3. ASSUME EndpointsEvent PROVE ServersInv'
  <2>1. /\ RingIn(EpElement)
        /\ UNCHANGED <<pod, cached, changes, queue, dirty, waiting, worker, cloud,
                       past, faults>>
        /\ news' = FALSE
    BY <1>3 DEF EndpointsEvent
  <2>2. ring' \in Seq(Elements) /\ ring' # <<>>
    BY <2>1, RingKeeps, ServersAssumption
  <2>3. Endpoints \in [Pods -> View] /\ Endpoints' = Endpoints
    BY <2>1 DEF Endpoints, EpView, View
  <2>4. TypeOK'
    BY <2>1, <2>2, <2>3 DEF TypeOK, cloud
  <2>5. BusyHasElement'
    BY <2>1 DEF BusyHasElement
  <2>6. PassDue'
    BY <2>2 DEF PassDue
  <2> QED
    BY <2>1, <2>3, <2>4, <2>5, <2>6 DEF StartingDue, ChangeNotLost
<1>4. ASSUME CacheSync PROVE ServersInv'
  <2>1. /\ cached' = Endpoints
        /\ UNCHANGED <<pod, news, changes, tasks, worker, cloud, past, faults>>
    BY <1>4 DEF CacheSync
  <2>2. /\ Endpoints \in [Pods -> View] /\ Endpoints' = Endpoints
        /\ Potential(Endpoints)' = Potential(Endpoints)
        /\ Backends(Endpoints)' = Backends(Endpoints)
    BY <2>1 DEF Endpoints, EpView, View, Potential, Backends
  <2>3. TypeOK'
    BY <2>1, <2>2 DEF TypeOK, tasks, cloud
  <2>4. BusyHasElement' /\ PassDue' = PassDue
    BY <2>1 DEF BusyHasElement, PassDue, tasks
  <2> QED
    BY <2>1, <2>2, <2>3, <2>4 DEF StartingDue, ChangeNotLost
<1>5. ASSUME NEW e \in Elements, ServiceEvent(e) PROVE ServersInv'
  <2>1. /\ RingIn(e)
        /\ changes' = changes + 1
        /\ UNCHANGED <<pod, news, cached, queue, dirty, waiting, worker, cloud,
                       past, faults>>
    BY <1>5 DEF ServiceEvent
  <2>2. ring' \in Seq(Elements) /\ ring' # <<>>
    BY <2>1, RingKeeps, ServersAssumption
  <2>3. TypeOK'
    BY <2>1, <2>2 DEF TypeOK, cloud
  <2>4. BusyHasElement' /\ PassDue' /\ Calm
    BY <2>1, <2>2 DEF BusyHasElement, PassDue, Calm, PastKept, TypeOK
  <2> QED
    BY <2>3, <2>4, CalmKeeps
<1> QED
  BY <1>1, <1>2, <1>3, <1>4, <1>5

\* The work queue keeps it.
LEMMA QueueKeeps ==
  ASSUME ServersInv,
         \/ Enqueue
         \/ \E e \in Elements : Retry(e)
         \/ \E w \in Workers : Get(w)
  PROVE  ServersInv'
<1> USE DEF ServersInv
<1>1. ASSUME NEW e \in Elements, Add(e)
      PROVE  queue' \in Seq(Elements) /\ dirty' \subseteq Elements /\ PassDue'
  BY <1>1 DEF Add, TypeOK, PassDue
<1>2. ASSUME Enqueue PROVE ServersInv'
  <2>1. Head(ring) \in Elements /\ Tail(ring) \in Seq(Elements)
    BY <1>2 DEF Enqueue, TypeOK
  <2>2. /\ Add(Head(ring)) /\ ring' = Tail(ring)
        /\ UNCHANGED <<cluster, waiting, worker, cloud, past, faults>>
    BY <1>2 DEF Enqueue
  <2>3. queue' \in Seq(Elements) /\ dirty' \subseteq Elements /\ PassDue'
    BY <1>1, <2>1, <2>2
  <2>4. TypeOK'
    BY <2>1, <2>2, <2>3 DEF TypeOK, cluster, cloud
  <2>5. BusyHasElement' /\ Calm
    BY <2>2 DEF BusyHasElement, Calm, PastKept, TypeOK, cluster
  <2> QED
    BY <2>3, <2>4, <2>5, CalmKeeps
<1>3. ASSUME NEW e \in Elements, Retry(e) PROVE ServersInv'
  <2>1. /\ Add(e) /\ waiting' = waiting \ {e}
        /\ UNCHANGED <<cluster, ring, worker, cloud, past, faults>>
    BY <1>3 DEF Retry
  <2>2. queue' \in Seq(Elements) /\ dirty' \subseteq Elements /\ PassDue'
    BY <1>1, <2>1
  <2>3. TypeOK'
    BY <2>1, <2>2 DEF TypeOK, cluster, cloud
  <2>4. BusyHasElement' /\ Calm
    BY <2>1 DEF BusyHasElement, Calm, PastKept, TypeOK, cluster
  <2> QED
    BY <2>2, <2>3, <2>4, CalmKeeps
<1>4. ASSUME NEW w \in Workers, Get(w) PROVE ServersInv'
  <2>1. Head(queue) \in Elements /\ Tail(queue) \in Seq(Elements)
    BY <1>4 DEF Get, TypeOK
  <2>2. /\ worker' = [worker EXCEPT ![w] = [Idle EXCEPT !.pc = "build",
                                                  !.el = Head(queue)]]
        /\ queue' = Tail(queue) /\ dirty' = dirty \ {Head(queue)}
        /\ UNCHANGED <<cluster, ring, waiting, cloud, past, faults>>
    BY <1>4 DEF Get
  <2>3. worker' \in [Workers -> WorkerState]
    BY <2>1, <2>2 DEF TypeOK, WorkerState, Idle, Step, JobResult
  <2>4. TypeOK'
    BY <2>1, <2>2, <2>3 DEF TypeOK, cluster, cloud
  <2>5. BusyHasElement' /\ PassDue' /\ Calm
    BY <2>1, <2>2 DEF BusyHasElement, PassDue, Calm, PastKept, cluster, TypeOK, Idle
  <2> QED
    BY <2>4, <2>5, CalmKeeps
<1> QED
  BY <1>2, <1>3, <1>4

\* A step of a worker that changes its own locals, not the reasons for a pass.
LEMMA LocalKeeps ==
  ASSUME ServersInv, NEW w \in Workers,
         worker[w].pc # "build",
         worker' \in [Workers -> WorkerState],
         worker'[w].potential = worker[w].potential,
         worker'[w].pc # "idle" => worker'[w].el \in Elements,
         \A v \in Workers : v # w => worker'[v] = worker[v],
         members' \subseteq Pods, jobs' \subseteq JobSet,
         UNCHANGED <<cluster, tasks>>, PastKept, faults' \in Nat
  PROVE  ServersInv'
<1> USE DEF ServersInv
<1>1. TypeOK'
  BY DEF TypeOK, PastKept, cluster, tasks
<1>2. BusyHasElement'
  BY DEF BusyHasElement
<1>3. ASSUME PassDue PROVE PassDue'
  <2>1. CASE ring # <<>> \/ queue # <<>> \/ dirty # {} \/ waiting # {}
    BY <2>1 DEF PassDue, tasks
  <2>2. ASSUME NEW v \in Workers, worker[v].pc = "build" \/ worker[v].potential
        PROVE  PassDue'
    <3>1. worker'[v].pc = "build" \/ worker'[v].potential
      BY <2>2
    <3> QED
      BY <3>1 DEF PassDue
  <2> QED
    BY <1>3, <2>1, <2>2 DEF PassDue
<1>4. Calm
  BY DEF Calm, PastKept, TypeOK, cluster
<1> QED
  BY <1>1, <1>2, <1>3, <1>4, CalmKeeps

\* Resolving the backends keeps it.
LEMMA BuildKeeps ==
  ASSUME ServersInv, NEW w \in Workers, Build(w) \/ BuildFails(w)
  PROVE  ServersInv'
<1> USE DEF ServersInv
<1>1. ASSUME Build(w) PROVE ServersInv'
  <2> DEFINE local == [worker[w] EXCEPT !.pc = "list",
                                        !.backends = Backends(cached),
                                        !.potential = Potential(cached)]
  <2>1. /\ worker' = [worker EXCEPT ![w] = local]
        /\ built' = Backends(cached) /\ doubt' = DoubtsOfBuild(w)
        /\ worker[w].pc = "build"
        /\ UNCHANGED <<cluster, tasks, cloud, faults>>
    BY <1>1 DEF Build
  <2>2. Backends(cached) \in SUBSET Pods /\ Potential(cached) \in BOOLEAN
    BY DEF Backends, Potential
  <2>3. worker' \in [Workers -> WorkerState]
    <3>1. local \in WorkerState
      BY <2>2 DEF TypeOK, WorkerState, Step
    <3> QED
      BY <2>1, <3>1 DEF TypeOK
  <2>4. TypeOK'
    BY <2>1, <2>2, <2>3 DEF TypeOK, cluster, tasks, cloud, DoubtsOfBuild, Doubts
  <2>5. BusyHasElement'
    BY <2>1 DEF BusyHasElement, TypeOK, WorkerState
  <2>6. /\ Endpoints' = Endpoints
        /\ Potential(Endpoints)' = Potential(Endpoints)
        /\ Backends(Endpoints)' = Backends(Endpoints)
    BY <2>1 DEF Endpoints, EpView, Potential, Backends, cluster
  <2>7. ~news' /\ "cache" \notin doubt' => cached = Endpoints
    BY <2>1 DEF cluster, DoubtsOfBuild
  <2>8. StartingDue'
    <3> SUFFICES ASSUME ~news', Potential(Endpoints)', "cache" \notin doubt'
                 PROVE  PassDue'
      BY DEF StartingDue
    <3>1. Potential(cached)
      BY <2>6, <2>7
    <3>2. worker'[w].potential = Potential(cached)
      BY <2>1 DEF TypeOK, WorkerState
    <3> QED
      BY <3>1, <3>2 DEF PassDue
  <2>9. ChangeNotLost'
    BY <2>1, <2>6, <2>7 DEF ChangeNotLost
  <2> QED
    BY <2>4, <2>5, <2>8, <2>9
<1>2. ASSUME BuildFails(w) PROVE ServersInv'
  <2>1. /\ worker[w].pc = "build" /\ Finish(w, TRUE)
        /\ UNCHANGED <<cluster, cloud, past, faults>>
    BY <1>2 DEF BuildFails, Fails
  <2>2. BusyHasElement' /\ PassDue' /\ TypeOK'
    BY <2>1, FinishKeeps DEF TypeOK, cluster, cloud
  <2>3. Calm
    BY <2>1 DEF Calm, PastKept, TypeOK, cluster
  <2> QED
    BY <2>2, <2>3, CalmKeeps
<1> QED
  BY <1>1, <1>2

\* A pass that ends with an error is retried.
LEMMA FailKeeps ==
  ASSUME ServersInv, NEW w \in Workers, worker[w].pc # "idle",
         Finish(w, TRUE), UNCHANGED <<cluster, members, past>>,
         jobs' \subseteq JobSet, faults' \in Nat
  PROVE  ServersInv'
<1> USE DEF ServersInv
<1>1. BusyHasElement' /\ PassDue' /\ TypeOK'
  BY FinishKeeps DEF TypeOK, cluster
<1>2. Calm
  BY DEF Calm, PastKept, TypeOK, cluster
<1> QED
  BY <1>1, <1>2, CalmKeeps

\* Listing the group and matching keeps it.
LEMMA ListKeeps ==
  ASSUME ServersInv, NEW w \in Workers,
         List(w) \/ ListNothingToDo(w) \/ ListFails(w)
  PROVE  ServersInv'
<1> USE DEF ServersInv
<1>1. ASSUME List(w) PROVE ServersInv'
  <2> DEFINE a == UnmatchedEndpoints(worker[w].backends)
             d == UnmatchedTargets(worker[w].backends)
             local == [worker[w] EXCEPT !.pc = ApplyStep(a, d), !.add = a,
                                        !.del = d]
  <2>1. /\ worker[w].pc = "list"
        /\ worker' = [worker EXCEPT ![w] = local]
        /\ UNCHANGED <<cluster, tasks, cloud, faults>> /\ PastKept
    BY <1>1 DEF List, DoubtsOfList, PastKept, TypeOK, Doubts
  <2>2. worker[w] \in WorkerState
    BY DEF TypeOK
  <2>3. a \in SUBSET Pods /\ d \in SUBSET Pods
    BY <2>2 DEF UnmatchedEndpoints, UnmatchedTargets, Listed, Adding, TypeOK,
                JobSet, WorkerState
  <2>4. ApplyStep(a, d) \in Step
    BY DEF ApplyStep, Step
  <2>5. /\ local \in WorkerState
        /\ local.potential = worker[w].potential /\ local.el = worker[w].el
    BY <2>2, <2>3, <2>4 DEF WorkerState
  <2>6. worker[w].el \in Elements
    BY <2>1 DEF BusyHasElement
  <2> HIDE DEF local
  <2> QED
    BY <2>1, <2>5, <2>6, LocalKeeps DEF TypeOK, cloud
<1>2. ASSUME ListNothingToDo(w) PROVE ServersInv'
  <2>1. /\ worker[w].pc = "list" /\ Finish(w, FALSE)
        /\ UNCHANGED <<cluster, cloud, faults>> /\ PastKept
    BY <1>2 DEF ListNothingToDo, DoubtsOfList, PastKept, TypeOK, Doubts
  <2>2. BusyHasElement' /\ (PassDue => PassDue') /\ TypeOK'
    BY <2>1, FinishKeeps DEF TypeOK, PastKept, cluster, cloud
  <2>3. Calm
    BY <2>1 DEF Calm, PastKept, TypeOK, cluster
  <2> QED
    BY <2>2, <2>3, CalmKeeps
<1>3. ASSUME ListFails(w) PROVE ServersInv'
  <2>1. /\ worker[w].pc = "list" /\ Finish(w, TRUE) /\ faults' = faults + 1
        /\ UNCHANGED <<cluster, cloud, past>>
    BY <1>3 DEF ListFails, Fails, Fault
  <2>2. jobs' \subseteq JobSet /\ faults' \in Nat /\ members' = members
    BY <2>1 DEF TypeOK, cloud
  <2> QED
    BY <2>1, <2>2, FailKeeps
<1> QED
  BY <1>1, <1>2, <1>3

\* A worker that moves on with what it resolved keeps it.
LEMMA GotoKeeps ==
  ASSUME ServersInv, NEW w \in Workers, NEW step \in Step, Goto(w, step),
         worker[w].pc \notin {"idle", "build"},
         UNCHANGED <<cluster, tasks, members, past>>,
         jobs' \subseteq JobSet, faults' \in Nat
  PROVE  ServersInv'
<1> DEFINE local == [worker[w] EXCEPT !.pc = step]
<1>1. worker[w] \in WorkerState /\ worker[w].el \in Elements
  BY DEF ServersInv, TypeOK, BusyHasElement
<1>2. worker' = [worker EXCEPT ![w] = local]
  BY DEF Goto
<1>3. /\ local \in WorkerState
      /\ local.potential = worker[w].potential /\ local.el = worker[w].el
  BY <1>1 DEF WorkerState
<1> HIDE DEF local
<1> QED
  BY <1>1, <1>2, <1>3, LocalKeeps DEF ServersInv, TypeOK, PastKept

\* A batch of servers is a set of Pods.
LEMMA CallTypes ==
  ASSUME TypeOK, NEW w \in Workers
  PROVE  /\ worker[w] \in WorkerState
         /\ worker[w].add \in SUBSET Pods /\ worker[w].del \in SUBSET Pods
         /\ Batches(worker[w].add) \subseteq SUBSET Pods
         /\ Batches(worker[w].del) \subseteq SUBSET Pods
         /\ \A a, d \in SUBSET Pods : Job(a, d, w) \in JobSet
         /\ \A a, d \in SUBSET Pods : Job(a, d, Nobody) \in JobSet
  BY DEF TypeOK, WorkerState, Batches, Job, JobSet

\* The replacement of servers keeps it.
LEMMA ReplaceKeeps ==
  ASSUME ServersInv, NEW w \in Workers,
         \/ Replace(w) \/ ReplaceCompletes(w) \/ ReplaceTimesOut(w)
         \/ PollFails(w)
  PROVE  ServersInv'
<1>1. TypeOK
  BY DEF ServersInv
<1>2. ASSUME Replace(w) PROVE ServersInv'
  <2>1. /\ worker[w].pc = "replace" /\ Goto(w, "poll") /\ "poll" \in Step
        /\ jobs' = jobs \cup {Job(worker[w].add, worker[w].del, Nobody)}
        /\ UNCHANGED <<cluster, tasks, members, past, faults>>
    BY <1>2 DEF Replace, Step
  <2>2. jobs' \subseteq JobSet /\ faults' \in Nat
    BY <1>1, <2>1, CallTypes DEF TypeOK
  <2> QED
    BY <2>1, <2>2, GotoKeeps
<1>3. ASSUME ReplaceCompletes(w) \/ ReplaceTimesOut(w) PROVE ServersInv'
  <2>1. /\ worker[w].pc = "poll" /\ Goto(w, "gate") /\ "gate" \in Step
        /\ UNCHANGED <<cluster, tasks, cloud, past, faults>>
    BY <1>3 DEF ReplaceCompletes, ReplaceTimesOut, Step
  <2> QED
    BY <1>1, <2>1, GotoKeeps DEF TypeOK, cloud
<1>4. ASSUME PollFails(w) PROVE ServersInv'
  <2>1. /\ worker[w].pc = "poll" /\ Finish(w, TRUE) /\ faults' = faults + 1
        /\ UNCHANGED <<cluster, cloud, past>>
    BY <1>4 DEF PollFails, Fails, Fault
  <2>2. jobs' \subseteq JobSet /\ faults' \in Nat /\ members' = members
    BY <1>1, <2>1 DEF TypeOK, cloud
  <2> QED
    BY <2>1, <2>2, FailKeeps
<1> QED
  BY <1>2, <1>3, <1>4

\* The other calls keep it, refused, failed or lost.
LEMMA CallKeeps ==
  ASSUME ServersInv, NEW w \in Workers,
         \/ Deregister(w) \/ Register(w)
         \/ CallRefused(w) \/ CallFails(w) \/ CallLost(w)
  PROVE  ServersInv'
<1>1. TypeOK /\ (worker[w].pc # "idle" => worker[w].el \in Elements)
  BY DEF ServersInv, BusyHasElement
<1>2. ASSUME Deregister(w) PROVE ServersInv'
  <2>1. PICK B \in Batches(worker[w].del) :
          /\ jobs' = jobs \cup {Job({}, B, w)}
          /\ worker' = [worker EXCEPT ![w] =
                          [worker[w] EXCEPT !.pc = "deregistering",
                             !.del = worker[w].del \ B, !.job = "none"]]
    BY <1>2 DEF Deregister
  <2> DEFINE local == [worker[w] EXCEPT !.pc = "deregistering",
                             !.del = worker[w].del \ B, !.job = "none"]
  <2>2. /\ local \in WorkerState
        /\ local.potential = worker[w].potential /\ local.el = worker[w].el
    BY <1>1, CallTypes DEF WorkerState, Step, JobResult
  <2>3. worker' = [worker EXCEPT ![w] = local]
    BY <2>1
  <2>4. jobs' \subseteq JobSet
    BY <1>1, <2>1, CallTypes DEF TypeOK
  <2>5. /\ worker[w].pc = "deregister"
        /\ UNCHANGED <<cluster, tasks, members, past, faults>>
    BY <1>2 DEF Deregister
  <2> HIDE DEF local
  <2> QED
    BY <1>1, <2>2, <2>3, <2>4, <2>5, LocalKeeps DEF TypeOK, PastKept
<1>3. ASSUME Register(w) PROVE ServersInv'
  <2>1. PICK B \in Batches(worker[w].add) :
          /\ jobs' = jobs \cup {Job(B, {}, w)}
          /\ worker' = [worker EXCEPT ![w] =
                          [worker[w] EXCEPT !.pc = "registering",
                             !.add = worker[w].add \ B, !.job = "none"]]
    BY <1>3 DEF Register
  <2> DEFINE local == [worker[w] EXCEPT !.pc = "registering",
                             !.add = worker[w].add \ B, !.job = "none"]
  <2>2. /\ local \in WorkerState
        /\ local.potential = worker[w].potential /\ local.el = worker[w].el
    BY <1>1, CallTypes DEF WorkerState, Step, JobResult
  <2>3. worker' = [worker EXCEPT ![w] = local]
    BY <2>1
  <2>4. jobs' \subseteq JobSet
    BY <1>1, <2>1, CallTypes DEF TypeOK
  <2>5. /\ worker[w].pc = "register"
        /\ UNCHANGED <<cluster, tasks, members, past, faults>>
    BY <1>3 DEF Register
  <2> HIDE DEF local
  <2> QED
    BY <1>1, <2>2, <2>3, <2>4, <2>5, LocalKeeps DEF TypeOK, PastKept
<1>4. ASSUME CallRefused(w) \/ CallFails(w) \/ CallLost(w) PROVE ServersInv'
  <2>1. /\ worker[w].pc # "idle" /\ Finish(w, TRUE)
        /\ UNCHANGED <<cluster, members, past>>
        /\ faults' = faults \/ faults' = faults + 1
    BY <1>4 DEF CallRefused, CallFails, CallLost, NextCall, Fails, Fault, cloud
  <2>2. jobs' \subseteq JobSet
    <3>1. CASE CallRefused(w) \/ CallFails(w)
      BY <1>1, <3>1 DEF CallRefused, CallFails, Fails, TypeOK, cloud
    <3>2. CASE CallLost(w)
      <4>1. PICK a, d \in SUBSET Pods : jobs' = jobs \cup {Job(a, d, Nobody)}
        BY <3>2 DEF CallLost
      <4>2. Job(a, d, Nobody) \in JobSet
        BY <1>1, CallTypes
      <4> QED
        BY <1>1, <4>1, <4>2 DEF TypeOK
    <3> QED
      BY <1>4, <3>1, <3>2
  <2>3. faults' \in Nat
    BY <1>1, <2>1 DEF TypeOK
  <2> QED
    BY <2>1, <2>2, <2>3, FailKeeps
<1> QED
  BY <1>2, <1>3, <1>4

\* The end of a wait for a job keeps it.
LEMMA AwaitedKeeps ==
  ASSUME ServersInv, NEW w \in Workers, Awaited(w) \/ AwaitTimesOut(w)
  PROVE  ServersInv'
<1>1. TypeOK /\ BusyHasElement
  BY DEF ServersInv
<1>2. /\ worker[w].pc \in {"deregistering", "registering"}
      /\ UNCHANGED <<cluster, members, past>>
      /\ \E result \in JobResult : Continue(w, result)
  BY <1>1 DEF Awaited, AwaitTimesOut, cloud, TypeOK, WorkerState, JobResult
<1>3. jobs' \subseteq JobSet /\ faults' \in Nat
  <2>1. CASE Awaited(w)
    BY <1>1, <2>1 DEF Awaited, cloud, TypeOK
  <2>2. CASE AwaitTimesOut(w)
    <3>1. /\ jobs' = {IF j.by = w THEN Job(j.add, j.del, Nobody) ELSE j :
                        j \in jobs}
          /\ faults' = faults + 1
      BY <2>2 DEF AwaitTimesOut, Fault
    <3>2. \A j \in jobs : j \in JobSet /\ j.add \subseteq Pods
                                       /\ j.del \subseteq Pods
      BY <1>1 DEF TypeOK, JobSet
    <3>3. \A j \in jobs : Job(j.add, j.del, Nobody) \in JobSet
      BY <3>2 DEF Job, JobSet
    <3> QED
      BY <1>1, <3>1, <3>2, <3>3 DEF TypeOK
  <2> QED
    BY <2>1, <2>2
<1>4. PICK err \in BOOLEAN :
        IF err \/ AfterJob(w) = "idle"
        THEN Finish(w, err)
        ELSE Goto(w, AfterJob(w)) /\ UNCHANGED tasks
  <2>1. PICK result \in JobResult : Continue(w, result)
    BY <1>2
  <2> QED
    BY <2>1 DEF Continue, FutureErr
<1>5. CASE err \/ AfterJob(w) = "idle"
  <2>1. Finish(w, err)
    BY <1>4, <1>5
  <2>2. BusyHasElement' /\ (PassDue => PassDue') /\ TypeOK'
    BY <1>1, <1>2, <1>3, <2>1, FinishKeeps DEF TypeOK, cluster
  <2>3. Calm
    BY <1>1, <1>2 DEF Calm, PastKept, TypeOK, cluster
  <2> QED
    BY <2>2, <2>3, CalmKeeps DEF ServersInv
<1>6. CASE ~(err \/ AfterJob(w) = "idle")
  <2>1. Goto(w, AfterJob(w)) /\ UNCHANGED tasks
    BY <1>4, <1>6
  <2>2. AfterJob(w) \in Step
    BY DEF AfterJob, Step
  <2> QED
    BY <1>2, <1>3, <2>1, <2>2, GotoKeeps
<1> QED
  BY <1>5, <1>6

\* Opening the readiness gates keeps it.
LEMMA GateKeeps ==
  ASSUME ServersInv, NEW w \in Workers, Gate(w) \/ GatePatchFails(w)
  PROVE  ServersInv'
<1>1. TypeOK /\ BusyHasElement
  BY DEF ServersInv
<1>2. /\ worker[w].pc = "gate" /\ Finish(w, FALSE)
      /\ UNCHANGED <<cached, changes, cloud, past>>
      /\ faults' = faults \/ faults' = faults + 1
  BY DEF Gate, GatePatchFails, Fault
<1>3. PICK opened \in SUBSET GatedPods(w) :
        /\ pod' = [p \in Pods |-> IF p \in opened THEN "ready" ELSE pod[p]]
        /\ news' = (news \/ opened # {})
  <2>1. CASE Gate(w)
    BY <2>1 DEF Gate
  <2>2. CASE GatePatchFails(w)
    <3>1. PICK failed \in SUBSET GatedPods(w) :
            /\ pod' = [p \in Pods |-> IF p \in GatedPods(w) \ failed
                                      THEN "ready" ELSE pod[p]]
            /\ news' = (news \/ failed # GatedPods(w))
      BY <2>2 DEF GatePatchFails
    <3> WITNESS GatedPods(w) \ failed \in SUBSET GatedPods(w)
    <3> QED
      BY <3>1
  <2> QED
    BY <2>1, <2>2
<1>4. BusyHasElement' /\ (PassDue => PassDue') /\ TypeOK'
  <2>1. pod' \in [Pods -> PodState] /\ news' \in BOOLEAN /\ faults' \in Nat
    BY <1>1, <1>2, <1>3 DEF TypeOK, PodState
  <2> QED
    BY <1>1, <1>2, <2>1, FinishKeeps DEF TypeOK, cloud
<1>5. CASE opened = {}
  <2>1. pod' = pod /\ news' = news
    BY <1>1, <1>3, <1>5 DEF TypeOK
  <2>2. Calm
    BY <1>1, <1>2, <2>1 DEF Calm, PastKept, TypeOK
  <2> QED
    BY <1>1, <1>4, <2>2, CalmKeeps DEF ServersInv
<1>6. CASE opened # {}
  BY <1>3, <1>4, <1>6 DEF ServersInv, StartingDue, ChangeNotLost
<1> QED
  BY <1>5, <1>6

\* The end of a job of the cloud keeps it.
LEMMA JobKeeps ==
  ASSUME ServersInv, NEW j \in jobs, JobSucceeds(j) \/ JobFails(j)
  PROVE  ServersInv'
<1>1. TypeOK
  BY DEF ServersInv
<1>2. j \in JobSet
  BY <1>1 DEF TypeOK
<1>3. /\ members' \subseteq Pods /\ jobs' \subseteq JobSet /\ faults' \in Nat
      /\ UNCHANGED <<cluster, tasks, built>>
      /\ doubt' = doubt \/ doubt' = doubt \cup {"job"}
  BY <1>1, <1>2 DEF JobSucceeds, JobFails, Fault, TypeOK, JobSet
<1> PastKept
  BY <1>1, <1>3 DEF PastKept, TypeOK, Doubts
<1>4. PICK result \in JobResult : Reported(j, result)
  BY DEF JobSucceeds, JobFails, JobResult
<1>5. \A w \in Workers :
        /\ worker'[w] \in WorkerState
        /\ worker'[w].pc = worker[w].pc /\ worker'[w].el = worker[w].el
        /\ worker'[w].potential = worker[w].potential
  <2> TAKE w \in Workers
  <2>1. worker[w] \in WorkerState
    BY <1>1 DEF TypeOK
  <2>2. CASE w = j.by
    <3>1. worker'[w] = [worker[w] EXCEPT !.job = result]
      BY <1>4, <2>2 DEF Reported
    <3> QED
      BY <1>4, <2>1, <3>1 DEF WorkerState
  <2>3. CASE w # j.by
    <3>1. worker'[w] = worker[w]
      BY <1>4, <2>3 DEF Reported
    <3> QED
      BY <2>1, <3>1
  <2> QED
    BY <2>2, <2>3
<1>6. worker' \in [Workers -> WorkerState]
  BY <1>4, <1>5 DEF Reported
<1>7. TypeOK'
  BY <1>1, <1>3, <1>6 DEF TypeOK, PastKept, cluster, tasks
<1>8. BusyHasElement' /\ PassDue' = PassDue
  BY <1>3, <1>5 DEF ServersInv, BusyHasElement, PassDue, tasks
<1>9. Calm
  BY <1>3 DEF Calm, PastKept, TypeOK, cluster
<1> QED
  BY <1>1, <1>7, <1>8, <1>9, CalmKeeps DEF ServersInv

\* A restart of the controller keeps it.
LEMMA CrashKeeps ==
  ASSUME ServersInv, Crash
  PROVE  ServersInv'
<1>1. TypeOK
  BY DEF ServersInv
<1>2. Idle \in WorkerState /\ Endpoints \in [Pods -> View]
  BY DEF Idle, WorkerState, Step, JobResult, Endpoints, EpView, View
<1>3. /\ news' = TRUE /\ cached' = Endpoints /\ faults' = faults + 1
      /\ ring' = <<>> /\ queue' = <<>> /\ dirty' = {} /\ waiting' = {}
      /\ worker' = [w \in Workers |-> Idle]
      /\ jobs' = {Job(j.add, j.del, Nobody) : j \in jobs}
      /\ UNCHANGED <<pod, changes, members, past>>
  BY DEF Crash, Fault
<1>4. jobs' \subseteq JobSet
  <2>1. \A j \in jobs : j.add \subseteq Pods /\ j.del \subseteq Pods
    BY <1>1 DEF TypeOK, JobSet
  <2>2. \A j \in jobs : Job(j.add, j.del, Nobody) \in JobSet
    BY <2>1 DEF Job, JobSet
  <2> QED
    BY <1>3, <2>2
<1>5. TypeOK'
  BY <1>1, <1>2, <1>3, <1>4 DEF TypeOK
<1>6. BusyHasElement'
  BY <1>3 DEF BusyHasElement, Idle
<1> QED
  BY <1>3, <1>5, <1>6 DEF ServersInv, StartingDue, ChangeNotLost

-----------------------------------------------------------------------------
\* The initial state satisfies the invariant: no Pod, no server, no task.
LEMMA ServersInit ==
  ASSUME Init
  PROVE  ServersInv
<1>1. Idle \in WorkerState
  BY DEF Idle, WorkerState, Step, JobResult
<1>2. TypeOK
  <2>1. worker \in [Workers -> WorkerState]
    BY <1>1 DEF Init
  <2>2. pod \in [Pods -> PodState] /\ cached \in [Pods -> View]
    BY DEF Init, PodState, View
  <2>3. ring \in Seq(Elements) /\ queue \in Seq(Elements)
    BY DEF Init
  <2>4. news \in BOOLEAN
    BY DEF Init
  <2>5. /\ dirty \subseteq Elements /\ waiting \subseteq Elements
        /\ members \subseteq Pods /\ jobs \subseteq JobSet
        /\ built \subseteq Pods /\ doubt \subseteq Doubts
        /\ faults \in Nat /\ changes \in Nat
    BY DEF Init
  <2> QED
    BY <2>1, <2>2, <2>3, <2>4, <2>5 DEF TypeOK
<1>3. BusyHasElement
  BY DEF Init, BusyHasElement, Idle
<1>4. Endpoints = [p \in Pods |-> "absent"]
  BY DEF Init, Endpoints, EpView
<1>5. ~Potential(Endpoints) /\ Backends(Endpoints) = {}
  BY <1>4, ServersAssumption DEF Potential, Backends
<1> QED
  BY <1>2, <1>3, <1>5 DEF Init, ServersInv, StartingDue, ChangeNotLost

\* Every step keeps it.
LEMMA ServersStep ==
  ASSUME ServersInv, [Next]_vars
  PROVE  ServersInv'
<1>1. CASE \/ \E p \in Pods : PodStarts(p) \/ ContainersReady(p) \/ PodStops(p)
           \/ EndpointsEvent \/ CacheSync
           \/ \E e \in Elements : ServiceEvent(e)
  BY <1>1, ClusterKeeps
<1>2. CASE Enqueue \/ \E e \in Elements : Retry(e)
  BY <1>2, QueueKeeps
<1>3. ASSUME NEW w \in Workers, Sync(w) \/ Failure(w)
      PROVE  ServersInv'
  <2>1. CASE Get(w)
    BY <2>1, QueueKeeps
  <2>2. CASE Build(w) \/ BuildFails(w)
    BY <2>2, BuildKeeps
  <2>3. CASE List(w) \/ ListNothingToDo(w) \/ ListFails(w)
    BY <2>3, ListKeeps
  <2>4. CASE \/ Replace(w) \/ ReplaceCompletes(w) \/ ReplaceTimesOut(w)
             \/ PollFails(w)
    BY <2>4, ReplaceKeeps
  <2>5. CASE \/ Deregister(w) \/ Register(w)
             \/ CallRefused(w) \/ CallFails(w) \/ CallLost(w)
    BY <2>5, CallKeeps
  <2>6. CASE Awaited(w) \/ AwaitTimesOut(w)
    BY <2>6, AwaitedKeeps
  <2>7. CASE Gate(w) \/ GatePatchFails(w)
    BY <2>7, GateKeeps
  <2> QED
    BY <1>3, <2>1, <2>2, <2>3, <2>4, <2>5, <2>6, <2>7 DEF Sync, Failure
<1>4. CASE \E j \in jobs : JobSucceeds(j) \/ JobFails(j)
  BY <1>4, JobKeeps
<1>5. CASE Crash
  BY <1>5, CrashKeeps
<1>6. CASE UNCHANGED vars
  <2>1. Calm /\ PassDue' = PassDue /\ TypeOK' /\ BusyHasElement'
    BY <1>6 DEF vars, cluster, tasks, cloud, Calm, PastKept, PassDue, ServersInv,
                TypeOK, BusyHasElement
  <2> QED
    BY <2>1, CalmKeeps DEF ServersInv
<1> QED
  BY <1>1, <1>2, <1>3, <1>4, <1>5, <1>6 DEF Next

\* The invariant always holds.
LEMMA ServersInvariance == Spec => []ServersInv
<1>1. Init => ServersInv
  BY ServersInit
<1>2. ServersInv /\ [Next]_vars => ServersInv'
  BY ServersStep
<1> QED
  BY <1>1, <1>2, PTL DEF Spec

\* The locals of syncServers, the elements of the queue and the jobs of the cloud
\* keep their types, also when the manager's cache is behind: whatever fails, a
\* worker at work has an element, so what it adds again is one (Queue.worker).
THEOREM TypeCorrect == Spec => []TypeOK
<1>1. ServersInv => TypeOK
  BY DEF ServersInv
<1> QED
  BY <1>1, ServersInvariance, PTL

\* No change of the backends is lost between the store's informer and a pass
\* (epEventHandler, the ring channel, the queue, syncServers), for any number of
\* Pods, workers and elements, whatever fails and however far the manager's cache
\* is behind, unless the latest pass itself read Endpoints older than its event.
THEOREM ChangesReachAPass == Spec => []ChangeNotLost
<1>1. ServersInv => ChangeNotLost
  BY DEF ServersInv
<1> QED
  BY <1>1, ServersInvariance, PTL
-----------------------------------------------------------------------------
(* The group ends up with the backends                                     *)

\* Two jobs have no server in common, because the cloud refuses a call for a
\* server that has a job, and no call adds and removes the same server.
Apart ==
  /\ \A j, k \in jobs : j # k => (j.add \cup j.del) \cap (k.add \cup k.del) = {}
  /\ \A j \in jobs : j.add \cap j.del = {}
  /\ \A w \in Workers : worker[w].add \cap worker[w].del = {}

\* What the pass of w has still to do is what is missing when the jobs end.
WorkKnown(w) ==
  /\ built = worker[w].backends
  /\ worker[w].pc \in {"replace", "deregister", "deregistering", "register",
                       "registering"} =>
       /\ worker[w].add = worker[w].backends \ Outcome
       /\ worker[w].del = Outcome \ worker[w].backends
  /\ worker[w].pc \in {"poll", "gate"} => Outcome = worker[w].backends

\* Between passes the group gets what the latest one resolved, or another pass
\* is due.
Rest ==
  (\A w \in Workers : ~InPass(w)) => Outcome = built \/ PassDue \/ news

\* A pass without a doubt is the only one, and brings the group to what it
\* resolved.
Known ==
  doubt = {} =>
    /\ \A v, w \in Workers : InPass(v) /\ InPass(w) => v = w
    /\ \A w \in Workers : InPass(w) => WorkKnown(w)
    /\ Rest

SyncInv == ServersInv /\ Apart /\ Known

\* Jobs that are the same but for who waits for them come to the same.
LEMMA JobsRelabelled ==
  ASSUME TypeOK, Apart, members' = members,
         NEW f, jobs' = {f[j] : j \in jobs},
         \A j \in jobs : f[j].add = j.add /\ f[j].del = j.del,
         \A v \in Workers : worker'[v].add \cap worker'[v].del = {}
  PROVE  Outcome' = Outcome /\ Apart'
<1>1. Adding' = Adding /\ Removing' = Removing
  BY DEF Adding, Removing
<1>2. Outcome' = Outcome
  BY <1>1 DEF Outcome
<1>3. ASSUME NEW j \in jobs', NEW k \in jobs', j # k
      PROVE  (j.add \cup j.del) \cap (k.add \cup k.del) = {}
  <2>1. PICK i \in jobs : j = f[i]
    OBVIOUS
  <2>2. PICK l \in jobs : k = f[l]
    OBVIOUS
  <2>3. i # l
    BY <1>3, <2>1, <2>2
  <2> QED
    BY <2>1, <2>2, <2>3 DEF Apart
<1>4. \A j \in jobs' : j.add \cap j.del = {}
  BY DEF Apart
<1> QED
  BY <1>2, <1>3, <1>4 DEF Apart

\* A job that starts adds and removes what it was asked to.
LEMMA JobStarts ==
  ASSUME TypeOK, Apart, members' = members, NEW a, NEW d, NEW n,
         jobs' = jobs \cup {Job(a, d, n)}, Accepted(a \cup d), a \cap d = {},
         \A v \in Workers : worker'[v].add \cap worker'[v].del = {}
  PROVE  Outcome' = (Outcome \cup a) \ d /\ Apart'
<1>1. PICK i : i = Job(a, d, n) /\ i.add = a /\ i.del = d
  <2>1. Job(a, d, n).add = a /\ Job(a, d, n).del = d
    BY DEF Job
  <2> QED
    BY <2>1
<1>2. Adding' = Adding \cup a /\ Removing' = Removing \cup d
  <2>1. jobs' = jobs \cup {i}
    BY <1>1
  <2> QED
    BY <1>1, <2>1 DEF Adding, Removing
<1>3. Outcome' = (Outcome \cup a) \ d
  <2>1. a \cap Removing = {}
    BY DEF Accepted
  <2>2. Outcome' = (members \cup (Adding \cup a)) \ (Removing \cup d)
    BY <1>2 DEF Outcome
  <2> QED
    BY <2>1, <2>2 DEF Outcome
<1>4. \A j \in jobs : (j.add \cup j.del) \cap (i.add \cup i.del) = {}
  BY <1>1 DEF Accepted, Adding, Removing
<1>5. \A j, k \in jobs' : j # k => (j.add \cup j.del) \cap (k.add \cup k.del) = {}
  BY <1>1, <1>4 DEF Apart
<1>6. \A j \in jobs' : j.add \cap j.del = {}
  BY <1>1 DEF Apart
<1> QED
  BY <1>3, <1>5, <1>6 DEF Apart

\* A job that ends well changes nothing about the outcome.
LEMMA JobEnds ==
  ASSUME TypeOK, Apart, NEW j \in jobs,
         members' = (members \cup j.add) \ j.del, jobs' = jobs \ {j}
  PROVE  Outcome' = Outcome
<1>1. Adding = Adding' \cup j.add /\ Removing = Removing' \cup j.del
  BY DEF Adding, Removing
<1>2. j.add \cap j.del = {} /\ Adding' \cap j.del = {} /\ Removing' \cap j.add = {}
  BY DEF Apart, Adding, Removing
<1> QED
  BY <1>1, <1>2 DEF Outcome

\* Steps outside the passes.
LEMMA Unmoved ==
  ASSUME SyncInv, Outcome' = Outcome, built' = built, doubt \subseteq doubt',
         \A v \in Workers :
           /\ InPass(v)' <=> InPass(v)
           /\ InPass(v) => /\ worker'[v].pc = worker[v].pc
                           /\ worker'[v].backends = worker[v].backends
                           /\ worker'[v].add = worker[v].add
                           /\ worker'[v].del = worker[v].del,
         PassDue \/ news => PassDue' \/ news'
  PROVE  Known'
<1> SUFFICES ASSUME doubt' = {}
             PROVE  /\ \A v, w \in Workers : InPass(v)' /\ InPass(w)' => v = w
                    /\ \A w \in Workers : InPass(w)' => WorkKnown(w)'
                    /\ Rest'
  BY DEF Known
<1>1. doubt = {}
  OBVIOUS
<1>2. \A v, w \in Workers : InPass(v)' /\ InPass(w)' => v = w
  BY <1>1 DEF SyncInv, Known
<1>3. ASSUME NEW w \in Workers, InPass(w)' PROVE WorkKnown(w)'
  <2>1. WorkKnown(w) /\ InPass(w)
    BY <1>1, <1>3 DEF SyncInv, Known
  <2> QED
    BY <2>1 DEF WorkKnown
<1>4. Rest'
  BY <1>1 DEF SyncInv, Known, Rest
<1> QED
  BY <1>2, <1>3, <1>4

\* A pass that ends leaves the group to another pass, or has done its work.
LEMMA PassEnds ==
  ASSUME SyncInv, NEW w \in Workers, InPass(w), NEW failed \in BOOLEAN,
         Finish(w, failed), built' = built, doubt \subseteq doubt',
         doubt' = {} => failed \/ Outcome' = built
  PROVE  Known'
<1> SUFFICES ASSUME doubt' = {}
             PROVE  /\ \A v, u \in Workers : InPass(v)' /\ InPass(u)' => v = u
                    /\ \A v \in Workers : InPass(v)' => WorkKnown(v)'
                    /\ Rest'
  BY DEF Known
<1>1. TypeOK /\ BusyHasElement /\ doubt = {} /\ worker[w].pc # "idle"
  BY DEF SyncInv, ServersInv, InPass
<1>2. \A v \in Workers : ~InPass(v)'
  <2>1. worker' = [worker EXCEPT ![w] = Idle]
    BY DEF Finish
  <2>2. \A v \in Workers : InPass(v) => v = w
    BY <1>1 DEF SyncInv, Known
  <2>3. \A v \in Workers : worker'[v] = IF v = w THEN Idle ELSE worker[v]
    BY <1>1, <2>1 DEF TypeOK
  <2> QED
    BY <2>2, <2>3 DEF InPass, Idle
<1>3. failed => PassDue'
  BY <1>1, FinishKeeps
<1> QED
  BY <1>2, <1>3 DEF Rest

\* A pass that goes on knows what is left to do.
LEMMA PassGoesOn ==
  ASSUME SyncInv, NEW w \in Workers, InPass(w), InPass(w)',
         \A v \in Workers : v # w => worker'[v] = worker[v],
         built' = built, doubt \subseteq doubt',
         doubt' = {} => WorkKnown(w)'
  PROVE  Known'
<1> SUFFICES ASSUME doubt' = {}
             PROVE  /\ \A v, u \in Workers : InPass(v)' /\ InPass(u)' => v = u
                    /\ \A v \in Workers : InPass(v)' => WorkKnown(v)'
                    /\ Rest'
  BY DEF Known
<1>1. \A v \in Workers : InPass(v) => v = w
  BY DEF SyncInv, Known
<1>2. \A v \in Workers : InPass(v)' => v = w
  BY <1>1 DEF InPass
<1> QED
  BY <1>2 DEF Rest
-----------------------------------------------------------------------------
(* One lemma per part of the next-state relation, again                    *)

\* The cluster and the queue.
LEMMA OutsideSync ==
  ASSUME SyncInv,
         \/ \E p \in Pods : PodStarts(p) \/ ContainersReady(p) \/ PodStops(p)
         \/ EndpointsEvent \/ CacheSync
         \/ \E e \in Elements : ServiceEvent(e) \/ Retry(e)
         \/ Enqueue \/ UNCHANGED vars
  PROVE  Apart' /\ Known'
<1>1. TypeOK
  BY DEF SyncInv, ServersInv
<1>2. UNCHANGED <<worker, members, jobs, built, doubt>>
  BY DEF PodStarts, ContainersReady, PodStops, EndpointsEvent, CacheSync,
         ServiceEvent, Retry, Enqueue, vars, cloud
<1>3. Apart' /\ Outcome' = Outcome
  BY <1>2 DEF SyncInv, Apart, Outcome, Adding, Removing
<1>4. PassDue \/ news => PassDue' \/ news'
  <2>1. CASE \/ \E p \in Pods : PodStarts(p) \/ ContainersReady(p) \/ PodStops(p)
             \/ CacheSync \/ UNCHANGED vars
    <3>1. UNCHANGED <<ring, queue, dirty, waiting>>
      BY <2>1 DEF PodStarts, ContainersReady, PodStops, CacheSync, tasks, vars
    <3>2. news => news'
      <4>1. CASE CacheSync \/ UNCHANGED vars
        BY <4>1 DEF CacheSync, vars, cluster
      <4>2. ASSUME NEW p \in Pods, PodStarts(p) \/ ContainersReady(p) \/ PodStops(p)
            PROVE  news => news'
        BY <4>2 DEF PodStarts, ContainersReady, PodStops
      <4> QED
        BY <2>1, <4>1, <4>2
    <3> QED
      BY <1>2, <3>1, <3>2 DEF PassDue
  <2>2. CASE EndpointsEvent \/ \E e \in Elements : ServiceEvent(e)
    <3>1. PICK e \in Elements : RingIn(e)
      BY <2>2, ServersAssumption DEF EndpointsEvent, ServiceEvent
    <3>2. ring' # <<>>
      BY <1>1, <3>1, RingKeeps
    <3> QED
      BY <3>2 DEF PassDue
  <2>3. CASE Enqueue \/ \E e \in Elements : Retry(e)
    <3>1. dirty' # {}
      BY <2>3 DEF Enqueue, Retry, Add
    <3> QED
      BY <3>1 DEF PassDue
  <2> QED
    BY <2>1, <2>2, <2>3
<1>5. \A v \in Workers : worker'[v] = worker[v] /\ (InPass(v)' <=> InPass(v))
  BY <1>2 DEF InPass
<1> QED
  BY <1>2, <1>3, <1>4, <1>5, Unmoved

\* Taking an element and resolving the backends.
LEMMA StartSync ==
  ASSUME SyncInv, NEW w \in Workers, Get(w) \/ Build(w) \/ BuildFails(w)
  PROVE  Apart' /\ Known'
<1>1. TypeOK /\ BusyHasElement /\ worker[w] \in WorkerState
  BY DEF SyncInv, ServersInv, TypeOK
<1>2. UNCHANGED <<members, jobs>>
  BY DEF Get, Build, BuildFails, Fails, cloud
<1>3. Outcome' = Outcome
  BY <1>2 DEF Outcome, Adding, Removing
<1>4. CASE Get(w) \/ BuildFails(w)
  <2>1. UNCHANGED <<built, doubt>> /\ worker[w].pc \in {"idle", "build"}
    BY <1>4 DEF Get, BuildFails, Fails
  <2>2. /\ \A v \in Workers : v # w => worker'[v] = worker[v]
        /\ worker'[w].pc \in {"idle", "build"}
        /\ worker'[w].add = {} /\ worker'[w].del = {}
    <3>1. CASE Get(w)
      <4> DEFINE local == [Idle EXCEPT !.pc = "build", !.el = Head(queue)]
      <4>1. worker' = [worker EXCEPT ![w] = local]
        BY <3>1 DEF Get
      <4>2. local.pc = "build" /\ local.add = {} /\ local.del = {}
        BY DEF Idle
      <4> HIDE DEF local
      <4> QED
        BY <1>1, <4>1, <4>2 DEF TypeOK
    <3>2. CASE BuildFails(w)
      BY <1>1, <3>2 DEF BuildFails, Fails, Finish, TypeOK, Idle
    <3> QED
      BY <1>4, <3>1, <3>2
  <2>3. Apart'
    BY <1>2, <2>2 DEF SyncInv, Apart
  <2>4. PassDue'
    <3>1. CASE Get(w)
      BY <1>1, <3>1 DEF Get, PassDue, TypeOK, Idle
    <3>2. CASE BuildFails(w)
      BY <1>1, <3>2, FinishKeeps DEF BuildFails, Fails
    <3> QED
      BY <1>4, <3>1, <3>2
  <2>5. \A v \in Workers : /\ InPass(v)' <=> InPass(v)
                           /\ InPass(v) => worker'[v] = worker[v]
    BY <2>1, <2>2 DEF InPass
  <2> QED
    BY <1>3, <2>1, <2>3, <2>4, <2>5, Unmoved
<1>5. CASE Build(w)
  <2> DEFINE local == [worker[w] EXCEPT !.pc = "list",
                                        !.backends = Backends(cached),
                                        !.potential = Potential(cached)]
  <2>1. /\ worker[w].pc = "build"
        /\ worker' = [worker EXCEPT ![w] = local]
        /\ built' = Backends(cached) /\ doubt' = DoubtsOfBuild(w)
    BY <1>5 DEF Build
  <2>2. /\ local.pc = "list" /\ local.backends = Backends(cached)
        /\ local.add = worker[w].add /\ local.del = worker[w].del
    BY <1>1 DEF WorkerState
  <2>3. worker'[w] = local /\ \A v \in Workers : v # w => worker'[v] = worker[v]
    BY <1>1, <2>1 DEF TypeOK
  <2> HIDE DEF local
  <2>4. Apart'
    BY <1>2, <2>2, <2>3 DEF SyncInv, Apart
  <2>5. WorkKnown(w)' /\ InPass(w)'
    BY <2>1, <2>2, <2>3 DEF WorkKnown, InPass
  <2>6. doubt' = {} => \A v \in Workers : InPass(v)' => v = w
    BY <2>1, <2>3 DEF DoubtsOfBuild, InPass
  <2> QED
    BY <2>4, <2>5, <2>6 DEF Known, Rest
<1> QED
  BY <1>4, <1>5

\* Listing the group: a pass that goes on without doubt knows its work.
LEMMA ListSync ==
  ASSUME SyncInv, NEW w \in Workers,
         List(w) \/ ListNothingToDo(w) \/ ListFails(w)
  PROVE  Apart' /\ Known'
<1>1. TypeOK /\ worker[w] \in WorkerState
  BY DEF SyncInv, ServersInv, TypeOK
<1>2. UNCHANGED <<members, jobs, built>> /\ worker[w].pc = "list"
  BY DEF List, ListNothingToDo, ListFails, Fails, cloud
<1>3. Outcome' = Outcome /\ InPass(w) /\ doubt \subseteq doubt'
  <2>1. Outcome' = Outcome
    BY <1>2 DEF Outcome, Adding, Removing
  <2> QED
    BY <1>2, <2>1 DEF InPass, List, ListNothingToDo, ListFails, Fails
<1>4. doubt = {} => built = worker[w].backends
  BY <1>3 DEF SyncInv, Known, WorkKnown
<1>5. PICK a, d : /\ a = UnmatchedEndpoints(worker[w].backends)
                  /\ d = UnmatchedTargets(worker[w].backends)
  OBVIOUS
<1>6. a \cap d = {}
  BY <1>5 DEF UnmatchedEndpoints, UnmatchedTargets
<1>7. worker[w].backends \cap Removing = {} =>
        a = worker[w].backends \ Outcome /\ d = Outcome \ worker[w].backends
  BY <1>5 DEF UnmatchedEndpoints, UnmatchedTargets, Listed, Outcome
<1>8. CASE ListFails(w) \/ ListNothingToDo(w)
  <2>1. PICK failed \in BOOLEAN :
          /\ Finish(w, failed)
          /\ ~failed => /\ ApplyStep(a, d) = "idle"
                        /\ doubt' = doubt \cup DoubtsOfList(w)
    BY <1>5, <1>8 DEF ListFails, ListNothingToDo, Fails
  <2>2. \A v \in Workers : worker'[v] = IF v = w THEN Idle ELSE worker[v]
    BY <1>1, <2>1 DEF Finish, TypeOK
  <2>3. Apart'
    BY <1>2, <2>2 DEF SyncInv, Apart, Idle
  <2>4. ASSUME doubt' = {}, ~failed PROVE Outcome' = built
    <3>1. worker[w].backends \cap Removing = {} /\ doubt = {}
      BY <2>1, <2>4 DEF DoubtsOfList
    <3>2. a = {} /\ d = {}
      BY <2>1, <2>4 DEF ApplyStep, Replaceable
    <3> QED
      BY <1>3, <1>4, <1>7, <3>1, <3>2
  <2> QED
    BY <1>2, <1>3, <2>1, <2>3, <2>4, PassEnds
<1>9. CASE List(w)
  <2> DEFINE local == [worker[w] EXCEPT !.pc = ApplyStep(a, d), !.add = a, !.del = d]
  <2>1. /\ worker' = [worker EXCEPT ![w] = local] /\ ApplyStep(a, d) # "idle"
        /\ doubt' = doubt \cup DoubtsOfList(w)
    BY <1>5, <1>9 DEF List
  <2>2. /\ local.pc = ApplyStep(a, d) /\ local.add = a /\ local.del = d
        /\ local.backends = worker[w].backends
    BY <1>1 DEF WorkerState
  <2>3. worker'[w] = local /\ \A v \in Workers : v # w => worker'[v] = worker[v]
    BY <1>1, <2>1 DEF TypeOK
  <2> HIDE DEF local
  <2>4. Apart'
    BY <1>2, <1>6, <2>2, <2>3 DEF SyncInv, Apart
  <2>5. ApplyStep(a, d) \in {"replace", "deregister", "register"}
    BY <2>1 DEF ApplyStep
  <2>6. InPass(w)'
    BY <2>2, <2>3, <2>5 DEF InPass
  <2>7. ASSUME doubt' = {} PROVE WorkKnown(w)'
    <3>1. worker[w].backends \cap Removing = {} /\ doubt = {}
      BY <2>1, <2>7 DEF DoubtsOfList
    <3> QED
      BY <1>2, <1>3, <1>4, <1>7, <2>2, <2>3, <2>5, <3>1 DEF WorkKnown
  <2> QED
    BY <1>2, <1>3, <2>3, <2>4, <2>6, <2>7, PassGoesOn
<1> QED
  BY <1>8, <1>9
\* The replacement of servers.
LEMMA ReplaceSync ==
  ASSUME SyncInv, NEW w \in Workers,
         \/ Replace(w) \/ ReplaceCompletes(w) \/ ReplaceTimesOut(w)
         \/ PollFails(w)
  PROVE  Apart' /\ Known'
<1>1. TypeOK /\ Apart /\ worker[w] \in WorkerState
  BY DEF SyncInv, ServersInv, TypeOK
<1>2. /\ UNCHANGED <<members, built, doubt>>
      /\ worker[w].pc \in {"replace", "poll"} /\ InPass(w)
  BY DEF Replace, ReplaceCompletes, ReplaceTimesOut, PollFails, Fails, cloud, InPass
<1>3. doubt = {} => WorkKnown(w)
  BY <1>2 DEF SyncInv, Known
<1>4. ASSUME NEW step, Goto(w, step)
      PROVE  /\ worker'[w].pc = step
             /\ worker'[w].add = worker[w].add /\ worker'[w].del = worker[w].del
             /\ worker'[w].backends = worker[w].backends
             /\ \A v \in Workers : v # w => worker'[v] = worker[v]
             /\ \A v \in Workers : worker'[v].add \cap worker'[v].del = {}
  <2> DEFINE local == [worker[w] EXCEPT !.pc = step]
  <2>1. worker' = [worker EXCEPT ![w] = local]
    BY <1>4 DEF Goto
  <2>2. /\ local.pc = step /\ local.backends = worker[w].backends
        /\ local.add = worker[w].add /\ local.del = worker[w].del
    BY <1>1 DEF WorkerState
  <2>3. worker'[w] = local /\ \A v \in Workers : v # w => worker'[v] = worker[v]
    BY <1>1, <2>1 DEF TypeOK
  <2> HIDE DEF local
  <2>4. \A v \in Workers : worker'[v].add \cap worker'[v].del = {}
    BY <1>1, <2>2, <2>3 DEF Apart
  <2> QED
    BY <2>2, <2>3, <2>4
<1>5. CASE Replace(w)
  <2>1. /\ worker[w].pc = "replace" /\ Goto(w, "poll")
        /\ Accepted(worker[w].add \cup worker[w].del)
        /\ jobs' = jobs \cup {Job(worker[w].add, worker[w].del, Nobody)}
    BY <1>5 DEF Replace
  <2>2. Outcome' = (Outcome \cup worker[w].add) \ worker[w].del /\ Apart'
    <3>1. worker[w].add \cap worker[w].del = {}
      BY <1>1 DEF Apart
    <3> QED
      BY <1>1, <1>2, <1>4, <2>1, <3>1, JobStarts
  <2>3. InPass(w)'
    BY <1>4, <2>1 DEF InPass
  <2>4. ASSUME doubt' = {} PROVE WorkKnown(w)'
    <3>1. WorkKnown(w)
      BY <1>2, <1>3, <2>4
    <3>2. Outcome' = worker[w].backends
      BY <2>1, <2>2, <3>1 DEF WorkKnown
    <3> QED
      BY <1>2, <1>4, <2>1, <3>1, <3>2 DEF WorkKnown
  <2> QED
    BY <1>2, <1>4, <2>1, <2>2, <2>3, <2>4, PassGoesOn
<1>6. CASE ReplaceCompletes(w) \/ ReplaceTimesOut(w)
  <2>1. worker[w].pc = "poll" /\ Goto(w, "gate") /\ jobs' = jobs
    BY <1>6 DEF ReplaceCompletes, ReplaceTimesOut, cloud
  <2>2. Outcome' = Outcome /\ Apart'
    BY <1>1, <1>2, <1>4, <2>1 DEF Outcome, Adding, Removing, Apart
  <2>3. InPass(w)'
    BY <1>4, <2>1 DEF InPass
  <2>4. doubt' = {} => WorkKnown(w)'
    BY <1>2, <1>3, <1>4, <2>1, <2>2 DEF WorkKnown
  <2> QED
    BY <1>2, <1>4, <2>1, <2>2, <2>3, <2>4, PassGoesOn
<1>7. CASE PollFails(w)
  <2>1. Finish(w, TRUE) /\ jobs' = jobs
    BY <1>7 DEF PollFails, Fails, cloud
  <2>2. \A v \in Workers : worker'[v] = IF v = w THEN Idle ELSE worker[v]
    BY <1>1, <2>1 DEF Finish, TypeOK
  <2>3. Apart'
    BY <1>1, <2>1, <2>2 DEF Apart, Idle
  <2> QED
    BY <1>2, <2>1, <2>3, PassEnds
<1> QED
  BY <1>5, <1>6, <1>7

\* The other calls, refused, failed or lost ones included.
LEMMA CallSync ==
  ASSUME SyncInv, NEW w \in Workers,
         \/ Deregister(w) \/ Register(w)
         \/ CallRefused(w) \/ CallFails(w) \/ CallLost(w)
  PROVE  Apart' /\ Known'
<1>1. TypeOK /\ Apart /\ worker[w] \in WorkerState
  BY DEF SyncInv, ServersInv, TypeOK
<1>2. /\ UNCHANGED <<members, built, doubt>>
      /\ worker[w].pc \in {"replace", "deregister", "register"} /\ InPass(w)
  BY DEF Deregister, Register, CallRefused, CallFails, CallLost, NextCall, Fails,
         cloud, InPass
<1>3. doubt = {} => WorkKnown(w)
  BY <1>2 DEF SyncInv, Known
<1>4. worker[w].add \cap worker[w].del = {}
  BY <1>1 DEF Apart
<1>5. CASE CallRefused(w) \/ CallFails(w)
  <2>1. Finish(w, TRUE) /\ jobs' = jobs
    BY <1>5 DEF CallRefused, CallFails, Fails, cloud
  <2>2. \A v \in Workers : worker'[v] = IF v = w THEN Idle ELSE worker[v]
    BY <1>1, <2>1 DEF Finish, TypeOK
  <2>3. Apart'
    BY <1>1, <2>1, <2>2 DEF Apart, Idle
  <2> QED
    BY <1>2, <2>1, <2>3, PassEnds
<1>6. CASE CallLost(w)
  <2>1. PICK a, d \in SUBSET Pods :
          /\ NextCall(w, a, d) /\ Accepted(a \cup d)
          /\ jobs' = jobs \cup {Job(a, d, Nobody)}
    BY <1>6 DEF CallLost
  <2>2. Finish(w, TRUE)
    BY <1>6 DEF CallLost
  <2>3. a \subseteq worker[w].add /\ d \subseteq worker[w].del
    BY <2>1 DEF NextCall, Batches
  <2>4. \A v \in Workers : worker'[v] = IF v = w THEN Idle ELSE worker[v]
    BY <1>1, <2>2 DEF Finish, TypeOK
  <2>5. \A v \in Workers : worker'[v].add \cap worker'[v].del = {}
    BY <1>1, <2>4 DEF Apart, Idle
  <2>6. a \cap d = {}
    BY <1>4, <2>3
  <2>7. Apart'
    BY <1>1, <1>2, <2>1, <2>5, <2>6, JobStarts
  <2> QED
    BY <1>2, <2>2, <2>7, PassEnds
<1>7. ASSUME NEW step, NEW a, NEW d,
             a \subseteq worker[w].add, d \subseteq worker[w].del,
             Accepted(a \cup d), jobs' = jobs \cup {Job(a, d, w)},
             step \in {"deregistering", "registering"},
             worker'[w].pc = step, worker'[w].backends = worker[w].backends,
             worker'[w].add = worker[w].add \ a,
             worker'[w].del = worker[w].del \ d,
             \A v \in Workers : v # w => worker'[v] = worker[v],
             worker[w].pc \in {"deregister", "register"}
      PROVE  Apart' /\ Known'
  <2>1. \A v \in Workers : worker'[v].add \cap worker'[v].del = {}
    BY <1>1, <1>4, <1>7 DEF Apart
  <2>2. a \cap d = {}
    BY <1>4, <1>7
  <2>3. Outcome' = (Outcome \cup a) \ d /\ Apart'
    BY <1>1, <1>2, <1>7, <2>1, <2>2, JobStarts
  <2>4. ASSUME doubt' = {} PROVE WorkKnown(w)'
    <3>1. WorkKnown(w)
      BY <1>2, <1>3, <2>4
    <3>2. /\ worker[w].add = worker[w].backends \ Outcome
          /\ worker[w].del = Outcome \ worker[w].backends
      BY <1>7, <3>1 DEF WorkKnown
    <3>3. /\ worker'[w].add = worker'[w].backends \ Outcome'
          /\ worker'[w].del = Outcome' \ worker'[w].backends
      BY <1>7, <2>3, <3>2
    <3> QED
      BY <1>2, <1>7, <3>1, <3>3 DEF WorkKnown
  <2>5. InPass(w)'
    BY <1>7 DEF InPass
  <2> QED
    BY <1>2, <1>7, <2>3, <2>4, <2>5, PassGoesOn
<1>8. CASE Deregister(w)
  <2>1. PICK B \in Batches(worker[w].del) :
          /\ Accepted(B) /\ jobs' = jobs \cup {Job({}, B, w)}
          /\ worker' = [worker EXCEPT ![w] =
                          [worker[w] EXCEPT !.pc = "deregistering",
                             !.del = worker[w].del \ B, !.job = "none"]]
    BY <1>8 DEF Deregister
  <2> DEFINE local == [worker[w] EXCEPT !.pc = "deregistering",
                             !.del = worker[w].del \ B, !.job = "none"]
  <2>2. /\ local.pc = "deregistering" /\ local.backends = worker[w].backends
        /\ local.add = worker[w].add \ {} /\ local.del = worker[w].del \ B
    BY <1>1 DEF WorkerState
  <2>3. worker'[w] = local /\ \A v \in Workers : v # w => worker'[v] = worker[v]
    BY <1>1, <2>1 DEF TypeOK
  <2> HIDE DEF local
  <2>4. /\ Accepted({} \cup B) /\ worker[w].pc = "deregister"
        /\ B \subseteq worker[w].del /\ {} \subseteq worker[w].add
    BY <1>8, <2>1 DEF Deregister, Batches, Accepted
  <2> QED
    BY <1>7, <2>1, <2>2, <2>3, <2>4
<1>9. CASE Register(w)
  <2>1. PICK B \in Batches(worker[w].add) :
          /\ Accepted(B) /\ jobs' = jobs \cup {Job(B, {}, w)}
          /\ worker' = [worker EXCEPT ![w] =
                          [worker[w] EXCEPT !.pc = "registering",
                             !.add = worker[w].add \ B, !.job = "none"]]
    BY <1>9 DEF Register
  <2> DEFINE local == [worker[w] EXCEPT !.pc = "registering",
                             !.add = worker[w].add \ B, !.job = "none"]
  <2>2. /\ local.pc = "registering" /\ local.backends = worker[w].backends
        /\ local.add = worker[w].add \ B /\ local.del = worker[w].del \ {}
    BY <1>1 DEF WorkerState
  <2>3. worker'[w] = local /\ \A v \in Workers : v # w => worker'[v] = worker[v]
    BY <1>1, <2>1 DEF TypeOK
  <2> HIDE DEF local
  <2>4. /\ Accepted(B \cup {}) /\ worker[w].pc = "register"
        /\ B \subseteq worker[w].add /\ {} \subseteq worker[w].del
    BY <1>9, <2>1 DEF Register, Batches, Accepted
  <2> QED
    BY <1>7, <2>1, <2>2, <2>3, <2>4
<1> QED
  BY <1>5, <1>6, <1>8, <1>9
\* The end of a wait for a job, and the gates of the Pods.
LEMMA EndSync ==
  ASSUME SyncInv, NEW w \in Workers,
         Awaited(w) \/ AwaitTimesOut(w) \/ Gate(w) \/ GatePatchFails(w)
  PROVE  Apart' /\ Known'
<1>1. TypeOK /\ Apart /\ worker[w] \in WorkerState
  BY DEF SyncInv, ServersInv, TypeOK
<1>2. /\ UNCHANGED <<members, built, doubt>>
      /\ worker[w].pc \in {"deregistering", "registering", "gate"} /\ InPass(w)
  BY DEF Awaited, AwaitTimesOut, Gate, GatePatchFails, cloud, InPass
<1>3. doubt = {} => WorkKnown(w)
  BY <1>2 DEF SyncInv, Known
<1>4. CASE Gate(w) \/ GatePatchFails(w)
  <2>1. worker[w].pc = "gate" /\ Finish(w, FALSE) /\ jobs' = jobs
    BY <1>4 DEF Gate, GatePatchFails, cloud
  <2>2. \A v \in Workers : worker'[v] = IF v = w THEN Idle ELSE worker[v]
    BY <1>1, <2>1 DEF Finish, TypeOK
  <2>3. Apart'
    BY <1>1, <2>1, <2>2 DEF Apart, Idle
  <2>4. Outcome' = Outcome
    BY <1>2, <2>1 DEF Outcome, Adding, Removing
  <2>5. doubt' = {} => Outcome' = built
    BY <1>2, <1>3, <2>1, <2>4 DEF WorkKnown
  <2> QED
    BY <1>2, <2>1, <2>3, <2>5, PassEnds
<1>5. CASE Awaited(w) \/ AwaitTimesOut(w)
  <2>1. /\ worker[w].pc \in {"deregistering", "registering"}
        /\ \E result \in JobResult : Continue(w, result)
    BY <1>1, <1>5 DEF Awaited, AwaitTimesOut, WorkerState, JobResult
  <2>2. PICK err \in BOOLEAN :
          IF err \/ AfterJob(w) = "idle"
          THEN Finish(w, err)
          ELSE Goto(w, AfterJob(w)) /\ UNCHANGED tasks
    <3>1. PICK result \in JobResult : Continue(w, result)
      BY <2>1
    <3> QED
      BY <3>1 DEF Continue, FutureErr
  <2>3. /\ \A v \in Workers : v # w => worker'[v] = worker[v]
        /\ ~(err \/ AfterJob(w) = "idle") =>
             /\ worker'[w].pc = AfterJob(w)
             /\ worker'[w].add = worker[w].add /\ worker'[w].del = worker[w].del
             /\ worker'[w].backends = worker[w].backends
        /\ \A v \in Workers : worker'[v].add \cap worker'[v].del = {}
    <3>1. CASE err \/ AfterJob(w) = "idle"
      <4>1. Finish(w, err)
        BY <2>2, <3>1
      <4>2. \A v \in Workers : worker'[v] = IF v = w THEN Idle ELSE worker[v]
        BY <1>1, <4>1 DEF Finish, TypeOK
      <4> QED
        BY <1>1, <3>1, <4>2 DEF Apart, Idle
    <3>2. CASE ~(err \/ AfterJob(w) = "idle")
      <4> DEFINE local == [worker[w] EXCEPT !.pc = AfterJob(w)]
      <4>1. worker' = [worker EXCEPT ![w] = local]
        BY <2>2, <3>2 DEF Goto
      <4>2. /\ local.pc = AfterJob(w) /\ local.backends = worker[w].backends
            /\ local.add = worker[w].add /\ local.del = worker[w].del
        BY <1>1 DEF WorkerState
      <4>3. worker'[w] = local /\ \A v \in Workers : v # w => worker'[v] = worker[v]
        BY <1>1, <4>1 DEF TypeOK
      <4> HIDE DEF local
      <4> QED
        BY <1>1, <4>2, <4>3 DEF Apart
    <3> QED
      BY <3>1, <3>2
  <2>4. Outcome' = Outcome /\ Apart'
    <3>1. CASE Awaited(w)
      BY <1>1, <1>2, <2>3, <3>1 DEF Awaited, cloud, Outcome, Adding, Removing, Apart
    <3>2. CASE AwaitTimesOut(w)
      <4> DEFINE f == [j \in jobs |-> IF j.by = w THEN Job(j.add, j.del, Nobody)
                                                  ELSE j]
      <4>1. jobs' = {f[j] : j \in jobs}
        BY <3>2 DEF AwaitTimesOut
      <4>2. \A j \in jobs : f[j].add = j.add /\ f[j].del = j.del
        BY DEF Job
      <4> HIDE DEF f
      <4> QED
        BY <1>1, <1>2, <2>3, <4>1, <4>2, JobsRelabelled
    <3> QED
      BY <1>5, <3>1, <3>2
  <2>5. CASE err \/ AfterJob(w) = "idle"
    <3>1. Finish(w, err)
      BY <2>2, <2>5
    <3>2. ASSUME doubt' = {}, ~err PROVE Outcome' = built
      <4>1. WorkKnown(w)
        BY <1>2, <1>3, <3>2
      <4>2. worker[w].add = {} /\ worker[w].del = {}
        BY <2>5, <3>2 DEF AfterJob
      <4> QED
        BY <2>1, <2>4, <4>1, <4>2 DEF WorkKnown
    <3> QED
      BY <1>2, <2>4, <3>1, <3>2, PassEnds
  <2>6. CASE ~(err \/ AfterJob(w) = "idle")
    <3>1. /\ AfterJob(w) \in {"deregister", "register", "gate"}
          /\ AfterJob(w) = "gate" => worker[w].del = {} /\ worker[w].add = {}
      BY <2>6 DEF AfterJob
    <3>2. InPass(w)'
      BY <2>3, <2>6, <3>1 DEF InPass
    <3>3. ASSUME doubt' = {} PROVE WorkKnown(w)'
      <4>1. WorkKnown(w)
        BY <1>2, <1>3, <3>3
      <4>2. AfterJob(w) = "gate" => Outcome = worker[w].backends
        BY <2>1, <3>1, <4>1 DEF WorkKnown
      <4> QED
        BY <1>2, <2>1, <2>3, <2>4, <2>6, <3>1, <4>1, <4>2 DEF WorkKnown
    <3> QED
      BY <1>2, <2>3, <2>4, <3>2, <3>3, PassGoesOn
  <2> QED
    BY <2>5, <2>6
<1> QED
  BY <1>4, <1>5

\* The end of a job of the cloud, and restarts.
LEMMA CloudSync ==
  ASSUME SyncInv, Crash \/ \E j \in jobs : JobSucceeds(j) \/ JobFails(j)
  PROVE  Apart' /\ Known'
<1>1. TypeOK /\ Apart
  BY DEF SyncInv, ServersInv
<1>2. CASE Crash
  <2> DEFINE f == [j \in jobs |-> Job(j.add, j.del, Nobody)]
  <2>1. /\ jobs' = {f[j] : j \in jobs} /\ members' = members
        /\ worker' = [w \in Workers |-> Idle] /\ news' = TRUE
    BY <1>2 DEF Crash
  <2>2. \A j \in jobs : f[j].add = j.add /\ f[j].del = j.del
    BY DEF Job
  <2> HIDE DEF f
  <2>3. \A v \in Workers : /\ worker'[v].add \cap worker'[v].del = {}
                           /\ ~InPass(v)'
    BY <2>1 DEF Idle, InPass
  <2>4. Apart'
    BY <1>1, <2>1, <2>2, <2>3, JobsRelabelled
  <2> QED
    BY <2>1, <2>3, <2>4 DEF Known, Rest
<1>3. ASSUME NEW j \in jobs, JobSucceeds(j) \/ JobFails(j)
      PROVE  Apart' /\ Known'
  <2>1. /\ jobs' = jobs \ {j} /\ UNCHANGED <<cluster, tasks, built>>
        /\ doubt \subseteq doubt'
    BY <1>3 DEF JobSucceeds, JobFails
  <2>2. PICK result : Reported(j, result)
    BY <1>3 DEF JobSucceeds, JobFails
  <2>3. \A v \in Workers :
          /\ worker'[v].pc = worker[v].pc
          /\ worker'[v].potential = worker[v].potential
          /\ worker'[v].backends = worker[v].backends
          /\ worker'[v].add = worker[v].add /\ worker'[v].del = worker[v].del
    <3> TAKE v \in Workers
    <3>1. worker[v] \in WorkerState
      BY <1>1 DEF TypeOK
    <3>2. CASE v = j.by
      <4>1. worker'[v] = [worker[v] EXCEPT !.job = result]
        BY <2>2, <3>2 DEF Reported
      <4> QED
        BY <3>1, <4>1 DEF WorkerState
    <3>3. CASE v # j.by
      BY <2>2, <3>3 DEF Reported
    <3> QED
      BY <3>2, <3>3
  <2>4. Apart'
    BY <1>1, <2>1, <2>3 DEF Apart
  <2>5. (PassDue' <=> PassDue) /\ news' = news
    BY <2>1, <2>3 DEF PassDue, tasks, cluster
  <2>6. \A v \in Workers : InPass(v)' <=> InPass(v)
    BY <2>3 DEF InPass
  <2>7. CASE JobFails(j)
    BY <2>4, <2>7 DEF JobFails, Known
  <2>8. CASE JobSucceeds(j)
    <3>1. Outcome' = Outcome
      BY <1>1, <2>1, <2>8, JobEnds DEF JobSucceeds
    <3> QED
      BY <2>1, <2>3, <2>4, <2>5, <2>6, <3>1, Unmoved
  <2> QED
    BY <1>3, <2>7, <2>8
<1> QED
  BY <1>2, <1>3

\* The initial state: no pass has run, and there is nothing to do.
LEMMA SyncInit ==
  ASSUME Init
  PROVE  SyncInv
<1>1. \A w \in Workers : worker[w] = Idle
  BY DEF Init
<1>2. Apart
  BY <1>1 DEF Init, Apart, Idle
<1>3. (\A w \in Workers : ~InPass(w)) /\ Outcome = built
  BY <1>1 DEF Init, InPass, Idle, Outcome, Adding, Removing
<1> QED
  BY <1>2, <1>3, ServersInit DEF SyncInv, Known, Rest

\* Every step keeps it.
LEMMA SyncStep ==
  ASSUME SyncInv, [Next]_vars
  PROVE  SyncInv'
<1>1. ServersInv'
  BY ServersStep DEF SyncInv
<1>2. CASE \/ \E p \in Pods : PodStarts(p) \/ ContainersReady(p) \/ PodStops(p)
           \/ EndpointsEvent \/ CacheSync
           \/ \E e \in Elements : ServiceEvent(e) \/ Retry(e)
           \/ Enqueue \/ UNCHANGED vars
  BY <1>1, <1>2, OutsideSync DEF SyncInv
<1>3. ASSUME NEW w \in Workers, Sync(w) \/ Failure(w)
      PROVE  Apart' /\ Known'
  <2>1. CASE Get(w) \/ Build(w) \/ BuildFails(w)
    BY <2>1, StartSync
  <2>2. CASE List(w) \/ ListNothingToDo(w) \/ ListFails(w)
    BY <2>2, ListSync
  <2>3. CASE Replace(w) \/ ReplaceCompletes(w) \/ ReplaceTimesOut(w) \/ PollFails(w)
    BY <2>3, ReplaceSync
  <2>4. CASE \/ Deregister(w) \/ Register(w)
             \/ CallRefused(w) \/ CallFails(w) \/ CallLost(w)
    BY <2>4, CallSync
  <2>5. CASE Awaited(w) \/ AwaitTimesOut(w) \/ Gate(w) \/ GatePatchFails(w)
    BY <2>5, EndSync
  <2> QED
    BY <1>3, <2>1, <2>2, <2>3, <2>4, <2>5 DEF Sync, Failure
<1>4. CASE Crash \/ \E j \in jobs : JobSucceeds(j) \/ JobFails(j)
  BY <1>1, <1>4, CloudSync DEF SyncInv
<1> QED
  BY <1>1, <1>2, <1>3, <1>4 DEF Next, SyncInv

\* Whenever nothing is due, the group holds exactly the backends of the Service
\* once its jobs have ended, for any number of Pods, workers and elements, any
\* batch size and whatever calls are refused, answers lost and passes cut off
\* (serverApplier.Apply, syncServers), unless the latest pass read Endpoints older
\* than its event, overlapped with another one, met a backend that an earlier
\* job was removing, or had a job that failed.
THEOREM ServersInSync == Spec => []QuietInSync
<1>1. Init => SyncInv
  BY SyncInit
<1>2. SyncInv /\ [Next]_vars => SyncInv'
  BY SyncStep
<1>3. SyncInv => QuietInSync
  <2> SUFFICES ASSUME SyncInv, Quiet, doubt = {}
               PROVE  Outcome = Backends(Endpoints)
    BY DEF QuietInSync
  <2>1. \A w \in Workers : ~InPass(w)
    BY DEF Quiet, InPass
  <2>2. Outcome = built
    BY <2>1 DEF SyncInv, Known, Rest, Quiet
  <2>3. built = Backends(Endpoints)
    BY DEF SyncInv, ServersInv, ChangeNotLost, Quiet
  <2> QED
    BY <2>2, <2>3
<1> QED
  BY <1>1, <1>2, <1>3, PTL DEF Spec
=============================================================================
