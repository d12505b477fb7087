----------------------------- MODULE AlbServers -----------------------------
(***************************************************************************)
(* The backend servers of one Service in one ALB server group.             *)
(*                                                                         *)
(* The store's Endpoints informer puts an element on a ring channel, the   *)
(* main loop moves it to a rate limited work queue, and workers run        *)
(* syncServers: resolve the Endpoints to backends, list the group, and     *)
(* replace, deregister or register the difference, waiting for the         *)
(* asynchronous job of every call.  Pods with the readiness gate become    *)
(* ready only when the controller has registered them.                     *)
(*                                                                         *)
(* A Pod stands for its address, the identity matchEndpointWithTargets     *)
(* compares, and for its name, by which it is looked up and patched; those *)
(* of a StatefulSet keep both.  The Service has one port, exists and an    *)
(* Ingress refers to it throughout.                                        *)
(* Faults are what the cloud and the API server may do: "call" a request   *)
(* is refused, "lost" it is carried out and how it ended not learnt, "job" *)
(* an asynchronous job fails, "patch" the patch of a Pod fails, "crash"    *)
(* the controller restarts.                                                *)
(***************************************************************************)
EXTENDS Naturals, FiniteSets, FiniteSetsExt, Sequences

CONSTANTS
  Pods,           \* addresses that Pods of the Service may have
  Gated,          \* the Pods that have the readiness gate
  Workers,        \* workers of syncServersQueue (three in the code)
  Elements,       \* queue elements the events of the Service may carry
  EpElement,      \* the element of its EndPointEvents
  BatchNum,       \* servers per call: BatchRegisterServersDefaultNum
  ReplaceMaxNum,  \* BatchReplaceServersMaxNum
  RingSize,       \* capacity of updateServerCh
  Faults,         \* the faults that may happen
  Nobody,         \* no worker, no element
  MaxFaults,      \* faults per behaviour
  MaxChanges      \* Pods started or stopped, Service events, per behaviour

ASSUME ServersAssumption ==
  /\ IsFiniteSet(Pods) /\ Gated \subseteq Pods
  /\ Workers # {} /\ EpElement \in Elements
  /\ Nobody \notin Workers /\ Nobody \notin Elements
  /\ BatchNum \in Nat \ {0} /\ ReplaceMaxNum \in Nat
  /\ RingSize \in Nat \ {0}
  /\ Faults \subseteq {"call", "lost", "job", "patch", "crash"}
  /\ MaxFaults \in Nat /\ MaxChanges \in Nat

VARIABLES
  pod,      \* the Pods in the API server and in the store's Pod lister
  news,     \* the store's informer has an Endpoints event to deliver
  cached,   \* the Endpoints in the manager's cache, which k8sClient reads
  ring,     \* updateServerCh
  queue,    \* the work queue: elements in order,
  dirty,    \*   elements that need processing,
  waiting,  \*   elements added with AddRateLimited
  worker,   \* the local state of every worker
  members,  \* the servers the group holds once no job runs
  jobs,     \* asynchronous jobs of the cloud
  built,    \* history: the backends the latest pass resolved
  doubt,    \* history: why the outcome of that pass may be wrong
  faults,   \* faults so far
  changes   \* changes so far

cluster == <<pod, news, cached, changes>>
tasks == <<ring, queue, dirty, waiting>>
cloud == <<members, jobs>>
past == <<built, doubt>>
vars == <<cluster, tasks, worker, cloud, past, faults>>

View == {"absent", "notReady", "ready"}
PodState == {"gone", "starting", "gated", "ready"}
Step == {"idle", "build", "list", "replace", "poll", "deregister",
         "deregistering", "register", "registering", "gate"}
JobResult == {"none", "ok", "failed"}
Doubts == {"cache", "overlap", "removal", "job"}

Idle == [pc |-> "idle", el |-> Nobody, backends |-> {}, potential |-> FALSE,
         add |-> {}, del |-> {}, job |-> "none"]

Job(a, d, w) == [add |-> a, del |-> d, by |-> w]

-----------------------------------------------------------------------------
(* The cluster                                                             *)

\* The endpoints controller: where a Pod appears in the Endpoints.
EpView(p) ==
  IF pod[p] = "gone" THEN "absent"
  ELSE IF pod[p] = "ready" THEN "ready" ELSE "notReady"

Endpoints == [p \in Pods |-> EpView(p)]

\* updateCh.In(): a full ring channel drops its oldest element.
RingIn(e) ==
  ring' = IF Len(ring) < RingSize THEN Append(ring, e)
                                  ELSE Append(Tail(ring), e)

\* A Pod starts.  The caches tell apart Pods that use an address one after the
\* other, so the previous one has left the cache.
PodStarts(p) ==
  /\ changes < MaxChanges
  /\ pod[p] = "gone" /\ cached[p] = "absent"
  /\ pod' = [pod EXCEPT ![p] = "starting"]
  /\ news' = TRUE
  /\ changes' = changes + 1
  /\ UNCHANGED <<cached, tasks, worker, cloud, past, faults>>

\* Its containers are ready.  Without the gate the Pod is ready; with it, no
\* event announces the change.
ContainersReady(p) ==
  /\ pod[p] = "starting"
  /\ pod' = [pod EXCEPT ![p] = IF p \in Gated THEN "gated" ELSE "ready"]
  /\ news' = (news \/ p \notin Gated)
  /\ UNCHANGED <<cached, changes, tasks, worker, cloud, past, faults>>

PodStops(p) ==
  /\ changes < MaxChanges
  /\ pod[p] # "gone"
  /\ pod' = [pod EXCEPT ![p] = "gone"]
  /\ news' = TRUE
  /\ changes' = changes + 1
  /\ UNCHANGED <<cached, tasks, worker, cloud, past, faults>>

\* epEventHandler: the Endpoints changed, the Service is enqueued.  Versions
\* delivered in a row count as one event.
EndpointsEvent ==
  /\ news
  /\ news' = FALSE
  /\ RingIn(EpElement)
  /\ UNCHANGED <<pod, cached, changes, queue, dirty, waiting, worker, cloud,
                 past, faults>>

\* serviceHandler and nodeEventHandler: an event of another type, or with
\* another version of the Service, is another element.
ServiceEvent(e) ==
  /\ changes < MaxChanges
  /\ e # EpElement
  /\ RingIn(e)
  /\ changes' = changes + 1
  /\ UNCHANGED <<pod, news, cached, queue, dirty, waiting, worker, cloud,
                 past, faults>>

\* The manager's own informer; nothing orders it and the store's.
CacheSync ==
  /\ cached # Endpoints
  /\ cached' = Endpoints
  /\ UNCHANGED <<pod, news, changes, tasks, worker, cloud, past, faults>>

-----------------------------------------------------------------------------
(* The work queue                                                          *)

Processing == {worker[w].el : w \in Workers} \ {Nobody}

\* workqueue.Add
Add(e) ==
  /\ dirty' = dirty \cup {e}
  /\ queue' = IF e \in dirty \cup Processing THEN queue ELSE Append(queue, e)

\* Start(): the main loop enqueues what the channel delivers.
Enqueue ==
  /\ ring # <<>>
  /\ Add(Head(ring))
  /\ ring' = Tail(ring)
  /\ UNCHANGED <<cluster, waiting, worker, cloud, past, faults>>

\* AddRateLimited's delay is over.
Retry(e) ==
  /\ e \in waiting
  /\ waiting' = waiting \ {e}
  /\ Add(e)
  /\ UNCHANGED <<cluster, ring, worker, cloud, past, faults>>

Get(w) ==
  /\ worker[w].pc = "idle" /\ queue # <<>>
  /\ worker' = [worker EXCEPT ![w] = [Idle EXCEPT !.pc = "build",
                                                  !.el = Head(queue)]]
  /\ queue' = Tail(queue)
  /\ dirty' = dirty \ {Head(queue)}
  /\ UNCHANGED <<cluster, ring, waiting, cloud, past, faults>>

\* Faulty variant: the task is forgotten whatever syncServers returned.
Finish_NoRetry(w, failed) ==
  LET e == worker[w].el
  IN  /\ waiting' = waiting
      /\ queue' = IF e \in dirty THEN Append(queue, e) ELSE queue
      /\ worker' = [worker EXCEPT ![w] = Idle]
      /\ UNCHANGED <<ring, dirty>>

\* Faulty variant: what is added again is an element without key.
Finish_NoKey(w, failed) ==
  LET e == worker[w].el
  IN  /\ waiting' = IF failed \/ worker[w].potential
                    THEN waiting \cup {Nobody} ELSE waiting
      /\ queue' = IF e \in dirty THEN Append(queue, e) ELSE queue
      /\ worker' = [worker EXCEPT ![w] = Idle]
      /\ UNCHANGED <<ring, dirty>>

\* The end of Queue.worker's loop: an error, also that of endpoints that may
\* become ready, is retried later; Done puts a dirty element back.
Finish(w, failed) ==
  LET e == worker[w].el
  IN  /\ waiting' = IF failed \/ worker[w].potential THEN waiting \cup {e}
                                                     ELSE waiting
      /\ queue' = IF e \in dirty THEN Append(queue, e) ELSE queue
      /\ worker' = [worker EXCEPT ![w] = Idle]
      /\ UNCHANGED <<ring, dirty>>

-----------------------------------------------------------------------------
(* What a pass computes                                                    *)

\* resolvePodEndpoints: ready addresses, and the addresses that are not ready
\* of Pods that wait for nothing but their gate.
Backends(view) ==
  {p \in Pods : \/ view[p] = "ready"
                \/ view[p] = "notReady" /\ p \in Gated
                                        /\ pod[p] \in {"gated", "ready"}}

\* Faulty variant: Pods whose containers start are not waited for.
Potential_Never(view) == FALSE

\* containsPotentialReadyEndpoints
Potential(view) ==
  \E p \in Gated : view[p] = "notReady" /\ pod[p] = "starting"

\* findPodByReference fails: the Endpoints name a Pod that is gone.
Dangling(view) == \E p \in Pods : view[p] # "absent" /\ pod[p] = "gone"

Adding == UNION {j.add : j \in jobs}
Removing == UNION {j.del : j \in jobs}

\* ListALBServers: members of the group in any status.
Listed == members \cup Adding
Available == members \ Removing

\* The servers once every job has ended well.
Outcome == (members \cup Adding) \ Removing

\* matchEndpointWithTargets: a server that is being removed is neither
\* removed again nor registered.
UnmatchedEndpoints(backends) == backends \ Listed
UnmatchedTargets(backends) == (Listed \ Removing) \ backends

\* Fewer than ReplaceMaxNum servers to add and to remove, some of each.
Replaceable(add, del) ==
  /\ add # {} /\ Cardinality(add) < ReplaceMaxNum
  /\ del # {} /\ Cardinality(del) < ReplaceMaxNum

\* Faulty variant: servers are registered, never removed.
ApplyStep_RegisterOnly(add, del) == IF add = {} THEN "idle" ELSE "register"

\* serverApplier.Apply: the first call that brings the group to the backends.
ApplyStep(add, del) ==
  IF Replaceable(add, del) THEN "replace"
  ELSE IF del # {} THEN "deregister"
  ELSE IF add # {} THEN "register" ELSE "idle"

\* One batch of a call: BatchNum servers, or what is left of them.
Batches(S) == {B \in SUBSET S : Cardinality(B) = IF Cardinality(S) > BatchNum
                                                 THEN BatchNum
                                                 ELSE Cardinality(S)}

-----------------------------------------------------------------------------
(* syncServers                                                             *)

Fault(f) == f \in Faults /\ faults < MaxFaults /\ faults' = faults + 1

Fails(w) ==
  /\ Finish(w, TRUE)
  /\ UNCHANGED <<cluster, cloud, past>>

Goto(w, step) == worker' = [worker EXCEPT ![w].pc = step]

\* History: the reasons a pass that resolves the backends now has to be wrong.
\* The Endpoints it reads are not those its event announced, or another worker
\* is in a pass over the same Service.
InPass(w) == worker[w].pc \notin {"idle", "build"}

DoubtsOfBuild(w) ==
  {d \in {"cache", "overlap"} :
     \/ d = "cache" /\ ~news /\ cached # Endpoints
     \/ d = "overlap" /\ \E v \in Workers \ {w} : InPass(v)}

\* History: a backend is being removed by an earlier job and counts as there.
DoubtsOfList(w) ==
  {d \in {"removal"} : worker[w].backends \cap Removing # {}}

\* buildServiceStackContext and serverBuilder.Build
Build(w) ==
  /\ worker[w].pc = "build"
  /\ ~Dangling(cached)
  /\ worker' = [worker EXCEPT ![w] =
                  [@ EXCEPT !.pc = "list", !.backends = Backends(cached),
                            !.potential = Potential(cached)]]
  /\ built' = Backends(cached) /\ doubt' = DoubtsOfBuild(w)
  /\ UNCHANGED <<cluster, tasks, cloud, faults>>

BuildFails(w) ==
  /\ worker[w].pc = "build"
  /\ Dangling(cached)
  /\ Fails(w)
  /\ UNCHANGED faults

\* serviceStackApplier.Apply finds the group; ListALBServers and the match.
List(w) ==
  LET a == UnmatchedEndpoints(worker[w].backends)
      d == UnmatchedTargets(worker[w].backends)
  IN  /\ worker[w].pc = "list"
      /\ ApplyStep(a, d) # "idle"
      /\ worker' = [worker EXCEPT ![w] =
                      [@ EXCEPT !.pc = ApplyStep(a, d), !.add = a, !.del = d]]
      /\ doubt' = doubt \cup DoubtsOfList(w)
      /\ UNCHANGED <<cluster, tasks, cloud, built, faults>>

ListNothingToDo(w) ==
  /\ worker[w].pc = "list"
  /\ ApplyStep(UnmatchedEndpoints(worker[w].backends),
               UnmatchedTargets(worker[w].backends)) = "idle"
  /\ Finish(w, FALSE)
  /\ doubt' = doubt \cup DoubtsOfList(w)
  /\ UNCHANGED <<cluster, cloud, built, faults>>

ListFails(w) ==
  /\ worker[w].pc = "list"
  /\ Fault("call")
  /\ Fails(w)

\* The cloud starts a job unless one of the servers has a job already.
Accepted(servers) == servers \cap (Adding \cup Removing) = {}

\* ReplaceServersInServerGroup
Replace(w) ==
  /\ worker[w].pc = "replace"
  /\ Accepted(worker[w].add \cup worker[w].del)
  /\ jobs' = jobs \cup {Job(worker[w].add, worker[w].del, Nobody)}
  /\ Goto(w, "poll")
  /\ UNCHANGED <<cluster, tasks, members, past, faults>>

\* isReplaceServersCompleted
Completed(w) ==
  /\ worker[w].add \subseteq Available
  /\ worker[w].del \cap Listed = {}

ReplaceCompletes(w) ==
  /\ worker[w].pc = "poll"
  /\ Completed(w)
  /\ Goto(w, "gate")
  /\ UNCHANGED <<cluster, tasks, cloud, past, faults>>

\* The list that would tell fails: the job goes on unwatched.
PollFails(w) ==
  /\ worker[w].pc = "poll"
  /\ Fault("lost")
  /\ Fails(w)

\* After ReplaceALBServersInServerGroupMaxRetryTimes the pass goes on as if
\* the job, which may still run or have failed, had completed.
ReplaceTimesOut(w) ==
  /\ worker[w].pc = "poll"
  /\ ~Completed(w)
  /\ Goto(w, "gate")
  /\ UNCHANGED <<cluster, tasks, cloud, past, faults>>

\* RemoveServersFromServerGroupFuture.Run, one batch of BatchDeregisterServers
Deregister(w) ==
  /\ worker[w].pc = "deregister"
  /\ \E B \in Batches(worker[w].del) :
       /\ Accepted(B)
       /\ jobs' = jobs \cup {Job({}, B, w)}
       /\ worker' = [worker EXCEPT ![w] =
                       [worker[w] EXCEPT !.pc = "deregistering",
                          !.del = worker[w].del \ B, !.job = "none"]]
  /\ UNCHANGED <<cluster, tasks, members, past, faults>>

\* AddServersToServerGroupFuture.Run, one batch of BatchRegisterServers
Register(w) ==
  /\ worker[w].pc = "register"
  /\ \E B \in Batches(worker[w].add) :
       /\ Accepted(B)
       /\ jobs' = jobs \cup {Job(B, {}, w)}
       /\ worker' = [worker EXCEPT ![w] =
                       [worker[w] EXCEPT !.pc = "registering",
                          !.add = worker[w].add \ B, !.job = "none"]]
  /\ UNCHANGED <<cluster, tasks, members, past, faults>>

\* The call that w is about to make adds a and removes d.
NextCall(w, a, d) ==
  \/ /\ worker[w].pc = "replace"
     /\ a = worker[w].add /\ d = worker[w].del
  \/ /\ worker[w].pc = "deregister"
     /\ a = {} /\ d \in Batches(worker[w].del)
  \/ /\ worker[w].pc = "register"
     /\ a \in Batches(worker[w].add) /\ d = {}

\* The cloud refuses a call because of a job that runs.
CallRefused(w) ==
  /\ \E a, d \in SUBSET Pods : NextCall(w, a, d) /\ ~Accepted(a \cup d)
  /\ Fails(w)
  /\ UNCHANGED faults

CallFails(w) ==
  /\ \E a, d \in SUBSET Pods : NextCall(w, a, d)
  /\ Fault("call")
  /\ Fails(w)

\* The call is carried out and its answer is lost.
CallLost(w) ==
  /\ \E a, d \in SUBSET Pods :
       /\ NextCall(w, a, d) /\ Accepted(a \cup d)
       /\ jobs' = jobs \cup {Job(a, d, Nobody)}
  /\ Fault("lost")
  /\ Finish(w, TRUE)
  /\ UNCHANGED <<cluster, members, past>>

\* What Start's caller reads from the future.  When() closes Final before it
\* sets Err, so the error of a failed job is seen or not.
FutureErr(result) == IF result = "failed" THEN {TRUE, FALSE} ELSE {FALSE}

\* The calls left after a job that is taken for successful.
AfterJob(w) ==
  IF worker[w].del # {} THEN "deregister"
  ELSE IF worker[w].add # {} THEN "register"
  ELSE IF worker[w].pc = "registering" THEN "gate" ELSE "idle"

\* The pass goes on with what it read from the future.
Continue(w, result) ==
  \E err \in FutureErr(result) :
    IF err \/ AfterJob(w) = "idle"
    THEN Finish(w, err)
    ELSE Goto(w, AfterJob(w)) /\ UNCHANGED tasks

\* The wait for a job of DeregisterALBServers or RegisterALBServers is over.
Awaited(w) ==
  /\ worker[w].pc \in {"deregistering", "registering"}
  /\ worker[w].job # "none"
  /\ Continue(w, worker[w].job)
  /\ UNCHANGED <<cluster, cloud, past, faults>>

\* The wait ends before the job: "wait asyncJob status timeout".
AwaitTimesOut(w) ==
  /\ worker[w].pc \in {"deregistering", "registering"}
  /\ worker[w].job = "none"
  /\ Fault("lost")
  /\ Continue(w, "failed")
  /\ jobs' = {IF j.by = w THEN Job(j.add, j.del, Nobody) ELSE j : j \in jobs}
  /\ UNCHANGED <<cluster, members, past>>

\* updateTargetHealthPodCondition: the gates of the Pods that wait are
\* opened, those of the Pods that have the names by now; a patch that fails
\* is logged and forgotten.
GatedPods(w) == {p \in worker[w].backends : pod[p] = "gated"}

Gate(w) ==
  /\ worker[w].pc = "gate"
  /\ pod' = [p \in Pods |-> IF p \in GatedPods(w) THEN "ready" ELSE pod[p]]
  /\ news' = (news \/ GatedPods(w) # {})
  /\ Finish(w, FALSE)
  /\ UNCHANGED <<cached, changes, cloud, past, faults>>

GatePatchFails(w) ==
  /\ worker[w].pc = "gate"
  /\ \E failed \in SUBSET GatedPods(w) :
       /\ failed # {}
       /\ pod' = [p \in Pods |-> IF p \in GatedPods(w) \ failed
                                 THEN "ready" ELSE pod[p]]
       /\ news' = (news \/ failed # GatedPods(w))
  /\ Fault("patch")
  /\ Finish(w, FALSE)
  /\ UNCHANGED <<cached, changes, cloud, past>>

-----------------------------------------------------------------------------
(* The cloud, and restarts of the controller                               *)

\* When() sees the end of the job of w.
Reported(j, result) ==
  worker' = [w \in Workers |-> IF w = j.by
                               THEN [worker[w] EXCEPT !.job = result]
                               ELSE worker[w]]

JobSucceeds(j) ==
  /\ members' = (members \cup j.add) \ j.del
  /\ jobs' = jobs \ {j}
  /\ Reported(j, "ok")
  /\ UNCHANGED <<cluster, tasks, past, faults>>

\* The servers stay what they were.
JobFails(j) ==
  /\ Fault("job")
  /\ jobs' = jobs \ {j}
  /\ Reported(j, "failed")
  /\ doubt' = doubt \cup {"job"}
  /\ UNCHANGED <<cluster, tasks, members, built>>

\* The process ends, for instance because When() indexes the empty list of
\* jobs of a failed ListAsynJobs in a goroutine that nothing recovers; the
\* new one lists everything anew.
Crash ==
  /\ Fault("crash")
  /\ news' = TRUE
  /\ cached' = Endpoints
  /\ ring' = <<>> /\ queue' = <<>> /\ dirty' = {} /\ waiting' = {}
  /\ worker' = [w \in Workers |-> Idle]
  /\ jobs' = {Job(j.add, j.del, Nobody) : j \in jobs}
  /\ UNCHANGED <<pod, changes, members, past>>

-----------------------------------------------------------------------------
Init ==
  /\ pod = [p \in Pods |-> "gone"]
  /\ news = FALSE
  /\ cached = [p \in Pods |-> "absent"]
  /\ ring = <<>> /\ queue = <<>> /\ dirty = {} /\ waiting = {}
  /\ worker = [w \in Workers |-> Idle]
  /\ members = {} /\ jobs = {}
  /\ built = {} /\ doubt = {}
  /\ faults = 0 /\ changes = 0

Sync(w) ==
  \/ Get(w) \/ Build(w) \/ BuildFails(w)
  \/ List(w) \/ ListNothingToDo(w)
  \/ Replace(w) \/ ReplaceCompletes(w) \/ ReplaceTimesOut(w)
  \/ Deregister(w) \/ Register(w) \/ CallRefused(w)
  \/ Awaited(w) \/ Gate(w)

Failure(w) ==
  \/ ListFails(w) \/ PollFails(w) \/ CallFails(w) \/ CallLost(w)
  \/ AwaitTimesOut(w) \/ GatePatchFails(w)

Next ==
  \/ \E p \in Pods : PodStarts(p) \/ ContainersReady(p) \/ PodStops(p)
  \/ EndpointsEvent \/ CacheSync
  \/ \E e \in Elements : ServiceEvent(e) \/ Retry(e)
  \/ Enqueue
  \/ \E w \in Workers : Sync(w) \/ Failure(w)
  \/ \E j \in jobs : JobSucceeds(j) \/ JobFails(j)
  \/ Crash

Spec == Init /\ [][Next]_vars

\* Goroutines, informers and jobs of the cloud go on; the queue's delays end.
Fairness ==
  /\ \A p \in Pods : WF_vars(ContainersReady(p))
  /\ WF_vars(EndpointsEvent) /\ WF_vars(CacheSync) /\ WF_vars(Enqueue)
  /\ \A e \in Elements : WF_vars(Retry(e))
  /\ \A w \in Workers : WF_vars(Sync(w))
  /\ WF_vars(\E j \in jobs : JobSucceeds(j) \/ JobFails(j))

FairSpec == Spec /\ Fairness

-----------------------------------------------------------------------------
(* Properties                                                              *)

WorkerState ==
  [pc : Step, el : Elements \cup {Nobody}, backends : SUBSET Pods,
   potential : BOOLEAN, add : SUBSET Pods, del : SUBSET Pods, job : JobResult]

JobSet == [add : SUBSET Pods, del : SUBSET Pods, by : Workers \cup {Nobody}]

\* Every variable has its type: the locals of syncServers, the queue's
\* elements, the jobs of the cloud.
TypeOK ==
  /\ pod \in [Pods -> PodState]
  /\ news \in BOOLEAN /\ cached \in [Pods -> View]
  /\ ring \in Seq(Elements) /\ queue \in Seq(Elements)
  /\ dirty \subseteq Elements /\ waiting \subseteq Elements
  /\ worker \in [Workers -> WorkerState]
  /\ members \subseteq Pods /\ jobs \subseteq JobSet
  /\ built \subseteq Pods /\ doubt \subseteq Doubts
  /\ faults \in Nat /\ changes \in Nat

\* A pass that will read the Endpoints is due, or one will be retried
\* because Pods it met may become ready.
PassDue ==
  \/ ring # <<>> \/ queue # <<>> \/ dirty # {} \/ waiting # {}
  \/ \E w \in Workers : worker[w].pc = "build" \/ worker[w].potential

\* No change is lost on the way from the informer to a worker: unless a pass
\* is due, the latest pass resolved the backends the Service has, whatever
\* calls, jobs and patches fail, whatever the ring channel drops, and although
\* no event announces that the containers of a gated Pod are ready.  The one
\* way to lose a change is the latest pass itself reading Endpoints from the
\* manager's cache that are older than the event it answers.
ChangeNotLost ==
  ~news /\ ~PassDue => "cache" \in doubt \/ built = Backends(Endpoints)

Quiet ==
  /\ ~news /\ ~PassDue
  /\ \A w \in Workers : worker[w].pc = "idle"

\* When nothing is queued and no pass runs, the group holds exactly the
\* backends of the Service or its jobs will bring it there, whatever calls
\* were refused, answers lost and passes cut off by a restart.  Nothing corrects
\* the end of a latest pass that read older Endpoints, ran beside another
\* one, met a backend that an earlier job was removing, or had a job that failed.
QuietInSync == Quiet /\ doubt = {} => Outcome = Backends(Endpoints)

\* Once the Pods stop changing, the group comes to hold exactly the backends
\* and keeps them, unless the latest pass left one of those doubts.
Converges == <>[](doubt # {} \/ Available = Backends(Endpoints))

\* No Pod waits at its readiness gate for ever: the controller registers it
\* and opens the gate.
GatesOpen == \A p \in Gated : []<>(pod[p] # "gated")
=============================================================================
