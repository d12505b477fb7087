# TLA+ models of the Alibaba load balancer controller

The controller runs in a Kubernetes cluster and keeps two kinds of Alibaba Cloud
load balancers in step with Kubernetes objects: *network* load balancers (NLB)
for Services of type LoadBalancer, and *application* load balancers (ALB) for
Ingresses grouped by an AlbConfig. This directory holds TLA+ models of it, the
TLC configurations that check them on small instances, and TLAPS proofs.

## 1. Inventory

| part (source) | state it keeps | operations | what makes it correct | modelled in |
|---|---|---|---|---|
| NLB controller (`pkg/controller/service`) | none of its own: finalizer, hash label and status on the Service, and the cloud | handlers for Services; `reconcile` as a chain of calls, two workers | never touches what the user owns, never creates twice, leaves nothing behind, is in sync when nothing is pending, always gets to that point | `NlbModel`, `NlbController` |
| server groups of an NLB (`server_groups.go`, `backend.go`, `node_utils.go`) | server lists, weights and attributes in the cloud; a cache of instances | handlers for nodes and endpoints, three traffic policies, diff, batches | the servers are those the nodes, Pods and policy call for; replacements come first | `NlbServers` |
| helpers (`pkg/controller/helper`) | finalizers and labels | add, remove, hash, retry, task queue | optimistic locking; a failed task is retried | `NlbModel`, `NlbController`, `AlbServers` |
| NLB provider (`pkg/provider/alibaba/nlb`) | the cloud | find by id, tag, name; create and tag; asynchronous jobs | what a retry finds again | `NlbController`, `NlbServers` |
| ALB controller (`pkg/controller/ingress/alb_controller.go`) | listeners merged into the AlbConfig, hash labels, statuses, finalizers | `syncIngress`, `syncServers`, `reconcile` | an edit is never vouched for before it is applied | `AlbIngress`, `AlbServers`, `AlbLoadBalancer` |
| Ingress store (`reconcile/store`) | informer caches | event filters, ring channels, queue | no relevant event is lost | `AlbIngress`, `AlbServers` |
| ALB builder (`reconcile/builder`) | the stack of desired resources | group loading and ordering, rules, listeners, certificates, server groups | every Ingress on the ALB it asks for; deterministic priorities | `AlbIngress`, `AlbRules`, `AlbListeners` |
| ALB appliers (`reconcile/applier`) | the cloud | Secrets, groups, load balancer, listeners, ACLs, rules, then deletion of groups | order of creation and deletion; a failed step leaves a state the next pass repairs | `AlbLoadBalancer`, `AlbListeners`, `AlbRules`, `AlbServers` |
| ALB provider (`pkg/provider/alibaba/alb`) | the cloud | batches, listing by tags, asynchronous jobs, roll backs | what a retry finds again | the same |
| resource stack (`pkg/model/alb/core`) | resources and dependencies | topological traversal | dependencies come first | not modelled |
| other providers, tokens, metadata, dry run, mocks, API types | - | single calls, declarations | - | not modelled |

Parts interact through the API server (objects written by one pass are events
for the next), through the cloud (what one pass created, the next must find
again, and two Services may share one load balancer), and through queues.

Hard behaviours: every pass is a chain of calls that may stop anywhere, by an
error or by a restart, and start again with newer objects; the objects a pass
works on come from an informer cache that trails the API server; users edit
Services and cloud resources during a pass; two workers share load balancers;
labels record that a spec *was* applied.

## 2. The NLB controller

`NlbModel` holds the data and the pure predicates; `NlbController` the state
machine; `MCNlb` the instances; `NlbControllerProofs` and `NlbSafetyProofs` the
theorems.

State: `api` is the Service as the API server has it, `watch` the versions that
the informer has still to deliver and `cache` what the controller reads;
`queue` the work queue; `nlb`, `grp`, `lis` the cloud; `pc` and `ctx` one pass
per Service (controller-runtime never runs one key twice at a time; several
Services are reconciled concurrently).  One action stands for one call that
reads or changes the API server or the cloud, in the order of the code:

    ReconcileStart -> AddFinalizers* -> FindNLB -> {Create,Tag,Update,Delete}NLB
      -> ListNLBServerGroups -> per port: UpdateServerGroup, or
         CreateNLBServerGroup, TagServerGroup, BatchAddServers
      -> ListNLBListeners -> DeleteNLBListener* -> UpdateOrCreateNLBListener*
      -> DeleteServerGroup* -> addServiceLabels -> updateServiceStatus
         (or removeServiceLabels -> removeServiceStatus -> RemoveFinalizers*)

The cloud carries deletions and changes of servers out as jobs.  `waitJobFinish`
polls for half a minute, and when the polls run out, or the job has failed, it
returns no error: the pass goes on as if the job had succeeded.  `DeleteNLB` and
`DeleteNLBListener` are the jobs that end in time; `DeleteNLBUnfinished` and
`DeleteNLBListenerUnfinished` those that do not, after which the pass goes on or, if
the job could not be asked for, fails; `ServersUnfinished` is the same for the servers
of a group.  `going` marks what the cloud has accepted to delete and `Unfinished` the
servers of a group whose job had not ended; `JobEnds` ends a deletion, sooner, later or
never.

`CallFails` lets any call fail, `CreateNLBLost`, `CreateNLBServerGroupLost` and
`RemoveFinalizersLost` let a call take effect and its answer be lost, `Restart` ends every pass and
lists all Services anew.  The hash label decides, as in `Apply`, whether the
load balancer and the listeners are looked at at all.

Abstractions: a Service is one object (a deleted Service is not created again);
the hash is the hashed data (no collisions); a listener is its (protocol, port);
the contents of a server group are one value of `Backends`; attributes of a load
balancer that no later decision reads are left out, its name and tag are kept.
The listing of server groups filters on two tags with OR, as the comment in
`loadbalancer.go` says of the API.  `nlb[l].by` and `lis[l][p].by` record who
created an object: the second is the description the controller writes and
parses, the first is a ghost that no guard reads.  A conflict of an optimistic
lock is an error of the pass; the bounded retries in between change nothing.
`FindNLB` has no action for several candidates, which the code refuses or settles by
taking the first (`nlb/loadbalancer.go:268-277, 308-315`): `AtMostOneNLB` shows there
are none (`own`), and the branch `can not find loadbalancer by tag` of `Apply` cannot
be reached because the branch before it created one.

Not modelled: errors of the cache other than "not found", dry run, attribute
validation of the cloud.

### Properties

* `FinalizerGuards`: while a load balancer or a tagged group of a Service is
  alive, the Service exists and has the finalizer; this is why the handler may
  ignore delete events.  A load balancer whose deletion the cloud has accepted is
  excepted, as the finalizer really comes off when `waitJobFinish` gives up on it.
* `AtMostOneNLB`: lost answers and restarts never lead to a second load balancer.
* `NoDanglingListener`: no listener forwards to a deleted group, at any moment,
  except one that is being deleted, or whose load balancer is.
* `QuiescentInSync`: when nothing is pending for a Service, the cloud is as its
  spec and endpoints say, except for listeners that are being deleted and groups with
  a job that had not ended.
* `UserNLBKept`, `UserListenersKept`, `OverrideRespected`: what belongs to the
  user is left alone.
* `Converges`: when users and failures stop, all work comes to an end and deleted
  Services are gone.

### Runs

| run | what | bounds |
|---|---|---|
| `own` | a Service with a load balancer of its own: faults in every call, ports come and go, it is deleted; safety and `Converges` together | 2 ports, 2 load balancers, 3 groups, 1 fault, 2 user actions; 1,343,782 states |
| `reuse` | a Service that reuses the user's load balancer, with every edit between eight specs and deletions in the console | 4 groups, 1 fault, 2 user actions; 1,477,036 states |
| `shared` | two Services, two workers, one load balancer; Services are switched off | 2 groups, 1 fault, 1 user action; 2,513,083 states |

Two ports, two load balancers and three or four groups are enough for a port to be
replaced while the old group is still in use and for a lost creation to be followed
by a second one; one failure and two user actions in one behaviour reach every pair
of an edit and an interruption.  In these runs a spec never returns to an earlier
value where being in sync is claimed; section 9 says what happens otherwise.  In
`own` the type of the Service stays, because `Converges` fails without that (section
9); `shared` and `reuse` change it.  The console deletions of `reuse` are excluded
where "in sync" is claimed: no event tells the controller of them.
`CHECK_DEADLOCK FALSE` is set since the system may stop: with every Service in sync
and the bounds used up there is nothing to do.

Fairness (`FairBehaviour`): weak fairness of each Service's worker step and of
the delivery of its events; controller-runtime serves every key and the watch
delivers.  Users, failures, restarts and the end of a job nobody waits for are not
fair.

### Proofs

`NlbControllerProofs` proves, for all sets of Services, ports, load balancers,
groups and edits: `Invariance` (the inductive invariant `IInv`), `TypeCorrect`,
`UserNLBSafe` and `OverrideSafe`.

`UserNLBKept` is not inductive: `DeleteNLB` deletes `ctx[s].lb`, and nothing in
that action says whose load balancer that is.  `IInv` adds what a pass knows at
each point (`PassesOK`: if the load balancer found is the user's, the Service
the pass works on has the loadbalancer-id annotation, hence `SkipDelete`), and
why a lookup without that annotation never finds one of the user's
(`UserNLBUnmarked`: tag and default name are written only to load balancers the
controller created).  The proof has one lemma per group of actions and one step
per action; the temporal steps are by PTL.  The assumptions are those of the
constants, named in `NlbModel` and `NlbController`; TLC evaluates them in every
run.

`NlbSafetyProofs` builds on it: `OneNLB` (`AtMostOneNLB`), `FinalizerHolds`
(`FinalizerGuards`), `NothingDangles` (`NoDanglingListener`), `UserListenersSafe`
(`UserListenersKept`) and `RestsInSync` (`QuiescentInSync`).  The invariants:

* `VersionInv(R)`: all versions of a Service that are still around (in the API
  server, on their way to the informer, in its cache, in a pass) form a chain in
  which each follows from the one before by an edit in `R`, and a hash label is
  that of a version already passed.  Without it a pass could do to the cloud what
  no version of the Service ever asked for.
* `FindInv`: at most one load balancer of a Service can be found by tag or name,
  a pass past the lookup knows it, and creates one only if there is none.
* `GroupInv`: at most one tagged group per port, and what a pass has listed is
  what there is, as only the pass of the Service itself changes its groups.
* `FinInv`: who has something in the cloud is guarded by the finalizer in every
  version a pass may still remove it from.
* The invariants carry the exceptions of the properties: what a pass knows of its load
  balancer and listeners holds of those that are not `going`, and nothing the
  controller does makes one that is `going` stay.
* `DangInv`: `ListenInv` says where a listener leads and that a port whose listener
  exists is one the Service had when its label was written, or is on the list of
  those the running pass deletes or writes.
* `ShareInv`: a pass deletes only listeners that are still those of its Service.
  The list is taken in one call and worked off in others, so this needs that no
  other Service may come to the port meanwhile; `Specs(s)`, the smallest set that
  holds the initial specs of `s` and is closed under edits, says which ports `s` may
  ever ask for.
* `RestInv(R)`: `DangInv(R)`, `ShareInv` and `SyncInv`.  A pass may skip the load
  balancer and the listeners when the hash label is the one of the Service, so
  `SyncInv` says what a label tells of the cloud (`Tells`: the load balancer was made
  and its ports have their listeners, whichever version carries the label) and that
  nothing undoes it while a version still wants it (`Alive`, `Hosts`).  `HasDone` says
  how far a pass has come: its load balancer, the groups it is done with, the
  listeners it is done with.  `Current` says that a pass which will not be repeated
  works on the Service as the cache has it and on the backends of the moment; when
  the informer has caught up and the pass has ended, label, status and groups are
  right.

TLC checked `ShareInv` and `SyncInv` on the instances of `own` and `shared` before
they were proved.

These theorems have hypotheses; all but `StaysOff` are needed:

| hypothesis | says | without it |
|---|---|---|
| `Unnamed` | no Service has the annotation loadbalancer-name | a creation whose answer is lost leaves a load balancer with neither tag nor default name; no lookup finds it and the retry makes a second one |
| `Settles` | a Service that stopped being an NLB Service does not become one again, and one without loadbalancer-id does not get one | `RemoveFinalizers` acts on a newer object than the decision (section 9); a Service that starts to reuse leaves its own load balancer behind |
| `ReusedStay` | reused load balancers are the user's and not deleted in the console | `FindNLBGone` lets a cleanup go on that never looks at the groups |
| `NeverBack` | edits never lead back to an earlier spec, the id stays, an override is not withdrawn | a spec that comes back finds its own label and skips the listeners, whose groups a pass in between has deleted; listeners left on another load balancer lose their groups |
| `PortsApart` | two Services that reuse one load balancer never ask for the same port of it | the one that comes last takes the port, and a pass of the other that has just listed it as its own deletes a stranger's listener |
| `StaysOff` | a Service that needs no load balancer any more stays so | only the proof needs it, for `Alive`: a stale cleanup does not delete what a newer version asks for; TLC finds no violation when a Service is switched on again with another spec, on the instance of `own` |
| `ReusesUsers` | loadbalancer-id names load balancers of the user's | the Service that the load balancer was made for deletes the listeners of the one that reuses it |
| `OwnStay` | nobody deletes a load balancer of the controller's in the console | no event tells the controller of it; a pass that finds the label right creates no other one and writes an empty host name to the status |

`OneNLB` needs the first, `FinalizerHolds` the next two, `NothingDangles` `Unnamed` and
`NeverBack`, `UserListenersSafe` `PortsApart`, and `RestsInSync` `Unnamed`, `NeverBack` and the last
four.  The run `own` satisfies all of them and `shared` too.  Assumptions on constants
are those the modules name; `HashAssumption` says that "no label" is no hash, and
`ListenerAssumption` that "no listener" is no listener.

Only model-checked: `Converges` (liveness is out of the prover's reach).

## 3. The rules of an ALB listener

`AlbRules` models how the rules of one listener get from the Ingresses to the
cloud: `buildListenerRules` numbers them, `applyListenerRulesOnListenerBatch`
matches desired and existing rules by direction and priority, and the provider
creates, updates and deletes in batches.

State: `want` is the list the Ingresses ask for, `cloud` the rules of the listener
by key (priority and direction), `queued` whether a pass is due, `pc` its next
step, `res` what it works towards, `create`, `update` and `delete` the keys it has
still to send, `ascend` the order of its updates; `base` and `goals` are a history
of the list the listener implemented last and of those passes have worked towards
since.  A pass creates, then updates, then deletes; with a deletion the updates go
from small to large priorities, without one from large to small.  `Fails` ends a
pass after any batch; the controller then has another one due.

Abstractions: a batch takes effect as a whole (that is the cloud's side); a rule
is a value, its conditions and actions are not looked at; every rule has a direction
(`buildListenerRulesCommon`, for the old form of Knative Ingresses, gives none and is
left out); the code sorts keys as
strings, and the model allows any order where only that order decides.

Properties: `QuietInSync` and `Converges` (the listener ends up with exactly the
rules of the Ingresses, whatever failed in between), `ServedThroughout` and
`RoutedOldOrNew` (while rules move, no traffic loses its rule and none is routed
in a way that neither the old nor the new list would).  The last two are the
reason for the two update orders and hold for changes that only add or only
remove priorities.  A Response rule that is put in front of Request rules frees a
Request priority and takes a Response one: then updates go from small to large
although rules move backwards, and with more rules to move than fit in one batch
a rule may be missing between two batches.  No document promises otherwise.

The run `rules` changes eighteen lists of up to four rules into one another (three
Request rules in their order with any of them left out, or reversed, with or
without a Response rule in front), in batches of one, with two changes of the
Ingresses, also during a pass, and two failures: three rules that move in three
batches are enough for a pass to stop before, between and after them and for a
rule to be overwritten in the wrong order.  Fairness is weak fairness of `Pass`:
the queue repeats a failed pass.

`AlbRulesProofs` proves `RulesInSync`, that `QuietInSync` always holds, for every
batch size, any set of lists and any number of failures.  The inductive
invariant is `RuleInv`; its part `PassKnows` says that the listener and the
keys a pass has still to send together make up what it works towards.

It also proves `TrafficServed` (`ServedThroughout`) and `TrafficRouted`
(`RoutedOldOrNew`), for lists of any length.  The properties speak of whole routing
decisions and are far from inductive; `TrafficInv` adds what the batches keep.  Let lo
be the shorter and hi the longer of the two lists.  `Between` says that the listener
is `Mixed`: every key has the rule of lo or of hi; a rule that only hi has is missing
only while all of lo's are there (create first, delete last); and if a key of lo does
not have hi's rule, all keys of lo before it still have lo's (updates from the back
while rules are added, from the front while they are removed).  `GrowthStep` and
`ShrinkStep` show that every batch keeps the mixture, whichever pass sends it.  From
the mixture, `Moved` gets that a rule of lo that has been overwritten has its copy at
its place in hi, since a growing list can only move rules back (`Spread`, by counting).
`MixedServes` and `MixedRoutes` are then about the first rule that matches: its
existence is `Smallest`, from the well-foundedness of the numbers.  TLC checked
`TrafficInv` on the instance of `rules` first (857,672 states).

## 4. The servers of an ALB server group

`AlbServers` models one Service and its server group from the Pods to the cloud.
The store's Endpoints handler puts an element on a ring channel, the loop in
`Start` moves it to the work queue, and a worker runs `syncServers`: resolve the
Endpoints (`Build`), list the group and match (`List`), then replace, or
deregister and register in batches, wait for the job of every call, and open the
readiness gates (`Gate`).

State: `pod` (the Pods; a gated one is registered before it is ready), `news` (an
event the store's informer has to deliver), `cached` (the Endpoints in the cache
behind the manager's client), `ring`, `queue`, `dirty`, `waiting` (the ring
channel and the work queue of client-go), `worker` (the locals of a pass),
`members` and `jobs` (the cloud), and the history of the latest pass: `built`, what it
resolved, and `doubt`, why its outcome may be wrong all the same:

| doubt | set when | what the code does then |
|---|---|---|
| `"cache"` | the pass reads Endpoints older than those the store has | two informers are not ordered; nothing repeats the pass |
| `"overlap"` | it begins while another pass over the Service is under way | the queue's items are events, not keys; the older pass may be the last to write |
| `"removal"` | its listing has a backend that a job is removing | the server counts as matched and is not registered again |
| `"job"` | a job fails | the error is read before it is written, or the polls run out |

Each is a real end of the code: with any of the four taken out of the exceptions TLC
refutes `QuietInSync`.

Faults are chosen by the constant `Faults`: `"call"` a request is refused,
`"lost"` it is carried out and how it ends is not learnt (lost answer, failed
poll, timeout of the wait), `"job"` an asynchronous job fails, `"patch"` the
patch of a Pod fails, `"crash"` the controller restarts.  `When()` closes `Final`
before it writes the result, so what the caller reads of a failed job is a
choice (`FutureErr`).

Abstractions: a Pod is its address and name; the Service has one port and the ENI
policy, it exists and an Ingress refers to it throughout; the cloud refuses a
call that names a server with a running job; versions of the Endpoints that the
informer delivers in a row count as one event.  The cache behind the manager's client
follows the Endpoints by a step of its own, in no order with the store's informer.

Properties: `ChangeNotLost` (unless an event, an element or a retry is pending, the
latest pass resolved the backends the Service has now, or read older Endpoints than
its event was about), `QuietInSync` (when nothing is queued, no pass runs and `doubt` is
empty, the group holds exactly the backends once its jobs have ended) and `Converges`
(the group gets there and stays so).

| run | bounds | result |
|---|---|---|
| `servers_sync` | 3 Pods (1 gated), 1 worker, 1 element, batches of 1, 3 changes, 1 fault of any kind | `Converges` holds; 312,720 states |
| `servers_faults` | 2 Pods, 2 workers, 2 elements, a ring of 1, 3 changes, 1 fault of any kind | `TypeOK`, `ChangeNotLost`, `QuietInSync` hold; 1,166,869 states |

Three Pods and a limit of two for replacements are the smallest numbers with which
one pass removes and adds in separate calls; a ring of one overflows with the second event.  With one
element a second worker would never have anything to do, because the queue does
not hand out an element that is being processed.  Workers are symmetric in
`servers_faults`.  The system may stop once the bounds are used up, so deadlock is
not checked.

Fairness: containers become ready, informers deliver, `Start` reads its channel,
delays of the queue end, workers run, and jobs of the cloud end.  Changes and
faults are not fair.

`AlbServersProofs` proves the three safety properties with no hypothesis, for any
number of Pods, workers and elements, any ring and batch size and any fault:
`TypeCorrect` (`TypeOK`), `ChangesReachAPass` (`ChangeNotLost`) and `ServersInSync`
(`QuietInSync`).  `ChangeNotLost` is not inductive: a pass that ends must not have been
the last one that knew of a gated Pod.  `ServersInv` adds that a Pod whose containers
start keeps a pass due (`StartingDue`) and that a busy worker has the element it will
put back (`BusyHasElement`).

For `ServersInSync`, `SyncInv` adds that two jobs never have a server in common
(`Apart`), so that the group after all jobs, `Outcome`, does not depend on their order,
and what is `Known` as long as `doubt` is empty: the latest pass is the only one; what it
has still to add and to remove is exactly what `Outcome` lacks and has too much
(`WorkKnown`), although jobs of earlier passes may still run; and between passes
`Outcome` is what was resolved last, or another pass is due (`Rest`).

## 5. The servers of an NLB server group

`NlbServers` has what `NlbController` takes as one value: the servers of one group,
from the nodes, Pods and the Service to the cloud.  `MCNlbServers` holds the instances.

State: `node`, `pod` and `svc` (the cache of the controller), `queued`, the locals of
a pass (`pc`, `want`, `wantAttr`, `todo`), `nodeCache` (instances looked up by
address), and in the cloud whether the group is `created`, `group`, `attr` and the
running `job`.  Two variables are history: `late` is set when a wait ended before its
job or in spite of the job's failure, `missed` when a node changes in a blind spot of its
handler, until the next pass reads the nodes.

The blind spots (`BlindSpot`): `nodeSpecChanged` does not compare taints, although
`needExcludeFromLB` reads the autoscaler's; a label with an empty value that gives way to
another one reads the same; and a virtual node with the label exclude is passed over
although its Pods are servers.

The handlers for nodes, endpoints and Services compare two versions and decide
whether a pass is due.  A pass filters the nodes, builds the servers of the traffic
policy (ENI, Local, Cluster, with Pods on virtual nodes in each), sets the weights,
lists the group, changes its attributes, and then adds, deletes and updates servers in
batches, waiting for the job of each call.  The cloud refuses a change of a group that
has a job running, and a listing shows servers that are being added.

Faults: a call is refused, a poll fails, a wait runs out (`waitJobFinish` then reports
success), a job fails, the controller restarts.  `QuietInSync`, `ReplacementsFirst`
and `Converges` except behaviours in which `late` was set: the code goes on there as
if the job had succeeded, and old servers are removed although new ones are not there.

* `QuietInSync`: with nothing due and nothing `missed`, the group has exactly the servers
  of the documented policies (`Expected`, stated independently of the code's filters).
* `NoReverseCompare` is the same with the blind spots, refuted by `node_labels`.
* `ReplacementsFirst`: no server leaves before all the servers of the pass are in,
  over several batches and failed passes.
* `Converges`: a network interface that the cloud does not show yet and a call refused
  because of a running job only delay.

The run `nlb_servers` has two nodes and a virtual one, two Pods, 32 possible edits (a
taint alone and a virtual node marked exclude among them), three of them in a
behaviour, one fault and batches of one server (1,052,724 states).
Two Pods and batches of one make every difference take several calls; three edits let
a node leave, come back and change in one behaviour.  Fairness: passes of a queued
Service, the end of jobs, and the cloud showing an interface.

`NlbServersProofs` proves, for all nodes, Pods, Services, batch sizes and faults,
`NoServerTwice` (`TypeOK`: the group is a set of records and no call names a server
twice) and `ReplacementsComeFirst` (`ReplacementsFirst`).  The latter rests on
`OrderInv`: while every wait ended with its job, each wanted server is in the group,
still to be added, or in the running job, nothing still to be removed is wanted, and a
job that removes comes after all that add.  `ClusterAssumption` names what the
instances look like; `late` is in the property, so no hypothesis is needed.

`GroupInSync` proves `QuietInSync`.  `SyncInv` adds to `OrderInv` that what is in the
group and not wanted is still to be removed or updated or in the running job
(`WorkAccount`), and that, unless another pass is due, the running pass wants what the
Service should have now, or, with no pass running, the group has it (`RestAccount`).
That a pass wants it is `Build` against `Expected`, two descriptions of the policies:
`buildServers` goes through the Endpoints and merges by instance, `Expected` says node
by node and Pod by Pod who serves.  Hypotheses: nodes have instances of their own and
keep them, Pods on virtual nodes have interfaces of their own (`OwnIds`: the cache of
instances by address is never emptied, section 9).  What the handler may pass over is
proved, not assumed: `NoticedUnlessBlind` says that outside the blind spots such a change
leaves a node what it was to every Service.

Left out: `podPercentAlgorithm`, which nothing selects; a switch between the ENI policy
and the others names another group, which is `NlbController`'s.

## 6. The load balancer of an AlbConfig

`AlbLoadBalancer` models `albconfigReconciler` and the load balancer applier.  State:
`api` and `cached` (AlbConfigs), `queue`, `pass`, `lb` (the ALBs).  A pass adds the
finalizer, finds the ALB by its tags, creates it or takes over the one that the spec
names, and works out from one description of it the list of calls that update, release
or delete it; a call is the record of the fields it sets.  Then come status and hash
label, or the removal of the finalizer.  Any call may be refused or carried out
without the controller learning so, the controller may restart, and the ALB may be
deleted in the console.  `NoDNSName` is the early return of
`reconcileAlbLoadBalancerResources`: an ALB that has no DNS name when it is described
(the poll for a new one gave up, say) ends the pass well, without status, label or
another pass.

* `UserALBKept`, `OverrideRespected`: an ALB of the user's is never deleted, and its
  settings change only under `forceOverride`.
* `FinalizerGuards`, `AtMostOneALB`: an ALB with the tags of an AlbConfig has that
  AlbConfig and its finalizer behind it, and there are never two.
* `QuietInSync`, `Converges`: with nothing due, the ALB is as the spec says, and the
  status names it unless the latest pass ended for want of a DNS name; passes come to an
  end unless the user has to act (`Unservable`).

The run `alb_lb` starts from five specs (a new ALB, one with an invalid log project,
one with an unknown vSwitch, and a reused ALB with and without override), with two faults and
two edits (336,329 states).  Two faults are needed for a failed call and a failed roll
back of what it left.  Fairness: each AlbConfig's worker and its informer.

`AlbLoadBalancerProofs` proves, for any number of AlbConfigs, ALBs and faults:
`FinalizerHolds` (`FinalizerGuards`), `OneALB` (`AtMostOneALB`), and, if edits leave
alone which ALB a spec names (`IdsKept`, true of `alb_lb`), `UserALBSafe`
(`UserALBKept`) and `OverrideSafe` (`OverrideRespected`).  `GuardInv` says that every
copy of an AlbConfig that a pass works on has the finalizer or has nothing in the
cloud (`CopiesFit`) and that what a pass has listed is what bears the tags
(`ListingFits`); `UserInv` that the calls of a pass on an ALB of the user's are those
the code makes when it reuses one.  Without `IdsKept` the user's ALB is in danger: an
edit drops spec.id, the call that would mark the ALB as reused is lost, and the pass
that deletes the AlbConfig takes the ALB for its own.  `InputAssumption` names what
specs look like.

`AtRestInSync` proves `QuietInSync`.  `SyncInv(R)` adds, for every AlbConfig:

* `OrderFits`: the version its hash label stands for, the one a pass works with, the
  one in the cache and the one in the API server follow each other by edits in `R`;
* `Account`: an AlbConfig whose label is not up to date is queued, about to be, or in a
  pass over its present version, so no event that a handler filters out was needed;
* `OwnFits`: the ALBs that its tags, its status and its pass point to are its own;
* `PassFits`: the calls left over bring the ALB in line with the spec, field by field
  (`Aims`), or take back one that got no tags; once they are done it is in line;
* `LabelFits`: an up-to-date label stands for an ALB that agrees with the spec;
* `OrphanFits`: an AlbConfig whose ALB was deleted in the console gets no other.

Hypotheses beside `IdsKept`: edits never lead back to an earlier spec (`NeverBack`:
the label of that spec would be taken for up to date while a pass over the spec in
between runs), the ids are of ALBs of the user (`UsersNamed`), and no two AlbConfigs
name one ALB at a time (`Unshared`; `ClaimHonoured` in section 9 is the
counterexample).  TLC checked `SyncInv` on the instance of `alb_lb` and with two
AlbConfigs.

## 7. From an Ingress to its ALB

`AlbIngress` composes the store's handlers, `syncIngress`, the group loader and the
passes of the reconciler, for two AlbConfigs and Ingresses that move between them.
`IngressRouting` is the abstract specification: it keeps, for each Ingress, the
AlbConfig each of its versions asked for, and for each ALB the version it routes by,
and allows an ALB only to move on to a newer version that asks for it, or to drop an
Ingress of which there is a newer version or which is `hidden`: the controller did not
know of it when it set out to serve the ALB.  `Implements` is the refinement; it maps
`hidden` to what the pass found missing from the store.

`waitCache` waits until the informer has the first list, not until the handlers have
put it into the store the groups are loaded from; a pass may start any time before
(`NotStored`).  A pass applies the group, writes the addresses into the Ingresses and the
status into the AlbConfig (`Apply`), and then the labels (`Finish`); a status update that
meets a newer AlbConfig ends it with an error (`StatusRefused`), and an ALB without a DNS
name ends it early and well (`NoDNSName`).

State: `ing` (API server) and `seen` (the store), `listing` (the first list after a
restart), IngressClasses as the API server, the store and the manager's cache have
them, `cfg` and `cfgCache` (the listeners of AlbConfigs), `queue`, `acQueue`, `pass`,
and `served`, the triples (Ingress, version, port) an ALB routes by; `history` records
what the versions said.

* `QuietInSync`, `Converges`: every ALB serves the Ingresses that ask for it, in their
  last version on all their ports, unless the controller was restarted (an Ingress
  deleted meanwhile has no finalizer and leaves its rules).  `Converges` also excepts
  what the user has to resolve (`Blocked`: clashing orders, ports that do not parse,
  protocols in each other's way, a class without parameters); something then stays in
  a queue.
* `AddressRight`: an Ingress that has asked for one AlbConfig all its life has the
  address of its ALB, or none if it was edited, as a status update that meets a newer
  version is given up and nothing repeats it (`AddressComes`, section 9), or if the
  latest pass ended for want of a DNS name.
* `ListenersKept`: merging ports never loses a listener the user wrote.
* `Implements`: see above.

The run `ingress` has two Ingresses, two AlbConfigs and four IngressClasses.  Seven
initial states share the bounds of two edits and one fault between them: the
controller comes up before an IngressClass exists, an Ingress leaves its AlbConfig and
is edited on or is edited during its first pass, two Ingresses get in each other's way,
and something fails (73,500 states).  `ingress_restart` checks that rules survive a
restart, which they need not.  Fairness: informers deliver, the worker of `syncQueue` runs, and so do the passes of
each AlbConfig.

`AlbIngressProofs` proves `ListenersSafe` (`ListenersKept`), which is the optimistic
lock at work, and `RoutingImplemented`: every step of `AlbIngress` is a step of
`IngressRouting` or leaves its variables alone, for any number of Ingresses, AlbConfigs,
classes, edits and faults.  The invariant `RoutingInv` relates the copies of an Ingress
(API server, store, members of a running pass) to its history: they are versions of it
in that order (`ObjectFits`), an ALB serves only versions that asked for it
(`ServedFits`), and a pass knows for every Ingress its ALB serves a version that is no
older, or there is a newer one elsewhere, or it found the Ingress missing (`PassFits`).
The hypothesis is `ClassesNamed`, without which `MakeIngressClass` gives the class alb an
AlbConfig that all its Ingresses then ask for although no version of them did; the run
has it.  `StartAssumption` names what the initial states look like.

`RoutesInSync` (`QuietInSync`) and `AddressesRight` (`AddressRight`) rest on
`RestInv(R)`, which holds until a restart.  What a handler filters out by the hash
label, and what `syncIngress` gives up because the AlbConfig it resolves to is
another one by then, must not have been needed:

* `GroupFits`, per AlbConfig: an event that will reach it is in the queue, or it is
  queued itself, or its pass has loaded the group as the store has it now, or the ALB
  serves that group; and until such an event its ports are in the AlbConfig.  An Ingress
  that is not in the store yet has its event still to come, so a group loaded too early
  is loaded again;
* `Follows` and `LabelFits`, per Ingress: the store is never ahead of the API server, and
  a label never stands for a version whose event is still to come;
* `YoungFits`, `HostFits`, `DeletedFits`: an Ingress that was never edited and has no
  address is unchanged in every copy, so the status update of its pass meets no newer
  version; an address is that of an ALB the Ingress asked for.

Both take `EditsForward(R)` beside `ClassesNamed`: edits go up in an order
`R` (one taken back while its pass runs carries the old label, section 9), and an edit
that keeps the class keeps the AlbConfig (with the annotation albconfig alone changed,
the handlers do not tell the AlbConfig that is left).  TLC checked `RestInv` first.

## 8. What a pass applies to an ALB

`AlbListeners` models one pass over the resources of one ALB, applier by applier:
certificates of Secrets, server groups, listeners with their certificates, ACLs, rules,
and at the end the deletion of server groups.  `pass.todo` holds what the goroutines of
the running applier have still to do, as pairs of a resource and its next call, so all
their interleavings are covered.  A call may fail and the controller may restart
between two calls.

* `QuietInSync`, `Converges`: after a pass that ended well the ALB has exactly the
  listeners, certificates, rules and groups of the configuration, its listeners have the
  attributes the requests carry (`Sent`), and access control is in force
  (`AclInForce`); and passes get there.
* `DeletesUnused`: no listener or rule uses a group that is deleted, although a
  listener with an error keeps its old rules and actions.
* `WantedCertsStay`: while certificates are exchanged in several calls, one that is to
  stay is never missing, except the one that becomes the default, which the code
  dissociates first.

  `AclInForce` says what the applier achieves and no more: lists given by ID are exactly
  those on the listener; of entries there is a list with exactly these, and lists that
  were on the listener before stay on (`createAndUpdateMatchedAcl` takes none off); of a
  listener without access control nothing is claimed, since the applier leaves it as it
  is.  `Sent`: `http2Enabled` counts only when it is left out, and a given value reads as
  off (`model_build_listener.go:95-97`); gzip, timeouts, security policy, QUIC and the
  X-Forwarded-For headers are one value; the log configuration is never sent, CA
  certificates are never updated and the subject's alias is replaced by the issuer's, so
  none of these is claimed.
* `AclNeverLifted`: a listener with an ACL is never without one while lists change.
* `UserListenersKept`: listeners of the user are touched only if overriding is allowed.

The run `listeners` changes between seven configurations twice, with one fault (517,761
states): certificates found by host, by Secret and by id, ACLs by id and by entries,
listeners and groups that come and go, attributes that the provider refuses, and a
listener of the user's.  Fairness: the worker, and the expiry of the cache of
certificates.

`AlbListenersProofs` proves the five safety properties, for any listeners,
configurations and faults, each under conditions on the configurations that the
run's satisfy:

| theorem | property | condition | without it |
|---|---|---|---|
| `UserListenersSafe` | `UserListenersKept` | `Unclaimed`: no AlbConfig gives a listener the description that stands for the user's | by definition of that description |
| `AccessControlStays` | `AclNeverLifted` | `AclsSettled`: who asks for access control gives lists or entries and does not change its type | section 9, `MCRetyped` |
| `DeletedUnused` | `DeletesUnused` | `Recognized`: on a reused ALB no AlbConfig describes a listener in its own words | a listener with a description of its own is not recognised once the ALB counts as reused; it stays, and its groups are deleted |
| `CertificatesStay` | `WantedCertsStay` | `FirstDefault`: only the first certificate is marked as default | a later certificate that is marked as well is neither the default (the first one marked is) nor an additional one, so it may be taken off |
| `ListenersInSync` | `QuietInSync` | `Recognized`, `AclsSettled`, `FirstDefault`, and `Certified`: a TLS listener that can be built has a default certificate; `ListsApart`: lists given by id are the user's, and no two listeners share the name of a list | without a default one the old default stays although it is not wanted any more; goroutines of two listeners that share a list overwrite each other's entries |

Each has an invariant of its own over `pass.todo`: which listeners a pass may touch
(`UserInv`), what a goroutine that takes off lists leaves on (`AclInv`), and, for
`DeletedUnused`, that an error of any goroutine is noted or covered by one that is, so
that the deletion of groups is reached only when every listener and every rule is as
configured (`UnusedInv`).  `ListenersAssumption` names what configurations look like.

`ListenersInSync` needs all of these at once and an account of how far every goroutine
has come, by its next call (`RestInv`, which TLC has checked on the run's instance):
which certificates a listener has between two calls of the exchange (`CertJobs`); which
lists exist, whose they are and what is left to associate, fill and take off
(`ListsExist`, `ListJobs`); that groups that are not wanted are marked for deletion and
the others reach their attributes (`GroupJobs`); that on a reused ALB there are no
descriptions but the user's and the controller's (`DescFits`); and that a pass works on
the newest configuration or another pass is due (`Aware`).  The step that is hardest to
see is that of one goroutine on the access control of the others: it changes lists of
its own name only, and puts on its listener only those or the user's (`OnlyOwn`), so
the others are as far as they were (`ListsOthers`).  `Apart` says that `None`, which
stands for what does not exist, is not a record.

Abstractions: listeners have distinct ports (the code keys errors by port); the rules
of a listener are the groups they forward to (`AlbRules` has their order); a batch of
ACL entries is one call; a listener is gone when the request to delete it returns,
although the cloud takes it away later: what could meet it, the deletion of its server
groups, is repeated while they are in use; what happens to the servers of a group after
its creation is `AlbServers`.

## 9. Disagreements between the code and what is said of it

Two runs show one each; `PROJECT.json` quotes the line:

* `node_labels`: `nodeLabelsChanged` compares the number of labels and the values under
  the old keys, "no need for reverse compare"; a label with an empty value that gives
  way to another goes unnoticed, and the node stays out of the group.
* `ingress_restart`: after a restart a pass may load a group before the handlers have
  filled the store, and take away the rules of Ingresses it does not know yet.

More are shown by the same modules under other constants or with a stronger property:

| module | change | refuted | what happens |
|---|---|---|---|
| `MCNlb` | `Edit <- RevertEdit` | `QuiescentInSync` | the hash label survives a cleanup that stopped half-way; a Service switched back is taken for unchanged and gets no load balancer |
| `MCNlb` | `Edit <- RevertEdit` | `FinalizerGuards` | `RemoveFinalizers` acts on a newer object than the decision; a load balancer exists without a finalizer |
| `MCNlb` | `Edit <- OffEdit`, no faults | `Converges` | the filter ignores a Service that got the finalizer but was never seen as an NLB Service; its deletion is not processed |
| `MCAlbServers` | `QuietInSync` without its exception | `QuietInSync` | any of the four doubts of section 4 ends with other servers than the backends |
| `NlbServers` | `QuietInSync` without `~missed` | `QuietInSync` | a node that is only tainted stays in the group; a virtual node marked exclude that is cordoned is not noticed |
| `AlbListeners` | `AclInForce` with "exactly" for entries | `QuietInSync` | access control that goes from IDs to entries leaves the lists by ID on the listener |
| `MCAlbServers` | property `GatesOpen` | `GatesOpen` | gates are opened only by a pass that has something to add |
| `MCAlbLoadBalancer` | two AlbConfigs, `InitSpec <- ClaimInit` | `ClaimHonoured` | two AlbConfigs that name one ALB both take it: tags are checked and then written |
| `MCAlbIngress` | `Start <- OneIngress`, `Edit <- BackAndForth` | `QuietInSync` | an edit taken back while its pass runs carries the old label and is dropped |
| `MCAlbIngress` | property `AddressComes` | `AddressComes` | an Ingress edited while its first pass runs may end without an address: the status update is refused, the label is written from the newer copy, and the event of the edit is passed over |
| `MCAlbListeners` | `Config <- MCRetyped`, `Reused = {}` | `AclsInForce` | an ACL whose type changes is associated and then dissociated |
| `MCAlbListeners` | `Config <- MCDouble`, `Start <- Double`, 2 faults | `ServersRegistered` | two groups created in one pass share an error variable; the second is not rolled back and stays empty |

Also met while modelling: a listener listed as one's own may be another Service's by
the time it is deleted; a server group created but not tagged is never found again; an
NLB Service moved to another class keeps its load balancer; the check that a Service is
not moved to another load balancer reads a status that may be stale; a server that is
being removed counts as matched; events and data of `syncServers` come from two
unordered informers; the update handler of IngressClasses compares an object with
itself; an Ingress deleted while the controller is down leaves its rules; several maps
are shared by workers without a lock; a listener whose protocol changes is created
before the old one is deleted; the instance cache outlives a node replaced under the
same address; the first pass over a reused ALB leaves its IPv6 address type.

## 10. Plan

Done: all modules above; proofs for all of them, the refinement of `IngressRouting`
included.  To come, most important first:

1. `AlbServers` composed with the creation of its group in `AlbListeners`.
2. The conditions, actions and canary weights of a rule, and the conversion of rules to
   and from the SDK, against reference definitions.

## 11. Not modelled, and only model-checked

Liveness under fairness (`Converges` of every module) is out of the prover's reach and
stays with TLC.  Wrappers of single SDK calls,
credentials and metadata, dry run and mocks, API types and start-up have no state of
their own worth a model; the resource stack is built and traversed by one goroutine
within a pass, and its order is the order of the appliers.  Shutdown of the queues,
console services (a Service bound to an existing server group), the flow control of
`Promise` (a map without a lock) and the node backends of an ALB group, which follow
the rules of `NlbServers`, are not modelled.
