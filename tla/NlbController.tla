--------------------------- MODULE NlbController ---------------------------
(***************************************************************************)
(* The NLB service controller: the Service event handler, the work queue,  *)
(* and ReconcileNLB.reconcile walking one Service through finalizer, load  *)
(* balancer, server groups, listeners, group cleanup, labels and status,   *)
(* one action per call to the API server or to the cloud.  Any call may    *)
(* fail, the process may restart between any two calls, the user edits and *)
(* deletes Services at any time, and reads of Services come from an        *)
(* informer cache that trails the API server by the watch events that were *)
(* not delivered yet.                                                      *)
(***************************************************************************)
EXTENDS NlbModel, Sequences

CONSTANTS
  MaxFaults,  \* failed calls and restarts per behaviour
  MaxEdits    \* user actions per behaviour

ASSUME BoundsAssumption == MaxFaults \in Nat /\ MaxEdits \in Nat

VARIABLES
  api,     \* Services as the API server stores them
  watch,   \* versions of each Service the informer has still to deliver
  cache,   \* Services as the informer cache of the controller shows them
  eps,     \* ready backends of each Service (Endpoints and Nodes)
  queue,   \* keys waiting in the work queue
  nlb,     \* the cloud's load balancers
  grp,     \* the cloud's server groups
  lis,     \* the cloud's listeners, per load balancer and port
  pc,      \* next call of the worker that holds the Service's key
  ctx,     \* what that worker has read and computed so far
  faults,  \* failures so far
  edits    \* user actions so far

kube  == <<api, watch, cache, eps>>
cloud == <<nlb, grp, lis>>
vars  == <<api, watch, cache, eps, queue, nlb, grp, lis, pc, ctx, faults, edits>>

PC == {"idle", "finalizer", "find", "lbattr", "taglb", "groups", "vgroups",
       "taggroup", "addservers", "listeners", "dellis", "putlis", "cleanup",
       "addlabels", "addstatus", "rmlabels", "rmstatus", "rmfinalizer"}

(***************************************************************************)
(* The request context and the local and remote models of one pass.        *)
(*   clean  which of the two branches of reconcile was taken               *)
(*   obj    reqCtx.Service                                                 *)
(*   eps    the backends the local model was built with                    *)
(*   lb     remote.LoadBalancerAttribute.LoadBalancerId                    *)
(*   sgs    remote.ServerGroups                                            *)
(*   bind   local.ServerGroups[p].ServerGroupId                            *)
(*   seen   ports of remote.Listeners                                      *)
(*   todo   ports the loop at hand has still to visit                      *)
(***************************************************************************)
Ctx == [clean : BOOLEAN, obj : Object \cup {None}, eps : Backends \cup {None},
        lb : LB \cup {None}, sgs : SUBSET Group,
        bind : [Port -> Group \cup {None}], seen : SUBSET Port,
        todo : SUBSET Port]

FreshCtx == [clean |-> FALSE, obj |-> None, eps |-> None, lb |-> None,
             sgs |-> {}, bind |-> [p \in Port |-> None], seen |-> {},
             todo |-> {}]

\* Every variable has its type: objects, the locals of a pass, the cloud.
TypeOK ==
  /\ api \in [Service -> Object]
  /\ watch \in [Service -> Seq(Object)]
  /\ cache \in [Service -> Object]
  /\ eps \in [Service -> Backends]
  /\ queue \subseteq Service
  /\ nlb \in [LB -> Nlb]
  /\ grp \in [Group -> ServerGroup]
  /\ lis \in [LB -> [Port -> Listener \cup {None}]]
  /\ pc \in [Service -> PC]
  /\ ctx \in [Service -> Ctx]
  /\ faults \in 0..MaxFaults
  /\ edits \in 0..MaxEdits

Init ==
  /\ \E sp \in InitSpec :
       api = [s \in Service |->
                [exists |-> TRUE, spec |-> sp[s], deleting |-> FALSE,
                 finalizer |-> FALSE, hash |-> None, host |-> None]]
  /\ watch = [s \in Service |-> << >>]
  /\ cache = api
  /\ eps \in [Service -> Backends]
  /\ queue = {s \in Service : needAdd(api[s])}
  /\ nlb = [l \in LB |-> IF l \in UserLB
                         THEN [FreshNlb EXCEPT !.live = TRUE, !.by = User]
                         ELSE FreshNlb]
  /\ grp = [g \in Group |-> FreshGroup]
  /\ lis = [l \in LB |-> [p \in Port |->
              IF l \in UserLB /\ p \in UserPort
              THEN [by |-> User, group |-> None, going |-> FALSE] ELSE None]]
  /\ pc = [s \in Service |-> "idle"]
  /\ ctx = [s \in Service |-> FreshCtx]
  /\ faults = 0
  /\ edits = 0
-----------------------------------------------------------------------------
(***************************************************************************)
(* How a pass moves on and how it ends.  The work queue re-adds a key      *)
(* whose reconcile returned an error.                                      *)
(***************************************************************************)
Goto(s, to) == pc' = [pc EXCEPT ![s] = to]

Learn(s, c) == ctx' = [ctx EXCEPT ![s] = c]

Return(s) ==
  /\ Goto(s, "idle")
  /\ Learn(s, FreshCtx)
  /\ UNCHANGED queue

\* Faulty variant: the error is swallowed and the key forgotten.
ReturnError_Swallowed(s) == Return(s)

ReturnError(s) ==
  /\ Goto(s, "idle")
  /\ Learn(s, FreshCtx)
  /\ queue' = queue \cup {s}

obj(s) == ctx[s].obj

\* The API server stores a new version of s; one that changes nothing is none.
Write(s, o) ==
  /\ api' = [api EXCEPT ![s] = o]
  /\ watch' = IF o = api[s] THEN watch ELSE [watch EXCEPT ![s] = Append(@, o)]

\* The cache shows the version the API server has: an optimistic lock holds.
UpToDate(s) == watch[s] = << >>

(***************************************************************************)
(* The environment: the user, the informers, failing calls, restarts.      *)
(***************************************************************************)
EditService(s) ==
  /\ edits < MaxEdits
  /\ api[s].exists /\ ~api[s].deleting
  /\ \E sp \in Spec : /\ <<api[s].spec, sp>> \in Edit
                      /\ Write(s, [api[s] EXCEPT !.spec = sp])
  /\ edits' = edits + 1
  /\ UNCHANGED <<cache, eps, queue, cloud, pc, ctx, faults>>

DeleteService(s) ==
  /\ edits < MaxEdits
  /\ api[s].exists /\ ~api[s].deleting
  /\ Write(s, IF api[s].finalizer THEN [api[s] EXCEPT !.deleting = TRUE]
                                  ELSE [api[s] EXCEPT !.exists = FALSE])
  /\ edits' = edits + 1
  /\ UNCHANGED <<cache, eps, queue, cloud, pc, ctx, faults>>

\* The user deletes a load balancer, theirs or the controller's, by hand.
ConsoleDeleteNLB(l) ==
  /\ edits < MaxEdits
  /\ l \in Deletable /\ nlb[l].live
  /\ nlb' = [nlb EXCEPT ![l] =
               [nlb[l] EXCEPT !.live = FALSE, !.going = FALSE,
                              !.by = IF l \in UserLB THEN None ELSE nlb[l].by]]
  /\ lis' = [lis EXCEPT ![l] = [p \in Port |-> None]]
  /\ edits' = edits + 1
  /\ UNCHANGED <<kube, queue, grp, pc, ctx, faults>>

(***************************************************************************)
(* Endpoints or Nodes change: the handlers enqueue the Services that need  *)
(* a load balancer according to the cache.                                 *)
(***************************************************************************)
BackendsChange(s) ==
  /\ edits < MaxEdits
  /\ \E b \in Backends \ {eps[s]} : eps' = [eps EXCEPT ![s] = b]
  /\ queue' = IF cache[s].exists /\ NeedNLB(cache[s])
              THEN queue \cup {s} ELSE queue
  /\ edits' = edits + 1
  /\ UNCHANGED <<api, watch, cache, cloud, pc, ctx, faults>>

\* The informer delivers a version; the handler's Delete ignores the event.
ServiceEvent(s) ==
  /\ watch[s] # << >>
  /\ cache' = [cache EXCEPT ![s] = Head(watch[s])]
  /\ watch' = [watch EXCEPT ![s] = Tail(@)]
  /\ queue' = IF cache'[s].exists /\ needUpdate(cache[s], cache'[s])
              THEN queue \cup {s} ELSE queue
  /\ UNCHANGED <<api, eps, cloud, pc, ctx, faults, edits>>

\* The call at hand fails without effect, or the model cannot be built.
CallFails(s) ==
  /\ pc[s] # "idle" /\ faults < MaxFaults
  /\ ReturnError(s)
  /\ faults' = faults + 1
  /\ UNCHANGED <<kube, cloud, edits>>

\* The process dies; at start every Service is listed as a create event.
Restart ==
  /\ faults < MaxFaults
  /\ \E s \in Service : pc[s] # "idle"
  /\ pc' = [s \in Service |-> "idle"]
  /\ ctx' = [s \in Service |-> FreshCtx]
  /\ cache' = api
  /\ watch' = [s \in Service |-> << >>]
  /\ queue' = {s \in Service : api[s].exists /\ needAdd(api[s])}
  /\ faults' = faults + 1
  /\ UNCHANGED <<api, eps, cloud, edits>>

(***************************************************************************)
(* Deletions that the controller has stopped to wait for come to their     *)
(* end, if they ever do.                                                   *)
(***************************************************************************)
NLBJobEnds(l) ==
  /\ nlb[l].live /\ nlb[l].going
  /\ nlb' = [nlb EXCEPT ![l].live = FALSE, ![l].going = FALSE]
  /\ lis' = [lis EXCEPT ![l] = [p \in Port |-> None]]
  /\ UNCHANGED <<kube, queue, grp, pc, ctx, faults, edits>>

ListenerJobEnds(l, p) ==
  /\ lis[l][p] # None /\ lis[l][p].going
  /\ lis' = [lis EXCEPT ![l][p] = None]
  /\ UNCHANGED <<kube, queue, nlb, grp, pc, ctx, faults, edits>>

JobEnds == \E l \in LB : NLBJobEnds(l) \/ \E p \in Port : ListenerJobEnds(l, p)
-----------------------------------------------------------------------------
(***************************************************************************)
(* reconcile: read the Service from the cache and take one of two ways.    *)
(***************************************************************************)
ReconcileSkip(s) ==
  /\ s \in queue /\ pc[s] = "idle"
  /\ ~cache[s].exists \/ (NeedDeleteLoadBalancer(cache[s]) /\ ~cache[s].finalizer)
  /\ queue' = queue \ {s}
  /\ UNCHANGED <<kube, cloud, pc, ctx, faults, edits>>

ReconcileStart(s) ==
  /\ s \in queue /\ pc[s] = "idle"
  /\ cache[s].exists
  /\ NeedDeleteLoadBalancer(cache[s]) => cache[s].finalizer
  /\ queue' = queue \ {s}
  /\ Learn(s, [ctx[s] EXCEPT !.clean = NeedDeleteLoadBalancer(cache[s]),
                             !.obj = cache[s]])
  /\ Goto(s, IF NeedDeleteLoadBalancer(cache[s]) THEN "find" ELSE "finalizer")
  /\ UNCHANGED <<kube, cloud, faults, edits>>

(***************************************************************************)
(* AddFinalizers: re-read the Service, patch it under optimistic lock,     *)
(* retry on conflict a bounded number of times.  The API server refuses a  *)
(* new finalizer on an object that is being deleted.                       *)
(***************************************************************************)
AddFinalizersHas(s) ==
  /\ pc[s] = "finalizer"
  /\ cache[s].exists /\ cache[s].finalizer
  /\ Learn(s, [ctx[s] EXCEPT !.obj = cache[s]])
  /\ Goto(s, "find")
  /\ UNCHANGED <<kube, queue, cloud, faults, edits>>

AddFinalizersPatch(s) ==
  /\ pc[s] = "finalizer"
  /\ cache[s].exists /\ ~cache[s].finalizer
  /\ UpToDate(s) /\ ~api[s].deleting
  /\ Write(s, [api[s] EXCEPT !.finalizer = TRUE])
  /\ Learn(s, [ctx[s] EXCEPT !.obj = api'[s]])
  /\ Goto(s, "find")
  /\ UNCHANGED <<cache, eps, queue, cloud, faults, edits>>

AddFinalizersError(s) ==
  /\ pc[s] = "finalizer"
  /\ \/ ~cache[s].exists
     \/ ~cache[s].finalizer /\ (~UpToDate(s) \/ api[s].deleting)
  /\ ReturnError(s)
  /\ UNCHANGED <<kube, cloud, faults, edits>>

(***************************************************************************)
(* BuildModel takes the backends of the moment; FindNLB looks the load     *)
(* balancer up by id, else by tag, else by default name.                   *)
(***************************************************************************)
Live(l) == nlb[l].live

\* Faulty variant: no lookup by name when the tag finds nothing.
Candidates_TagOnly(s) ==
  IF IsUserManaged(obj(s)) THEN {l \in LB : Live(l) /\ l = obj(s).spec.id}
                           ELSE {l \in LB : Live(l) /\ nlb[l].tag = s}

Candidates(s) ==
  LET byTag  == {l \in LB : Live(l) /\ nlb[l].tag = s}
      byName == {l \in LB : Live(l) /\ nlb[l].name = s}
  IN  CASE IsUserManaged(obj(s)) -> {l \in LB : Live(l) /\ l = obj(s).spec.id}
        [] ~IsUserManaged(obj(s)) /\ byTag # {} -> byTag
        [] OTHER -> byName

AfterFind(o) == IF IsServiceHashChanged(o) THEN "lbattr" ELSE "groups"

FindNLB(s) ==
  /\ pc[s] = "find"
  /\ \/ \E l \in LB : /\ Candidates(s) = {l}
                      /\ Learn(s, [ctx[s] EXCEPT !.lb = l, !.eps = eps[s]])
     \/ /\ Candidates(s) = {} /\ ~IsUserManaged(obj(s))
        /\ Learn(s, [ctx[s] EXCEPT !.lb = None, !.eps = eps[s]])
  /\ Goto(s, AfterFind(obj(s)))
  /\ UNCHANGED <<kube, queue, cloud, faults, edits>>

\* A reused load balancer that is gone fails a sync; a cleanup carries on.
FindNLBGone(s) ==
  /\ pc[s] = "find"
  /\ Candidates(s) = {} /\ IsUserManaged(obj(s))
  /\ IF ctx[s].clean
     THEN Goto(s, "rmlabels") /\ UNCHANGED <<queue, ctx>>
     ELSE ReturnError(s)
  /\ UNCHANGED <<kube, cloud, faults, edits>>
-----------------------------------------------------------------------------
(***************************************************************************)
(* applyLoadBalancerAttribute                                              *)
(***************************************************************************)
\* Faulty variant: whatever was found is deleted.
SkipDelete_IfNone(s) == ctx[s].lb = None

\* Nothing to delete, or the load balancer is reused.
SkipDelete(s) == IsUserManaged(obj(s)) \/ ctx[s].lb = None

CanDeleteNLB(s) ==
  pc[s] = "lbattr" /\ NeedDeleteLoadBalancer(obj(s)) /\ ~SkipDelete(s)

\* The job of the deletion succeeds while waitJobFinish polls it.
DeleteNLB(s) ==
  LET l == ctx[s].lb IN
  /\ CanDeleteNLB(s)
  /\ nlb' = [nlb EXCEPT ![l].live = FALSE, ![l].going = FALSE]
  /\ lis' = [lis EXCEPT ![l] = [p \in Port |-> None]]
  /\ Learn(s, [ctx[s] EXCEPT !.lb = None])
  /\ Goto(s, "groups")
  /\ UNCHANGED <<kube, queue, grp, faults, edits>>

(***************************************************************************)
(* The deletion is accepted and the job does not succeed in time: the pass *)
(* goes on as if it had, or fails if the job could not be asked for.       *)
(***************************************************************************)
DeleteNLBUnfinished(s) ==
  /\ CanDeleteNLB(s) /\ faults < MaxFaults
  /\ nlb' = [nlb EXCEPT ![ctx[s].lb].going = TRUE]
  /\ \/ /\ Learn(s, [ctx[s] EXCEPT !.lb = None])
        /\ Goto(s, "groups")
        /\ UNCHANGED queue
     \/ ReturnError(s)
  /\ faults' = faults + 1
  /\ UNCHANGED <<kube, grp, lis, edits>>

DeleteNLBSkip(s) ==
  /\ pc[s] = "lbattr"
  /\ NeedDeleteLoadBalancer(obj(s)) /\ SkipDelete(s)
  /\ Goto(s, "groups")
  /\ UNCHANGED <<kube, queue, cloud, ctx, faults, edits>>

\* The status names a load balancer that cannot be found: never recreate it.
CreateNLBRefused(s) ==
  /\ pc[s] = "lbattr"
  /\ ~NeedDeleteLoadBalancer(obj(s)) /\ ctx[s].lb = None
  /\ obj(s).host # None
  /\ ReturnError(s)
  /\ UNCHANGED <<kube, cloud, faults, edits>>

FreeLB(l) == l \notin UserLB /\ nlb[l].by = None

NewNLB(s, l) ==
  nlb' = [nlb EXCEPT ![l] =
            [live |-> TRUE, by |-> s, tag |-> None,
             name |-> IF obj(s).spec.named THEN None ELSE s, going |-> FALSE]]

CanCreateNLB(s) ==
  /\ pc[s] = "lbattr"
  /\ ~NeedDeleteLoadBalancer(obj(s)) /\ ctx[s].lb = None
  /\ obj(s).host = None

CreateNLB(s) ==
  /\ CanCreateNLB(s)
  /\ \E l \in LB : /\ FreeLB(l)
                   /\ NewNLB(s, l)
                   /\ Learn(s, [ctx[s] EXCEPT !.lb = l])
  /\ Goto(s, "taglb")
  /\ UNCHANGED <<kube, queue, grp, lis, faults, edits>>

\* The load balancer was created but the answer got lost.
CreateNLBLost(s) ==
  /\ CanCreateNLB(s) /\ faults < MaxFaults
  /\ \E l \in LB : FreeLB(l) /\ NewNLB(s, l)
  /\ ReturnError(s)
  /\ faults' = faults + 1
  /\ UNCHANGED <<kube, grp, lis, edits>>

TagNLBResource(s) ==
  /\ pc[s] = "taglb"
  /\ nlb' = [nlb EXCEPT ![ctx[s].lb].tag = s]
  /\ Goto(s, "groups")
  /\ UNCHANGED <<kube, queue, grp, lis, ctx, faults, edits>>

Reusable(s) ==
  LET l == ctx[s].lb IN
  Live(l) /\ (IsUserManaged(obj(s)) => isNLBReusable(obj(s), l, nlb[l]))

\* Of the attributes Update writes only the name decides later lookups.
UpdateNLB(s) ==
  /\ pc[s] = "lbattr"
  /\ ~NeedDeleteLoadBalancer(obj(s)) /\ ctx[s].lb # None
  /\ Reusable(s)
  /\ nlb' = [nlb EXCEPT ![ctx[s].lb].name =
               IF obj(s).spec.named THEN None ELSE @]
  /\ Goto(s, "groups")
  /\ UNCHANGED <<kube, queue, grp, lis, ctx, faults, edits>>

UpdateNLBRefused(s) ==
  /\ pc[s] = "lbattr"
  /\ ~NeedDeleteLoadBalancer(obj(s)) /\ ctx[s].lb # None
  /\ ~Reusable(s)
  /\ ReturnError(s)
  /\ UNCHANGED <<kube, cloud, faults, edits>>
-----------------------------------------------------------------------------
(***************************************************************************)
(* applyVGroups.  The listing filters on two tags with OR (the comment at  *)
(* loadbalancer.go:72), so it returns the tagged groups of every Service.  *)
(***************************************************************************)
ListNLBServerGroups(s) ==
  /\ pc[s] = "groups"
  /\ Learn(s, [ctx[s] EXCEPT !.sgs = {g \in Group : grp[g].live /\ grp[g].tag # None},
                             !.todo = LocalPorts(obj(s))])
  /\ Goto(s, "vgroups")
  /\ UNCHANGED <<kube, queue, cloud, faults, edits>>

\* remote.ServerGroups with the name of port p of this Service
Named(s, p) == {g \in ctx[s].sgs : grp[g].svc = s /\ grp[g].port = p}

UpdateServerGroup(s, p) ==
  /\ pc[s] = "vgroups" /\ p \in ctx[s].todo
  /\ \E g \in Named(s, p) :
       /\ grp' = [grp EXCEPT ![g].servers = ctx[s].eps]
       /\ Learn(s, [ctx[s] EXCEPT !.bind[p] = g, !.todo = @ \ {p}])
  /\ UNCHANGED <<kube, queue, nlb, lis, pc, faults, edits>>

FreeGroup(g) == grp[g].svc = None

NewGroup(s, p, g) ==
  grp' = [grp EXCEPT ![g] = [live |-> TRUE, svc |-> s, port |-> p,
                             tag |-> None, servers |-> None]]

CreateNLBServerGroup(s, p) ==
  /\ pc[s] = "vgroups" /\ p \in ctx[s].todo
  /\ Named(s, p) = {}
  /\ \E g \in Group : /\ FreeGroup(g)
                      /\ NewGroup(s, p, g)
                      /\ Learn(s, [ctx[s] EXCEPT !.bind[p] = g])
  /\ Goto(s, "taggroup")
  /\ UNCHANGED <<kube, queue, nlb, lis, faults, edits>>

\* The group was created but waiting for it to leave "Creating" failed.
CreateNLBServerGroupLost(s, p) ==
  /\ pc[s] = "vgroups" /\ p \in ctx[s].todo /\ faults < MaxFaults
  /\ Named(s, p) = {}
  /\ \E g \in Group : FreeGroup(g) /\ NewGroup(s, p, g)
  /\ ReturnError(s)
  /\ faults' = faults + 1
  /\ UNCHANGED <<kube, nlb, lis, edits>>

TagServerGroup(s, p) ==
  /\ pc[s] = "taggroup" /\ p \in ctx[s].todo /\ ctx[s].bind[p] # None
  /\ grp' = [grp EXCEPT ![ctx[s].bind[p]].tag = s]
  /\ Goto(s, "addservers")
  /\ UNCHANGED <<kube, queue, nlb, lis, ctx, faults, edits>>

BatchAddServers(s, p) ==
  /\ pc[s] = "addservers" /\ p \in ctx[s].todo /\ ctx[s].bind[p] # None
  /\ grp' = [grp EXCEPT ![ctx[s].bind[p]].servers = ctx[s].eps]
  /\ Learn(s, [ctx[s] EXCEPT !.todo = @ \ {p}])
  /\ Goto(s, "vgroups")
  /\ UNCHANGED <<kube, queue, nlb, lis, faults, edits>>

(***************************************************************************)
(* The job of an update or of adding servers has not ended when the pass   *)
(* goes on.  What such a job leaves in the group is told in NlbServers.    *)
(***************************************************************************)
ServersUnfinished(s, p) ==
  /\ faults < MaxFaults /\ p \in ctx[s].todo
  /\ \E g \in Group :
       /\ \/ pc[s] = "vgroups" /\ g \in Named(s, p)
          \/ pc[s] = "addservers" /\ g = ctx[s].bind[p]
       /\ grp' = [grp EXCEPT ![g].servers = Unfinished]
       /\ Learn(s, [ctx[s] EXCEPT !.bind[p] = g, !.todo = @ \ {p}])
  /\ Goto(s, "vgroups")
  /\ faults' = faults + 1
  /\ UNCHANGED <<kube, queue, nlb, lis, edits>>

\* Listeners are looked at only when the hash label differs.
VGroupsApplied(s) ==
  /\ pc[s] = "vgroups" /\ ctx[s].todo = {}
  /\ Goto(s, IF IsServiceHashChanged(obj(s)) /\ ctx[s].lb # None
             THEN "listeners" ELSE "cleanup")
  /\ UNCHANGED <<kube, queue, cloud, ctx, faults, edits>>
-----------------------------------------------------------------------------
(***************************************************************************)
(* applyListeners: delete, then update or create.                          *)
(***************************************************************************)
Remote(s, p) == lis[ctx[s].lb][p]

\* Faulty variant: force-override-listeners is ignored.
SkipListeners_Never(o) == FALSE

SkipListeners(o) == IsUserManaged(o) /\ ~o.spec.override

\* Faulty variant: the listener's description is not looked at.
UnmatchedListeners_Any(s, ports) == ports \ LocalPorts(obj(s))

UnmatchedListeners(s, ports) ==
  {p \in ports \ LocalPorts(obj(s)) :
      IsUserManaged(obj(s)) => Remote(s, p).by = s}

ListNLBListeners(s) ==
  /\ pc[s] = "listeners"
  /\ IF SkipListeners(obj(s))
     THEN Goto(s, "cleanup") /\ UNCHANGED ctx
     ELSE LET ports == {p \in Port : Remote(s, p) # None} IN
          /\ Learn(s, [ctx[s] EXCEPT !.seen = ports,
                                     !.todo = UnmatchedListeners(s, ports)])
          /\ Goto(s, "dellis")
  /\ UNCHANGED <<kube, queue, cloud, faults, edits>>

PutListener(s, p, e) == lis' = [lis EXCEPT ![ctx[s].lb][p] = e]

DeleteNLBListener(s, p) ==
  /\ pc[s] = "dellis" /\ p \in ctx[s].todo
  /\ IF Remote(s, p) # None
     THEN /\ PutListener(s, p, None)
          /\ Learn(s, [ctx[s] EXCEPT !.todo = @ \ {p}])
          /\ UNCHANGED <<pc, queue>>
     ELSE ReturnError(s) /\ UNCHANGED lis
  /\ UNCHANGED <<kube, nlb, grp, faults, edits>>

\* As DeleteNLBUnfinished, for a listener.
DeleteNLBListenerUnfinished(s, p) ==
  /\ pc[s] = "dellis" /\ p \in ctx[s].todo
  /\ Remote(s, p) # None /\ faults < MaxFaults
  /\ PutListener(s, p, [Remote(s, p) EXCEPT !.going = TRUE])
  /\ \/ /\ Learn(s, [ctx[s] EXCEPT !.todo = @ \ {p}])
        /\ UNCHANGED <<pc, queue>>
     \/ ReturnError(s)
  /\ faults' = faults + 1
  /\ UNCHANGED <<kube, nlb, grp, edits>>

ListenersDeleted(s) ==
  /\ pc[s] = "dellis" /\ ctx[s].todo = {}
  /\ Learn(s, [ctx[s] EXCEPT !.todo = LocalPorts(obj(s))])
  /\ Goto(s, "putlis")
  /\ UNCHANGED <<kube, queue, cloud, faults, edits>>

Desired(s, p) == [by |-> s, group |-> ctx[s].bind[p], going |-> FALSE]

\* A port seen in the listing is updated, any other one is created.  The cloud
\* lets a listener be updated only when it is not, or no longer, being deleted.
CanPutListener(s, p) ==
  IF p \in ctx[s].seen THEN Remote(s, p) # None
                       ELSE Remote(s, p) = None /\ Live(ctx[s].lb)

UpdateOrCreateNLBListener(s, p) ==
  /\ pc[s] = "putlis" /\ p \in ctx[s].todo
  /\ IF CanPutListener(s, p)
     THEN /\ PutListener(s, p, Desired(s, p))
          /\ Learn(s, [ctx[s] EXCEPT !.todo = @ \ {p}])
          /\ UNCHANGED <<pc, queue>>
     ELSE ReturnError(s) /\ UNCHANGED lis
  /\ UNCHANGED <<kube, nlb, grp, faults, edits>>

ListenersApplied(s) ==
  /\ pc[s] = "putlis" /\ ctx[s].todo = {}
  /\ Goto(s, "cleanup")
  /\ UNCHANGED <<kube, queue, cloud, ctx, faults, edits>>

(***************************************************************************)
(* cleanup: delete the groups named after this Service that the local      *)
(* model does not use.                                                     *)
(***************************************************************************)
Bound(s, g) == \E p \in Port : ctx[s].bind[p] = g

\* Faulty variants: groups in use are deleted; a cleanup keeps its groups.
UnusedGroups_All(s) == {g \in ctx[s].sgs : grp[g].svc = s}
UnusedGroups_Kept(s) ==
  {g \in ctx[s].sgs : grp[g].svc = s /\ ~Bound(s, g) /\ ~ctx[s].clean}

UnusedGroups(s) ==
  {g \in ctx[s].sgs : grp[g].svc = s /\ ~Bound(s, g)}

DeleteServerGroup(s) ==
  /\ pc[s] = "cleanup"
  /\ \E g \in UnusedGroups(s) :
       /\ grp' = [grp EXCEPT ![g].live = FALSE]
       /\ Learn(s, [ctx[s] EXCEPT !.sgs = @ \ {g}])
  /\ UNCHANGED <<kube, queue, nlb, lis, pc, faults, edits>>

CleanupDone(s) ==
  /\ pc[s] = "cleanup" /\ UnusedGroups(s) = {}
  /\ Goto(s, IF ctx[s].clean THEN "rmlabels" ELSE "addlabels")
  /\ UNCHANGED <<kube, queue, cloud, ctx, faults, edits>>
-----------------------------------------------------------------------------
(***************************************************************************)
(* The end of a sync: hash label, then status.  Both are merge patches     *)
(* without optimistic lock; only what differs from the base is sent.       *)
(***************************************************************************)
addServiceLabels(s) ==
  /\ pc[s] = "addlabels"
  /\ IF api[s].exists
     THEN /\ Write(s, [api[s] EXCEPT !.hash =
                         IF IsServiceHashChanged(obj(s))
                         THEN GetServiceHash(obj(s)) ELSE @])
          /\ Goto(s, "addstatus")
          /\ UNCHANGED <<ctx, queue>>
     ELSE ReturnError(s) /\ UNCHANGED <<api, watch>>
  /\ UNCHANGED <<cache, eps, cloud, faults, edits>>

NewHost(s) == IF ctx[s].lb = None THEN BlankHost ELSE ctx[s].lb

updateServiceStatus(s) ==
  /\ pc[s] = "addstatus"
  /\ IF obj(s).host = NewHost(s)
     THEN Return(s) /\ UNCHANGED <<api, watch>>
     ELSE IF ~cache[s].exists
     THEN ReturnError(s) /\ UNCHANGED <<api, watch>>
     ELSE /\ Write(s, [api[s] EXCEPT !.host =
                         IF api[s].exists /\ cache[s].host # NewHost(s)
                         THEN NewHost(s) ELSE @])
          /\ Return(s)
  /\ UNCHANGED <<cache, eps, cloud, faults, edits>>

(***************************************************************************)
(* The end of a cleanup: labels, status, finalizer.                        *)
(***************************************************************************)
removeServiceLabels(s) ==
  /\ pc[s] = "rmlabels"
  /\ IF obj(s).hash = None \/ api[s].exists
     THEN /\ Write(s, [api[s] EXCEPT !.hash =
                         IF obj(s).hash = None THEN @ ELSE None])
          /\ Goto(s, "rmstatus")
          /\ UNCHANGED <<ctx, queue>>
     ELSE ReturnError(s) /\ UNCHANGED <<api, watch>>
  /\ UNCHANGED <<cache, eps, cloud, faults, edits>>

\* A Service that is gone from the cache or the API server is no error here.
removeServiceStatus(s) ==
  /\ pc[s] = "rmstatus"
  /\ Write(s, [api[s] EXCEPT !.host =
                 IF /\ obj(s).host # None /\ api[s].exists
                    /\ cache[s].exists /\ cache[s].host # None
                 THEN None ELSE @])
  /\ Goto(s, "rmfinalizer")
  /\ UNCHANGED <<cache, eps, queue, cloud, ctx, faults, edits>>

(***************************************************************************)
(* RemoveFinalizers re-reads the Service and patches it under optimistic   *)
(* lock; it does not ask again whether the Service needs a load balancer.  *)
(* The API server drops a deleting object with its last finalizer.         *)
(***************************************************************************)
RemoveFinalizersHasNot(s) ==
  /\ pc[s] = "rmfinalizer"
  /\ cache[s].exists /\ ~cache[s].finalizer
  /\ Return(s)
  /\ UNCHANGED <<kube, cloud, faults, edits>>

RemoveFinalizersPatch(s) ==
  /\ pc[s] = "rmfinalizer"
  /\ cache[s].exists /\ cache[s].finalizer
  /\ UpToDate(s)
  /\ Write(s, [api[s] EXCEPT !.finalizer = FALSE, !.exists = ~api[s].deleting])
  /\ Return(s)
  /\ UNCHANGED <<cache, eps, cloud, faults, edits>>

\* The patch was applied but the answer got lost: the pass is retried, maybe
\* from a cache that still shows the finalizer.
RemoveFinalizersLost(s) ==
  /\ pc[s] = "rmfinalizer" /\ faults < MaxFaults
  /\ cache[s].exists /\ cache[s].finalizer
  /\ UpToDate(s)
  /\ Write(s, [api[s] EXCEPT !.finalizer = FALSE, !.exists = ~api[s].deleting])
  /\ ReturnError(s)
  /\ faults' = faults + 1
  /\ UNCHANGED <<cache, eps, cloud, edits>>

RemoveFinalizersError(s) ==
  /\ pc[s] = "rmfinalizer"
  /\ \/ ~cache[s].exists
     \/ cache[s].finalizer /\ ~UpToDate(s)
  /\ ReturnError(s)
  /\ UNCHANGED <<kube, cloud, faults, edits>>
-----------------------------------------------------------------------------
FinalizerStep(s) ==
  \/ AddFinalizersHas(s) \/ AddFinalizersPatch(s) \/ AddFinalizersError(s)
  \/ RemoveFinalizersHasNot(s) \/ RemoveFinalizersPatch(s)
  \/ RemoveFinalizersError(s)

LoadBalancerStep(s) ==
  \/ FindNLB(s) \/ FindNLBGone(s)
  \/ DeleteNLB(s) \/ DeleteNLBSkip(s)
  \/ CreateNLBRefused(s) \/ CreateNLB(s) \/ TagNLBResource(s)
  \/ UpdateNLB(s) \/ UpdateNLBRefused(s)

GroupStep(s) ==
  \/ ListNLBServerGroups(s) \/ VGroupsApplied(s)
  \/ \E p \in Port : \/ UpdateServerGroup(s, p) \/ CreateNLBServerGroup(s, p)
                     \/ TagServerGroup(s, p) \/ BatchAddServers(s, p)
  \/ DeleteServerGroup(s) \/ CleanupDone(s)

ListenerStep(s) ==
  \/ ListNLBListeners(s) \/ ListenersDeleted(s) \/ ListenersApplied(s)
  \/ \E p \in Port : \/ DeleteNLBListener(s, p)
                     \/ UpdateOrCreateNLBListener(s, p)

StatusStep(s) ==
  \/ addServiceLabels(s) \/ updateServiceStatus(s)
  \/ removeServiceLabels(s) \/ removeServiceStatus(s)

Worker(s) ==
  \/ ReconcileSkip(s) \/ ReconcileStart(s)
  \/ FinalizerStep(s) \/ LoadBalancerStep(s) \/ GroupStep(s)
  \/ ListenerStep(s) \/ StatusStep(s)

Faulty(s) ==
  \/ CallFails(s) \/ CreateNLBLost(s) \/ RemoveFinalizersLost(s)
  \/ DeleteNLBUnfinished(s)
  \/ \E p \in Port : \/ CreateNLBServerGroupLost(s, p) \/ ServersUnfinished(s, p)
                     \/ DeleteNLBListenerUnfinished(s, p)

UserAction ==
  \/ \E s \in Service : EditService(s) \/ DeleteService(s) \/ BackendsChange(s)
  \/ \E l \in LB : ConsoleDeleteNLB(l)

Next ==
  \/ \E s \in Service : Worker(s) \/ ServiceEvent(s) \/ Faulty(s)
  \/ Restart
  \/ UserAction
  \/ JobEnds

Behaviour == Init /\ [][Next]_vars

(***************************************************************************)
(* controller-runtime hands every queued key to a worker, a worker keeps   *)
(* going, and the watch delivers: weak fairness of the worker and of the   *)
(* informer.  Users, failures and restarts are not fair.                   *)
(***************************************************************************)
FairBehaviour ==
  Behaviour /\ \A s \in Service : WF_vars(Worker(s)) /\ WF_vars(ServiceEvent(s))
-----------------------------------------------------------------------------
(***************************************************************************)
(* Properties.                                                             *)
(***************************************************************************)
\* Nothing is pending for s: no key, no pass, no event.
Settled(s) == pc[s] = "idle" /\ s \notin queue /\ UpToDate(s)

\* The next FindNLB without a loadbalancer-id annotation would return l for s.
Findable(s, l) == nlb[l].live /\ (nlb[l].tag = s \/ nlb[l].name = s)

(***************************************************************************)
(* The controller never deletes a load balancer the user created, nor asks *)
(* the cloud to: reusing one through the loadbalancer-id annotation keeps  *)
(* it out of applyLoadBalancerAttribute's delete branch, whatever edits,   *)
(* failures and restarts come between the lookup and the call.             *)
(***************************************************************************)
UserNLBKept ==
  \A l \in UserLB : /\ nlb[l].by = User => nlb[l].live
                    /\ ~nlb[l].going

(***************************************************************************)
(* A lost answer to CreateLoadBalancer, a failed tagging or a restart in   *)
(* between never makes a later pass create a second load balancer: the     *)
(* lookup by tag and then by default name finds the first one.  Without it *)
(* findNLBByTag and findNLBByName fail with "find multiple loadbalances".  *)
(***************************************************************************)
AtMostOneNLB ==
  \A s \in Service : \A k, l \in LB :
    nlb[k].live /\ nlb[l].live /\ nlb[k].by = s /\ nlb[l].by = s => k = l

(***************************************************************************)
(* The Service event handler ignores delete events because Services have   *)
(* the finalizer: as long as a load balancer or a tagged server group of s *)
(* is alive in the cloud, s exists and carries the NLB finalizer.  Only a  *)
(* load balancer whose deletion the cloud has accepted may be alive still: *)
(* waitJobFinish gives up on the job and the pass takes the finalizer off. *)
(***************************************************************************)
FinalizerGuards ==
  \A s \in Service :
    \/ \E l \in LB : Findable(s, l) /\ ~nlb[l].going
    \/ \E g \in Group : grp[g].live /\ grp[g].tag = s
    => api[s].exists /\ api[s].finalizer

(***************************************************************************)
(* The order of Apply (groups, then listeners, then deletion of unused     *)
(* groups) never leaves a listener of s forwarding to a deleted group,     *)
(* unless the cloud was asked to delete that listener, or its load         *)
(* balancer, and has not done so when the controller stops to wait.        *)
(***************************************************************************)
Going(l, p) == nlb[l].going \/ lis[l][p].going

NoDanglingListener ==
  \A l \in LB, p \in Port :
    lis[l][p] # None /\ lis[l][p].by \in Service /\ ~Going(l, p)
    => lis[l][p].group # None /\ grp[lis[l][p].group].live

\* The listener of s on port p of l forwards to the current backends of s.
Serves(s, l, p) ==
  LET e == lis[l][p] IN
  /\ e # None /\ e.by = s /\ e.group # None /\ ~e.going
  /\ \E b \in {eps[s], Unfinished} :
       grp[e.group] = [live |-> TRUE, svc |-> s, port |-> p, tag |-> s,
                       servers |-> b]

InSync(s) ==
  LET o == api[s]
      l == o.host
  IN  /\ l \in LB
      /\ IsUserManaged(o) => l = o.spec.id
      /\ nlb[l].live /\ ~SkipListeners(o) =>
           \A p \in Port : IF p \in o.spec.ports THEN Serves(s, l, p)
                           ELSE lis[l][p] # None => lis[l][p].by # s \/ lis[l][p].going

\* A Service for which the controller has to keep a load balancer.
Wanted(s) == api[s].exists /\ NeedNLB(api[s]) /\ ~api[s].deleting

\* No other Service claims a port of s on the load balancer they share.
Uncontested(s) ==
  \A r \in Service \ {s} :
    Wanted(r) /\ IsUserManaged(api[s]) /\ api[r].spec.id = api[s].spec.id
    => api[r].spec.ports \cap api[s].spec.ports = {}

(***************************************************************************)
(* Once nothing is pending for a Service that wants a load balancer, its   *)
(* status names one and the listeners and server groups in the cloud are   *)
(* the ones its spec and its endpoints ask for (unless the user deleted    *)
(* that load balancer).  A listener that is not asked for may be there     *)
(* only while it is being deleted, and a group may hold something else     *)
(* only if a job on it had not ended when the last pass went on.  A pass   *)
(* that stopped halfway, a skipped pass or a stale hash label would show   *)
(* here.                                                                   *)
(***************************************************************************)
QuiescentInSync ==
  \A s \in Service :
    Settled(s) /\ Wanted(s) /\ Uncontested(s) => InSync(s)

(***************************************************************************)
(* On a load balancer of the user's, a listener is changed or removed only *)
(* by a Service that forces the override of listeners, and then only if it *)
(* is that Service's own or on one of its ports.                           *)
(***************************************************************************)
MayTouch(s, l, p) ==
  /\ ctx[s].lb = l /\ obj(s).spec.override
  /\ lis[l][p].by = s \/ p \in obj(s).spec.ports

\* The job of an accepted deletion removes the listener on p of l.
Removed(l, p) == lis[l][p] # None /\ lis[l][p].going /\ lis'[l][p] = None

UserListenersKept ==
  [][\A l \in UserLB, p \in Port :
       lis[l][p] # None /\ lis'[l][p] # lis[l][p] /\ nlb'[l].live /\ ~Removed(l, p)
       => \E s \in Service : pc[s] \in {"dellis", "putlis"} /\ MayTouch(s, l, p)]_vars

(***************************************************************************)
(* force-override-listeners "false": the controller makes no change to the *)
(* listeners of a reused load balancer.  The annotation is read with the   *)
(* Service that the pass works on, when it gets to the listeners.          *)
(***************************************************************************)
OverrideRespected ==
  [][\A l \in UserLB :
       nlb'[l].live /\ (\E p \in Port : lis'[l][p] # lis[l][p] /\ ~Removed(l, p))
       => \E s \in Service : ctx[s].lb = l /\ obj(s).spec.override]_vars

(***************************************************************************)
(* When failures and users stop, the work for every Service comes to an    *)
(* end, and a Service the user deleted is gone from the API server.        *)
(***************************************************************************)
Converges ==
  <>[](\A s \in Service : Settled(s) /\ (api[s].deleting => ~api[s].exists))
-----------------------------------------------------------------------------
(***************************************************************************)
(* What a pass knows at each point: it has read a Service, it has looked a *)
(* load balancer up only after that, and it is at work on listeners only   *)
(* if the annotations of that Service allow it.                            *)
(***************************************************************************)
PassAt(at, c) ==
  /\ at # "idle" => c.obj \in Object
  /\ at \in {"idle", "finalizer", "find"} => c.lb = None
  /\ at = "taglb" => c.lb \in LB \ UserLB
  /\ at \in {"listeners", "dellis", "putlis"} => c.lb \in LB
  /\ at \in {"dellis", "putlis"} => ~SkipListeners(c.obj)
  /\ c.lb \in UserLB => IsUserManaged(c.obj)

PassesOK == \A s \in Service : PassAt(pc[s], ctx[s])

\* The tag and the default name of a Service are only ever written to load
\* balancers the controller created.
UserNLBUnmarked ==
  \A l \in UserLB : /\ nlb[l].tag = None /\ nlb[l].name = None
                    /\ nlb[l].by \in {User, None}

\* The inductive invariant behind UserNLBKept and OverrideRespected.
IInv == TypeOK /\ PassesOK /\ UserNLBUnmarked /\ UserNLBKept
=============================================================================
