-------------------------- MODULE NlbSafetyProofs --------------------------
(***************************************************************************)
(* Proofs about the order in which the NLB controller works: the finalizer *)
(* guards everything a Service has in the cloud, a Service never has two   *)
(* load balancers, no listener forwards to a deleted server group, the     *)
(* listeners a user put on a shared load balancer stay, and a Service that *)
(* is at rest is in sync with the cloud.                                   *)
(*                                                                         *)
(* Each of them rests on what a pass may conclude from a Service it read   *)
(* some time ago, so the proofs speak of the versions of a Service that    *)
(* are still around: the one a pass works on, the one in the cache, those  *)
(* on their way to the cache, and the one of the API server.               *)
(***************************************************************************)
EXTENDS NlbControllerProofs, SequenceTheorems

USE DEF kube, cloud

Off(o) == NeedDeleteLoadBalancer(o)

\* The versions of s that somebody may still act on.
Versions(s) ==
  {api[s], cache[s]} \cup {watch[s][i] : i \in DOMAIN watch[s]}
  \cup (IF pc[s] = "idle" THEN {} ELSE {ctx[s].obj})

\* The specs a Service may ever have.
UsedSpec ==
  (UNION {{f[s] : s \in Service} : f \in InitSpec}) \cup {e[2] : e \in Edit}

\* A relation between specs that no sequence of edits leaves.
Preorder(R) ==
  /\ Edit \subseteq R
  /\ \A a \in Spec : <<a, a>> \in R
  /\ \A a, b, c \in Spec : <<a, b>> \in R /\ <<b, c>> \in R => <<a, c>> \in R

\* The Service w may be a later version of v; the label h of an earlier one.
Upto(R, v, w) == <<v.spec, w.spec>> \in R /\ (v.deleting => w.deleting)
HashUpto(R, h, w) == <<h[1], w.spec>> \in R /\ (h[2] => w.deleting)

\* Versions q are on their way to a cache that shows c, oldest first.
Ordered(R, c, q) ==
  /\ \A i \in DOMAIN q : Upto(R, c, q[i])
  /\ \A i, j \in DOMAIN q : i <= j => Upto(R, q[i], q[j])

\* The last version on its way to the cache is the one of the API server.
Last(c, q) == IF q = << >> THEN c ELSE q[Len(q)]

(***************************************************************************)
(* What the versions of a Service have to do with each other, whatever the *)
(* user may do: they are versions of one object in the order they were     *)
(* written, and a hash label is no newer than what a pass now works on.    *)
(***************************************************************************)
Fresh == \A s \in Service : Last(cache[s], watch[s]) = api[s]

SpecsUsed == \A s \in Service : \A v \in Versions(s) : v.spec \in UsedSpec

Chain(R) ==
  \A s \in Service : /\ pc[s] # "idle" => Upto(R, obj(s), cache[s])
                     /\ Ordered(R, cache[s], watch[s])

Labels(R) ==
  \A s \in Service : \A v \in Versions(s) :
    v.hash # None => /\ HashUpto(R, v.hash, cache[s])
                     /\ pc[s] # "idle" => HashUpto(R, v.hash, obj(s))

VersionInv(R) == Fresh /\ SpecsUsed /\ Chain(R) /\ Labels(R)
-----------------------------------------------------------------------------
(***************************************************************************)
(* Sequences of versions.                                                  *)
(***************************************************************************)
\* A version is appended.
LEMMA Appended ==
  ASSUME NEW q \in Seq(Object), NEW o \in Object
  PROVE  /\ Append(q, o) \in Seq(Object) /\ Append(q, o) # << >>
         /\ Len(Append(q, o)) = Len(q) + 1 /\ Append(q, o)[Len(q) + 1] = o
         /\ \A i \in DOMAIN q : Append(q, o)[i] = q[i]
         /\ \A i \in DOMAIN Append(q, o) : i \in DOMAIN q \/ i = Len(q) + 1
         /\ \A i \in DOMAIN q : i \in Nat /\ i <= Len(q)
         /\ Len(q) \in Nat
  OBVIOUS

\* The oldest version is taken.
LEMMA Taken ==
  ASSUME NEW q \in Seq(Object), q # << >>
  PROVE  /\ Tail(q) \in Seq(Object) /\ Head(q) = q[1] /\ 1 \in DOMAIN q
         /\ \A i \in DOMAIN Tail(q) :
              i \in Nat /\ i + 1 \in DOMAIN q /\ Tail(q)[i] = q[i + 1]
         /\ Tail(q) = << >> => q[Len(q)] = q[1]
         /\ Tail(q) # << >> => Tail(q)[Len(Tail(q))] = q[Len(q)]
<1>1. /\ Tail(q) \in Seq(Object) /\ Head(q) = q[1] /\ 1 \in DOMAIN q
      /\ Len(q) \in Nat \ {0} /\ Len(Tail(q)) = Len(q) - 1
  OBVIOUS
<1>2. \A i \in DOMAIN Tail(q) : i \in 1..(Len(q) - 1) /\ Tail(q)[i] = q[i + 1]
  BY <1>1
<1>3. \A i \in DOMAIN Tail(q) :
        i \in Nat /\ i + 1 \in DOMAIN q /\ Tail(q)[i] = q[i + 1]
  BY <1>1, <1>2
<1>4. Tail(q) = << >> => Len(q) = 1
  <2>1. ASSUME Tail(q) = << >> PROVE Len(q) - 1 = 0
    BY <1>1, <2>1, EmptySeq
  <2>. QED BY <1>1, <2>1
<1>5. Tail(q) # << >> => Tail(q)[Len(Tail(q))] = q[Len(q)]
  BY <1>1
<1>. QED BY <1>1, <1>3, <1>4, <1>5

\* A version that follows the last one keeps the order.
LEMMA OrderedAppend ==
  ASSUME NEW R, Preorder(R), NEW c \in Object, NEW q \in Seq(Object),
         NEW o \in Object, Ordered(R, c, q), Upto(R, Last(c, q), o)
  PROVE  Ordered(R, c, Append(q, o)) /\ Last(c, Append(q, o)) = o
<1>0. /\ \A v \in Object : v.spec \in Spec
      /\ \A i \in DOMAIN q : q[i] \in Object
      /\ q # << >> => Len(q) \in DOMAIN q
  <2>1. \A v \in Object : v.spec \in Spec
    BY DEF Object
  <2>2. q # << >> => Len(q) \in Nat \ {0}
    BY EmptySeq
  <2>. QED BY <2>1, <2>2, LenProperties
<1>1. \A u, v, w \in Object : Upto(R, u, v) /\ Upto(R, v, w) => Upto(R, u, w)
  BY <1>0 DEF Upto, Preorder
<1>2. Upto(R, c, o) /\ \A i \in DOMAIN q : Upto(R, q[i], o)
  <2>1. CASE q = << >>
    BY <2>1 DEF Last
  <2>2. CASE q # << >>
    <3>1. Upto(R, q[Len(q)], o)
      BY <2>2 DEF Last
    <3>2. \A i \in DOMAIN q : Upto(R, q[i], q[Len(q)])
      BY <1>0, <2>2, Appended DEF Ordered
    <3>3. Upto(R, c, q[Len(q)])
      BY <1>0, <2>2 DEF Ordered
    <3>. QED BY <1>0, <1>1, <2>2, <3>1, <3>2, <3>3
  <2>. QED BY <2>1, <2>2
<1>3. Upto(R, o, o)
  BY <1>0 DEF Upto, Preorder
<1>. DEFINE a == Append(q, o)
<1>4. ASSUME NEW i \in DOMAIN a PROVE Upto(R, c, a[i])
  BY <1>2, Appended DEF Ordered
<1>5. ASSUME NEW i \in DOMAIN a, NEW j \in DOMAIN a, i <= j
      PROVE  Upto(R, a[i], a[j])
  <2>1. CASE j \in DOMAIN q
    <3>1. i \in DOMAIN q
      BY <1>5, <2>1, Appended
    <3>. QED BY <1>5, <2>1, <3>1, Appended DEF Ordered
  <2>2. CASE j \notin DOMAIN q
    BY <1>2, <1>3, <2>2, Appended
  <2>. QED BY <2>1, <2>2
<1>6. Last(c, a) = o
  BY Appended DEF Last
<1>. QED BY <1>4, <1>5, <1>6 DEF Ordered

\* The cache takes the oldest version.
LEMMA OrderedTail ==
  ASSUME NEW R, NEW c \in Object, NEW q \in Seq(Object), q # << >>,
         Ordered(R, c, q)
  PROVE  /\ Ordered(R, Head(q), Tail(q)) /\ Upto(R, c, Head(q))
         /\ Last(Head(q), Tail(q)) = Last(c, q)
<1>1. Upto(R, c, Head(q))
  BY Taken DEF Ordered
<1>2. \A i \in DOMAIN Tail(q) : Upto(R, Head(q), Tail(q)[i])
  BY Taken DEF Ordered
<1>3. \A i, j \in DOMAIN Tail(q) : i <= j => Upto(R, Tail(q)[i], Tail(q)[j])
  BY Taken DEF Ordered
<1>4. Last(Head(q), Tail(q)) = Last(c, q)
  BY Taken DEF Last
<1>. QED BY <1>1, <1>2, <1>3, <1>4 DEF Ordered
-----------------------------------------------------------------------------
(***************************************************************************)
(* What one step does to the versions of a Service.                        *)
(***************************************************************************)
Still(s) == api'[s] = api[s] /\ watch'[s] = watch[s] /\ cache'[s] = cache[s]

Untouched(s) == Still(s) /\ pc'[s] = pc[s] /\ ctx'[s] = ctx[s]

\* The informer delivers a version.
Heard(s) ==
  /\ watch[s] # << >> /\ api'[s] = api[s]
  /\ cache'[s] = Head(watch[s]) /\ watch'[s] = Tail(watch[s])
  /\ pc'[s] = pc[s] /\ ctx'[s] = ctx[s]

\* The process starts anew.
Relisted(s) ==
  /\ api'[s] = api[s] /\ cache'[s] = api[s] /\ watch'[s] = << >>
  /\ pc'[s] = "idle"

\* The API server has a new version; the pass goes on with what it had.
Wrote(s) ==
  /\ watch'[s] = Append(watch[s], api'[s]) /\ cache'[s] = cache[s]
  /\ \/ api'[s].spec = api[s].spec
     \/ <<api[s].spec, api'[s].spec>> \in Edit
  /\ api[s].deleting => api'[s].deleting
  /\ \/ api'[s].hash \in {api[s].hash, None}
     \/ pc[s] = "addlabels" /\ api'[s].hash = GetServiceHash(obj(s))
  /\ \/ pc'[s] = "idle"
     \/ pc'[s] = pc[s] /\ ctx'[s] = ctx[s]
     \/ pc[s] # "idle" /\ pc'[s] # "idle" /\ ctx'[s].obj = ctx[s].obj

\* AddFinalizers patched the version that the cache shows.
Finalized(s) ==
  /\ watch[s] = << >> /\ cache'[s] = cache[s] /\ watch'[s] = Append(watch[s], api'[s])
  /\ api'[s].spec = api[s].spec /\ api'[s].deleting = api[s].deleting
  /\ api'[s].hash = api[s].hash
  /\ pc'[s] # "idle" /\ ctx'[s].obj = api'[s]

\* A pass starts, goes on or ends.
Works(s) ==
  /\ Still(s)
  /\ \/ pc'[s] = "idle"
     \/ pc'[s] # "idle" /\ ctx'[s].obj = cache[s]
     \/ pc[s] # "idle" /\ pc'[s] # "idle" /\ ctx'[s].obj = ctx[s].obj

VersionStep(s) ==
  \/ Untouched(s) \/ Heard(s) \/ Relisted(s)
  \/ Wrote(s) \/ Finalized(s) \/ Works(s)

\* The steps that may concern s.
Mine(s) ==
  \/ Worker(s) \/ Faulty(s) \/ ServiceEvent(s)
  \/ EditService(s) \/ DeleteService(s) \/ Restart

\* The work on one Service leaves the others alone.
LEMMA Bystander ==
  ASSUME IInv, [Next]_vars, NEW s \in Service
  PROVE  Mine(s) \/ Untouched(s)
<1>. USE DEF IInv, TypeOK, Untouched, Still
<1>1. CASE UNCHANGED vars
  BY <1>1 DEF vars
<1>2. ASSUME NEW r \in Service, r # s,
             ReconcileSkip(r) \/ ReconcileStart(r) \/ FinalizerStep(r)
      PROVE  Untouched(s)
  <2>1. CASE ReconcileSkip(r) \/ ReconcileStart(r)
    BY <1>2, <2>1 DEF ReconcileSkip, ReconcileStart, Goto, Learn
  <2>2. CASE AddFinalizersHas(r) \/ AddFinalizersPatch(r) \/ AddFinalizersError(r)
    BY <1>2, <2>2 DEF AddFinalizersHas, AddFinalizersPatch, AddFinalizersError,
       Goto, Learn, ReturnError, Write
  <2>3. CASE RemoveFinalizersHasNot(r) \/ RemoveFinalizersPatch(r) \/ RemoveFinalizersError(r)
    BY <1>2, <2>3 DEF RemoveFinalizersHasNot, RemoveFinalizersPatch,
       RemoveFinalizersError, Goto, Learn, Return, ReturnError, Write
  <2>. QED BY <1>2, <2>1, <2>2, <2>3 DEF FinalizerStep
<1>3. ASSUME NEW r \in Service, r # s, LoadBalancerStep(r) PROVE Untouched(s)
  <2>1. CASE FindNLB(r) \/ FindNLBGone(r)
    BY <1>3, <2>1 DEF FindNLB, FindNLBGone, Goto, Learn, ReturnError
  <2>2. CASE DeleteNLB(r) \/ DeleteNLBSkip(r) \/ UpdateNLB(r) \/ UpdateNLBRefused(r)
    BY <1>3, <2>2 DEF DeleteNLB, CanDeleteNLB, DeleteNLBSkip, UpdateNLB,
       UpdateNLBRefused, Goto, Learn, ReturnError
  <2>3. CASE CreateNLBRefused(r) \/ CreateNLB(r) \/ TagNLBResource(r)
    BY <1>3, <2>3 DEF CreateNLBRefused, CreateNLB, TagNLBResource,
       Goto, Learn, ReturnError
  <2>. QED BY <1>3, <2>1, <2>2, <2>3 DEF LoadBalancerStep
<1>4. ASSUME NEW r \in Service, r # s, GroupStep(r) \/ ListenerStep(r)
      PROVE  Untouched(s)
  <2>1. CASE ListNLBServerGroups(r) \/ VGroupsApplied(r) \/ DeleteServerGroup(r) \/ CleanupDone(r)
    BY <1>4, <2>1 DEF ListNLBServerGroups, VGroupsApplied, DeleteServerGroup,
       CleanupDone, Goto, Learn
  <2>2. ASSUME NEW p \in Port,
               \/ UpdateServerGroup(r, p) \/ CreateNLBServerGroup(r, p)
               \/ TagServerGroup(r, p) \/ BatchAddServers(r, p)
        PROVE  Untouched(s)
    BY <1>4, <2>2 DEF UpdateServerGroup, CreateNLBServerGroup, TagServerGroup,
       BatchAddServers, Goto, Learn
  <2>3. CASE ListNLBListeners(r) \/ ListenersDeleted(r) \/ ListenersApplied(r)
    BY <1>4, <2>3 DEF ListNLBListeners, ListenersDeleted, ListenersApplied, Goto, Learn
  <2>4. ASSUME NEW p \in Port,
               DeleteNLBListener(r, p) \/ UpdateOrCreateNLBListener(r, p)
        PROVE  Untouched(s)
    BY <1>4, <2>4 DEF DeleteNLBListener, UpdateOrCreateNLBListener,
       Goto, Learn, ReturnError
  <2>. QED BY <1>4, <2>1, <2>2, <2>3, <2>4 DEF GroupStep, ListenerStep
<1>5. ASSUME NEW r \in Service, r # s, StatusStep(r) PROVE Untouched(s)
  <2>1. CASE addServiceLabels(r) \/ removeServiceLabels(r)
    BY <1>5, <2>1 DEF addServiceLabels, removeServiceLabels, Goto, Learn,
       ReturnError, Write
  <2>2. CASE updateServiceStatus(r)
    BY <1>5, <2>2 DEF updateServiceStatus, Goto, Learn, Return, ReturnError, Write
  <2>3. CASE removeServiceStatus(r)
    BY <1>5, <2>3 DEF removeServiceStatus, Goto, Write
  <2>. QED BY <1>5, <2>1, <2>2, <2>3 DEF StatusStep
<1>6. ASSUME NEW r \in Service, r # s, ServiceEvent(r) \/ Faulty(r) PROVE Untouched(s)
  <2>1. CASE ServiceEvent(r) \/ CallFails(r)
    BY <1>6, <2>1 DEF ServiceEvent, CallFails, Goto, Learn, ReturnError
  <2>2. CASE CreateNLBLost(r) \/ RemoveFinalizersLost(r)
    BY <1>6, <2>2 DEF CreateNLBLost, RemoveFinalizersLost, Goto, Learn, ReturnError, Write
  <2>3. ASSUME NEW p \in Port, CreateNLBServerGroupLost(r, p) PROVE Untouched(s)
    BY <1>6, <2>3 DEF CreateNLBServerGroupLost, Goto, Learn, ReturnError
  <2>4. CASE DeleteNLBUnfinished(r)
    BY <1>6, <2>4 DEF DeleteNLBUnfinished, Goto, Learn, ReturnError
  <2>5. ASSUME NEW p \in Port,
               ServersUnfinished(r, p) \/ DeleteNLBListenerUnfinished(r, p)
        PROVE  Untouched(s)
    BY <1>6, <2>5 DEF ServersUnfinished, DeleteNLBListenerUnfinished, Goto,
       Learn, ReturnError
  <2>. QED BY <1>6, <2>1, <2>2, <2>3, <2>4, <2>5 DEF Faulty
<1>7. ASSUME NEW r \in Service, r # s, EditService(r) \/ DeleteService(r)
      PROVE  Untouched(s)
  BY <1>7 DEF EditService, DeleteService, Write
<1>8. ASSUME NEW r \in Service, BackendsChange(r) PROVE Untouched(s)
  BY <1>8 DEF BackendsChange
<1>9. ASSUME NEW l \in LB, ConsoleDeleteNLB(l) PROVE Untouched(s)
  BY <1>9 DEF ConsoleDeleteNLB
<1>10. ASSUME JobEnds PROVE Untouched(s)
  BY <1>10 DEF JobEnds, NLBJobEnds, ListenerJobEnds
<1>. QED BY <1>1, <1>2, <1>3, <1>4, <1>5, <1>6, <1>7, <1>8, <1>9, <1>10
     DEF Next, Worker, UserAction, Mine

\* One write, as far as the Service written is concerned.
LEMMA WriteAt ==
  ASSUME TypeOK, NEW s \in Service, NEW o, Write(s, o), UNCHANGED cache
  PROVE  /\ api'[s] = o /\ cache'[s] = cache[s]
         /\ \/ Still(s)
            \/ watch'[s] = Append(watch[s], api'[s])
  BY DEF TypeOK, Write, Still

\* Where a pass is after it returned, jumped or learnt something.
LEMMA PassAfter ==
  ASSUME TypeOK, NEW s \in Service
  PROVE  /\ Return(s) \/ ReturnError(s) => pc'[s] = "idle" /\ ctx'[s] = FreshCtx
         /\ \A to : Goto(s, to) => pc'[s] = to
         /\ \A c : Learn(s, c) => ctx'[s] = c
  BY DEF TypeOK, Return, ReturnError, Goto, Learn

\* A pass that goes on with the Service it had.
LEMMA GoesOn ==
  ASSUME TypeOK, NEW s \in Service, UNCHANGED kube, pc[s] # "idle",
         pc'[s] # "idle" => ctx'[s].obj = ctx[s].obj
  PROVE  Works(s)
  BY DEF Works, Still

\* The patches of labels and status.
LEMMA StatusWrites ==
  ASSUME IInv, NEW s \in Service, StatusStep(s)
  PROVE  Wrote(s) \/ Works(s)
<1>. USE DEF IInv
<1>0. api[s] \in Object /\ pc[s] # "idle"
  BY DEF TypeOK, StatusStep, addServiceLabels, updateServiceStatus,
     removeServiceLabels, removeServiceStatus
<1>1. ASSUME NEW n, Write(s, [api[s] EXCEPT !.host = n]), UNCHANGED cache,
             \/ pc'[s] = "idle"
             \/ pc'[s] # "idle" /\ ctx'[s] = ctx[s]
      PROVE  Wrote(s) \/ Works(s)
  <2>1. /\ api'[s].spec = api[s].spec /\ api'[s].hash = api[s].hash
        /\ api'[s].deleting = api[s].deleting
    BY <1>0, <1>1, WriteAt DEF Object
  <2>. QED BY <1>0, <1>1, <2>1, WriteAt DEF Wrote, Works
<1>2. ASSUME NEW h, Write(s, [api[s] EXCEPT !.hash = h]), UNCHANGED cache,
             \/ h \in {api[s].hash, None}
             \/ pc[s] = "addlabels" /\ h = GetServiceHash(obj(s)),
             pc'[s] # "idle", ctx'[s] = ctx[s]
      PROVE  Wrote(s) \/ Works(s)
  <2>1. /\ api'[s].spec = api[s].spec /\ api'[s].hash = h
        /\ api'[s].deleting = api[s].deleting
    BY <1>0, <1>2, WriteAt DEF Object
  <2>. QED BY <1>0, <1>2, <2>1, WriteAt DEF Wrote, Works
<1>3. ASSUME ReturnError(s), UNCHANGED <<api, watch, cache>> PROVE Works(s)
  BY <1>3, PassAfter DEF Works, Still
<1>4. CASE addServiceLabels(s)
  <2>1. CASE api[s].exists
    <3>. DEFINE h == IF IsServiceHashChanged(obj(s))
                     THEN GetServiceHash(obj(s)) ELSE api[s].hash
    <3>1. Write(s, [api[s] EXCEPT !.hash = h])
      BY <1>4, <2>1 DEF addServiceLabels
    <3>2. pc'[s] # "idle" /\ ctx'[s] = ctx[s] /\ UNCHANGED cache /\ pc[s] = "addlabels"
      BY <1>4, <2>1, PassAfter DEF addServiceLabels
    <3>3. h \in {api[s].hash, None} \/ h = GetServiceHash(obj(s))
      OBVIOUS
    <3>. HIDE DEF h
    <3>. QED BY <1>2, <3>1, <3>2, <3>3
  <2>2. CASE ~api[s].exists
    BY <1>3, <1>4, <2>2 DEF addServiceLabels
  <2>. QED BY <2>1, <2>2
<1>5. CASE updateServiceStatus(s)
  <2>1. CASE obj(s).host = NewHost(s) \/ ~cache[s].exists
    BY <1>5, <2>1, PassAfter DEF updateServiceStatus, Works, Still
  <2>2. CASE ~(obj(s).host = NewHost(s) \/ ~cache[s].exists)
    <3>. DEFINE n == IF api[s].exists /\ cache[s].host # NewHost(s)
                     THEN NewHost(s) ELSE api[s].host
    <3>1. Write(s, [api[s] EXCEPT !.host = n]) /\ Return(s) /\ UNCHANGED cache
      BY <1>5, <2>2 DEF updateServiceStatus
    <3>. HIDE DEF n
    <3>. QED BY <1>1, <3>1, PassAfter
  <2>. QED BY <2>1, <2>2
<1>6. CASE removeServiceLabels(s)
  <2>1. CASE obj(s).hash = None \/ api[s].exists
    <3>. DEFINE h == IF obj(s).hash = None THEN api[s].hash ELSE None
    <3>1. Write(s, [api[s] EXCEPT !.hash = h])
      BY <1>6, <2>1 DEF removeServiceLabels
    <3>2. pc'[s] # "idle" /\ ctx'[s] = ctx[s] /\ UNCHANGED cache
      BY <1>6, <2>1, PassAfter DEF removeServiceLabels
    <3>3. h \in {api[s].hash, None}
      OBVIOUS
    <3>. HIDE DEF h
    <3>. QED BY <1>2, <3>1, <3>2, <3>3
  <2>2. CASE ~(obj(s).hash = None \/ api[s].exists)
    BY <1>3, <1>6, <2>2 DEF removeServiceLabels
  <2>. QED BY <2>1, <2>2
<1>7. CASE removeServiceStatus(s)
  <2>. DEFINE n == IF /\ obj(s).host # None /\ api[s].exists
                      /\ cache[s].exists /\ cache[s].host # None
                   THEN None ELSE api[s].host
  <2>1. Write(s, [api[s] EXCEPT !.host = n])
    BY <1>7 DEF removeServiceStatus
  <2>2. pc'[s] # "idle" /\ ctx'[s] = ctx[s] /\ UNCHANGED cache
    BY <1>7, PassAfter DEF removeServiceStatus
  <2>. HIDE DEF n
  <2>. QED BY <1>1, <2>1, <2>2
<1>. QED BY <1>4, <1>5, <1>6, <1>7 DEF StatusStep

\* The user's edits and the finalizers.
LEMMA ObjectWrites ==
  ASSUME IInv, Fresh, NEW s \in Service,
         \/ EditService(s) \/ DeleteService(s)
         \/ RemoveFinalizersPatch(s) \/ RemoveFinalizersLost(s)
         \/ AddFinalizersPatch(s)
  PROVE  Wrote(s) \/ Finalized(s) \/ Untouched(s) \/ Works(s)
<1>. USE DEF IInv
<1>0. api[s] \in Object
  BY DEF TypeOK
<1>1. CASE EditService(s)
  <2>1. PICK sp \in Spec : <<api[s].spec, sp>> \in Edit
                           /\ Write(s, [api[s] EXCEPT !.spec = sp])
    BY <1>1 DEF EditService
  <2>2. UNCHANGED cache /\ pc' = pc /\ ctx' = ctx
    BY <1>1 DEF EditService
  <2>3. /\ api'[s].spec = sp /\ api'[s].hash = api[s].hash
        /\ api'[s].deleting = api[s].deleting
    BY <1>0, <2>1, <2>2, WriteAt DEF Object
  <2>. QED BY <2>1, <2>2, <2>3, WriteAt DEF Wrote, Untouched
<1>2. CASE DeleteService(s)
  <2>. DEFINE o == IF api[s].finalizer THEN [api[s] EXCEPT !.deleting = TRUE]
                                       ELSE [api[s] EXCEPT !.exists = FALSE]
  <2>1. Write(s, o) /\ UNCHANGED cache /\ pc' = pc /\ ctx' = ctx
    BY <1>2 DEF DeleteService
  <2>2. /\ o.spec = api[s].spec /\ o.hash = api[s].hash
        /\ api[s].deleting => o.deleting
    BY <1>0 DEF Object
  <2>. HIDE DEF o
  <2>. QED BY <2>1, <2>2, WriteAt DEF Wrote, Untouched
<1>3. CASE RemoveFinalizersPatch(s) \/ RemoveFinalizersLost(s)
  <2>. DEFINE b == ~api[s].deleting
  <2>1. Write(s, [api[s] EXCEPT !.finalizer = FALSE, !.exists = b])
    BY <1>3 DEF RemoveFinalizersPatch, RemoveFinalizersLost
  <2>2. pc'[s] = "idle" /\ UNCHANGED cache
    BY <1>3, PassAfter DEF RemoveFinalizersPatch, RemoveFinalizersLost
  <2>. HIDE DEF b
  <2>3. api'[s] = [api[s] EXCEPT !.finalizer = FALSE, !.exists = b]
    BY <2>1, <2>2, WriteAt
  <2>4. /\ api'[s].spec = api[s].spec /\ api'[s].hash = api[s].hash
        /\ api'[s].deleting = api[s].deleting
    BY <1>0, <2>3 DEF Object
  <2>. QED BY <2>2, <2>1, <2>4, WriteAt DEF Wrote, Works
<1>4. CASE AddFinalizersPatch(s)
  <2>0. Write(s, [api[s] EXCEPT !.finalizer = TRUE]) /\ UNCHANGED cache /\ watch[s] = << >>
    BY <1>4 DEF AddFinalizersPatch, UpToDate
  <2>1. /\ api'[s].spec = api[s].spec /\ api'[s].hash = api[s].hash
        /\ api'[s].deleting = api[s].deleting
    BY <1>0, <2>0, WriteAt DEF Object
  <2>2. ctx'[s] = [ctx[s] EXCEPT !.obj = api'[s]] /\ pc'[s] = "find"
    BY <1>4, PassAfter DEF AddFinalizersPatch
  <2>3. ctx[s] \in Ctx
    BY DEF TypeOK
  <2>4. ctx'[s].obj = api'[s]
    BY <2>2, <2>3 DEF Ctx
  <2>5. Still(s) => Works(s)
    BY <2>0, <2>2, <2>4 DEF Works, Still, Fresh, Last
  <2>. QED BY <2>0, <2>1, <2>2, <2>4, <2>5, WriteAt DEF Finalized
<1>. QED BY <1>1, <1>2, <1>3, <1>4
-----------------------------------------------------------------------------
(***************************************************************************)
(* The fields of what a pass knows, after each of its steps.               *)
(***************************************************************************)
\* It reads the Service again.
LEMMA CtxObj ==
  ASSUME NEW c \in Ctx, NEW x, NEW d, d = [c EXCEPT !.obj = x]
  PROVE  /\ d.clean = c.clean /\ d.obj = x /\ d.lb = c.lb /\ d.sgs = c.sgs
         /\ d.bind = c.bind /\ d.seen = c.seen /\ d.todo = c.todo
         /\ d.eps = c.eps
  BY DEF Ctx

\* It created or deleted the load balancer.
LEMMA CtxLB ==
  ASSUME NEW c \in Ctx, NEW x, NEW d, d = [c EXCEPT !.lb = x]
  PROVE  /\ d.clean = c.clean /\ d.obj = c.obj /\ d.lb = x /\ d.sgs = c.sgs
         /\ d.bind = c.bind /\ d.seen = c.seen /\ d.todo = c.todo
         /\ d.eps = c.eps
  BY DEF Ctx

\* It created the group of a port.
LEMMA CtxBind ==
  ASSUME NEW c \in Ctx, NEW p \in Port, NEW x, NEW d, d = [c EXCEPT !.bind[p] = x]
  PROVE  /\ d.clean = c.clean /\ d.obj = c.obj /\ d.lb = c.lb /\ d.sgs = c.sgs
         /\ d.bind = [c.bind EXCEPT ![p] = x] /\ d.seen = c.seen /\ d.todo = c.todo
         /\ d.eps = c.eps
  BY DEF Ctx

\* It is done with a port.
LEMMA CtxVisit ==
  ASSUME NEW c \in Ctx, NEW p, NEW d, d = [c EXCEPT !.todo = @ \ {p}]
  PROVE  /\ d.clean = c.clean /\ d.obj = c.obj /\ d.lb = c.lb /\ d.sgs = c.sgs
         /\ d.bind = c.bind /\ d.seen = c.seen /\ d.todo = c.todo \ {p}
         /\ d.eps = c.eps
  BY DEF Ctx

\* It starts a loop.
LEMMA CtxLoop ==
  ASSUME NEW c \in Ctx, NEW x, NEW d, d = [c EXCEPT !.todo = x]
  PROVE  /\ d.clean = c.clean /\ d.obj = c.obj /\ d.lb = c.lb /\ d.sgs = c.sgs
         /\ d.bind = c.bind /\ d.seen = c.seen /\ d.todo = x
         /\ d.eps = c.eps
  BY DEF Ctx

\* It deleted a group.
LEMMA CtxDrop ==
  ASSUME NEW c \in Ctx, NEW g, NEW d, d = [c EXCEPT !.sgs = @ \ {g}]
  PROVE  /\ d.clean = c.clean /\ d.obj = c.obj /\ d.lb = c.lb /\ d.sgs = c.sgs \ {g}
         /\ d.bind = c.bind /\ d.seen = c.seen /\ d.todo = c.todo
         /\ d.eps = c.eps
  BY DEF Ctx

\* A call of the pass of s ends in a job that is not over.
Unwaited(s) ==
  \/ DeleteNLBUnfinished(s)
  \/ \E p \in Port : ServersUnfinished(s, p) \/ DeleteNLBListenerUnfinished(s, p)

\* What the pass read and computed before it came to its loops is kept.
SameLocals(s) ==
  /\ ctx'[s].obj = ctx[s].obj /\ ctx'[s].lb = ctx[s].lb
  /\ ctx'[s].clean = ctx[s].clean /\ ctx'[s].eps = ctx[s].eps

\* Such a pass ends, or goes on as if the job were over.
LEMMA UnwaitedPass ==
  ASSUME IInv, NEW s \in Service, Unwaited(s)
  PROVE  /\ UNCHANGED kube /\ pc[s] # "idle"
         /\ \/ pc'[s] = "idle" /\ ctx'[s] = FreshCtx
            \/ /\ CanDeleteNLB(s) /\ pc'[s] = "groups"
               /\ ctx'[s] = [ctx[s] EXCEPT !.lb = None]
            \/ /\ pc[s] \in {"vgroups", "addservers", "dellis"}
               /\ pc'[s] \in {"vgroups", "dellis"} /\ SameLocals(s)
<1>. USE DEF IInv
<1>0. ctx[s] \in Ctx
  BY DEF TypeOK
<1>1. CASE DeleteNLBUnfinished(s)
  BY <1>1, PassAfter DEF DeleteNLBUnfinished, CanDeleteNLB
<1>2. ASSUME NEW p \in Port, ServersUnfinished(s, p)
      PROVE  /\ UNCHANGED kube /\ pc[s] \in {"vgroups", "addservers"}
             /\ pc'[s] = "vgroups" /\ SameLocals(s)
  <2>1. PICK g : ctx'[s] = [ctx[s] EXCEPT !.bind[p] = g, !.todo = @ \ {p}]
    BY <1>2, PassAfter DEF ServersUnfinished
  <2>2. SameLocals(s)
    BY <1>0, <2>1 DEF SameLocals, Ctx
  <2>. QED BY <1>2, <2>2, PassAfter DEF ServersUnfinished
<1>3. ASSUME NEW p \in Port, DeleteNLBListenerUnfinished(s, p)
      PROVE  /\ UNCHANGED kube /\ pc[s] = "dellis"
             /\ \/ pc'[s] = "idle" /\ ctx'[s] = FreshCtx
                \/ pc'[s] = "dellis" /\ SameLocals(s)
  <2>1. \/ pc'[s] = "idle" /\ ctx'[s] = FreshCtx
        \/ pc'[s] = pc[s] /\ ctx'[s] = [ctx[s] EXCEPT !.todo = @ \ {p}]
    BY <1>3, PassAfter DEF DeleteNLBListenerUnfinished
  <2>. QED BY <1>0, <1>3, <2>1, CtxVisit DEF DeleteNLBListenerUnfinished, SameLocals
<1>. QED BY <1>1, <1>2, <1>3 DEF Unwaited

\* Every step of the controller and its environment is one of those.
LEMMA VersionMoves ==
  ASSUME IInv, Fresh, [Next]_vars, NEW s \in Service
  PROVE  VersionStep(s)
<1>. USE DEF IInv
<1>0. ctx[s] \in Ctx
  BY DEF TypeOK
<1>1. CASE Untouched(s)
  BY <1>1 DEF VersionStep
<1>2. CASE ServiceEvent(s)
  <2>1. Heard(s)
    BY <1>2 DEF ServiceEvent, Heard, TypeOK
  <2>. QED BY <2>1 DEF VersionStep
<1>3. CASE Restart
  <2>1. Relisted(s)
    BY <1>3 DEF Restart, Relisted, TypeOK
  <2>. QED BY <2>1 DEF VersionStep
<1>4. CASE \/ EditService(s) \/ DeleteService(s) \/ RemoveFinalizersPatch(s)
           \/ RemoveFinalizersLost(s) \/ AddFinalizersPatch(s)
  BY <1>4, ObjectWrites DEF VersionStep
<1>5. CASE StatusStep(s)
  BY <1>5, StatusWrites DEF VersionStep
<1>6. CASE ReconcileSkip(s)
  BY <1>6 DEF ReconcileSkip, VersionStep, Untouched, Still
<1>7. CASE ReconcileStart(s)
  <2>. DEFINE b == NeedDeleteLoadBalancer(cache[s])
  <2>1. ctx'[s] = [ctx[s] EXCEPT !.clean = b, !.obj = cache[s]] /\ pc'[s] # "idle"
    BY <1>7, PassAfter DEF ReconcileStart
  <2>. HIDE DEF b
  <2>2. ctx'[s].obj = cache[s]
    BY <1>0, <2>1 DEF Ctx
  <2>. QED BY <1>7, <2>1, <2>2 DEF ReconcileStart, VersionStep, Works, Still
<1>8. CASE AddFinalizersHas(s)
  <2>1. ctx'[s] = [ctx[s] EXCEPT !.obj = cache[s]] /\ pc'[s] # "idle"
    BY <1>8, PassAfter DEF AddFinalizersHas
  <2>2. ctx'[s].obj = cache[s]
    BY <1>0, <2>1, CtxObj
  <2>. QED BY <1>8, <2>1, <2>2 DEF AddFinalizersHas, VersionStep, Works, Still
<1>9. ASSUME UNCHANGED kube, pc[s] # "idle",
             pc'[s] = "idle" \/ ctx'[s].obj = ctx[s].obj
      PROVE  VersionStep(s)
  BY <1>9, GoesOn DEF VersionStep
<1>10. CASE AddFinalizersError(s) \/ RemoveFinalizersHasNot(s) \/ RemoveFinalizersError(s)
            \/ CallFails(s)
  BY <1>9, <1>10, PassAfter DEF AddFinalizersError, RemoveFinalizersHasNot,
     RemoveFinalizersError, CallFails
<1>11. CASE LoadBalancerStep(s) \/ CreateNLBLost(s)
  <2>1. UNCHANGED kube /\ pc[s] # "idle"
    BY <1>11 DEF LoadBalancerStep, FindNLB, FindNLBGone, DeleteNLB, CanDeleteNLB,
       DeleteNLBSkip, CreateNLBRefused, CreateNLB, TagNLBResource, UpdateNLB,
       UpdateNLBRefused, CreateNLBLost, CanCreateNLB
  <2>2. pc'[s] = "idle" \/ ctx'[s].obj = ctx[s].obj
    <3>1. CASE FindNLB(s)
      <4>1. PICK l : ctx'[s] = [ctx[s] EXCEPT !.lb = l, !.eps = eps[s]]
        BY <3>1, PassAfter DEF FindNLB
      <4>. QED BY <1>0, <4>1 DEF Ctx
    <3>2. CASE DeleteNLB(s) \/ CreateNLB(s)
      <4>1. PICK l : ctx'[s] = [ctx[s] EXCEPT !.lb = l]
        BY <3>2, PassAfter DEF DeleteNLB, CreateNLB
      <4>. QED BY <1>0, <4>1, CtxLB
    <3>3. CASE CreateNLBRefused(s) \/ UpdateNLBRefused(s) \/ CreateNLBLost(s) \/ FindNLBGone(s)
      BY <3>3, PassAfter DEF CreateNLBRefused, UpdateNLBRefused, CreateNLBLost, FindNLBGone
    <3>4. CASE DeleteNLBSkip(s) \/ TagNLBResource(s) \/ UpdateNLB(s)
      BY <3>4 DEF DeleteNLBSkip, TagNLBResource, UpdateNLB
    <3>. QED BY <1>11, <3>1, <3>2, <3>3, <3>4 DEF LoadBalancerStep
  <2>. QED BY <1>9, <2>1, <2>2
<1>12. CASE \/ ListNLBServerGroups(s) \/ VGroupsApplied(s)
            \/ DeleteServerGroup(s) \/ CleanupDone(s)
  <2>1. UNCHANGED kube /\ pc[s] # "idle"
    BY <1>12 DEF ListNLBServerGroups, VGroupsApplied, DeleteServerGroup, CleanupDone
  <2>2. ctx'[s].obj = ctx[s].obj
    <3>1. CASE ListNLBServerGroups(s)
      <4>1. PICK x, y : ctx'[s] = [ctx[s] EXCEPT !.sgs = x, !.todo = y]
        BY <3>1, PassAfter DEF ListNLBServerGroups
      <4>. QED BY <1>0, <4>1 DEF Ctx
    <3>2. CASE DeleteServerGroup(s)
      <4>1. PICK g : ctx'[s] = [ctx[s] EXCEPT !.sgs = @ \ {g}]
        BY <3>2, PassAfter DEF DeleteServerGroup
      <4>. QED BY <1>0, <4>1, CtxDrop
    <3>3. CASE VGroupsApplied(s) \/ CleanupDone(s)
      BY <3>3 DEF VGroupsApplied, CleanupDone
    <3>. QED BY <1>12, <3>1, <3>2, <3>3
  <2>. QED BY <1>9, <2>1, <2>2
<1>13. ASSUME NEW p \in Port,
              \/ UpdateServerGroup(s, p) \/ CreateNLBServerGroup(s, p)
              \/ TagServerGroup(s, p) \/ BatchAddServers(s, p)
              \/ CreateNLBServerGroupLost(s, p)
       PROVE  VersionStep(s)
  <2>1. UNCHANGED kube /\ pc[s] # "idle"
    BY <1>13 DEF UpdateServerGroup, CreateNLBServerGroup, TagServerGroup,
       BatchAddServers, CreateNLBServerGroupLost
  <2>2. pc'[s] = "idle" \/ ctx'[s].obj = ctx[s].obj
    <3>1. CASE UpdateServerGroup(s, p)
      <4>1. PICK g : ctx'[s] = [ctx[s] EXCEPT !.bind[p] = g, !.todo = @ \ {p}]
        BY <3>1, PassAfter DEF UpdateServerGroup
      <4>. QED BY <1>0, <4>1 DEF Ctx
    <3>2. CASE CreateNLBServerGroup(s, p)
      <4>1. PICK g : ctx'[s] = [ctx[s] EXCEPT !.bind[p] = g]
        BY <3>2, PassAfter DEF CreateNLBServerGroup
      <4>. QED BY <1>0, <4>1, CtxBind
    <3>3. CASE BatchAddServers(s, p)
      <4>1. ctx'[s] = [ctx[s] EXCEPT !.todo = @ \ {p}]
        BY <3>3, PassAfter DEF BatchAddServers
      <4>. QED BY <1>0, <4>1, CtxVisit
    <3>4. CASE TagServerGroup(s, p)
      BY <3>4 DEF TagServerGroup
    <3>5. CASE CreateNLBServerGroupLost(s, p)
      BY <3>5, PassAfter DEF CreateNLBServerGroupLost
    <3>. QED BY <1>13, <3>1, <3>2, <3>3, <3>4, <3>5
  <2>. QED BY <1>9, <2>1, <2>2
<1>14. CASE ListenerStep(s)
  <2>1. UNCHANGED kube /\ pc[s] # "idle"
    BY <1>14 DEF ListenerStep, ListNLBListeners, ListenersDeleted, ListenersApplied,
       DeleteNLBListener, UpdateOrCreateNLBListener
  <2>2. pc'[s] = "idle" \/ ctx'[s].obj = ctx[s].obj
    <3>1. CASE ListNLBListeners(s)
      <4>1. ctx'[s] = ctx[s] \/ \E x, y : ctx'[s] = [ctx[s] EXCEPT !.seen = x, !.todo = y]
        BY <3>1, PassAfter DEF ListNLBListeners
      <4>. QED BY <1>0, <4>1 DEF Ctx
    <3>2. CASE ListenersDeleted(s)
      <4>1. PICK x : ctx'[s] = [ctx[s] EXCEPT !.todo = x]
        BY <3>2, PassAfter DEF ListenersDeleted
      <4>. QED BY <1>0, <4>1, CtxLoop
    <3>3. CASE ListenersApplied(s)
      BY <3>3 DEF ListenersApplied
    <3>4. ASSUME NEW p \in Port,
                 DeleteNLBListener(s, p) \/ UpdateOrCreateNLBListener(s, p)
          PROVE  pc'[s] = "idle" \/ ctx'[s].obj = ctx[s].obj
      <4>1. \/ pc'[s] = "idle"
            \/ ctx'[s] = [ctx[s] EXCEPT !.todo = @ \ {p}]
        BY <3>4, PassAfter DEF DeleteNLBListener, UpdateOrCreateNLBListener
      <4>. QED BY <1>0, <4>1, CtxVisit
    <3>. QED BY <1>14, <3>1, <3>2, <3>3, <3>4 DEF ListenerStep
  <2>. QED BY <1>9, <2>1, <2>2
<1>15. CASE Unwaited(s)
  <2>1. ASSUME ctx'[s] = [ctx[s] EXCEPT !.lb = None]
        PROVE  ctx'[s].obj = ctx[s].obj
    BY <1>0, <2>1, CtxLB
  <2>2. /\ UNCHANGED kube /\ pc[s] # "idle"
        /\ pc'[s] = "idle" \/ ctx'[s].obj = ctx[s].obj
    BY <1>15, <2>1, UnwaitedPass DEF SameLocals
  <2>. QED BY <1>9, <2>2
<1>. QED BY <1>1, <1>2, <1>3, <1>4, <1>5, <1>6, <1>7, <1>8, <1>10, <1>11, <1>12,
        <1>13, <1>14, <1>15, Bystander
     DEF Mine, Worker, Faulty, FinalizerStep, GroupStep, Unwaited
-----------------------------------------------------------------------------
(***************************************************************************)
(* The versions of a Service stay in order.                                *)
(***************************************************************************)
\* Versions are Services.
LEMMA VersionsType ==
  ASSUME IInv, NEW s \in Service
  PROVE  \A v \in Versions(s) : v \in Object /\ v.spec \in Spec
<1>. USE DEF IInv
<1>1. /\ api[s] \in Object /\ cache[s] \in Object
      /\ watch[s] \in Seq(Object)
      /\ pc[s] # "idle" => ctx[s].obj \in Object
  BY DEF TypeOK, PassesOK, PassAt
<1>2. \A i \in DOMAIN watch[s] : watch[s][i] \in Object
  BY <1>1
<1>3. \A v \in Object : v.spec \in Spec
  BY DEF Object
<1>. QED BY <1>1, <1>2, <1>3 DEF Versions

\* The only new version is the one just written.
LEMMA NewVersions ==
  ASSUME IInv, NEW s \in Service, VersionStep(s)
  PROVE  \A v \in Versions(s)' :
           v \in Versions(s) \/ (v = api'[s] /\ (Wrote(s) \/ Finalized(s)))
<1>0. watch[s] \in Seq(Object)
  BY DEF IInv, TypeOK
<1>1. CASE Untouched(s)
  BY <1>1 DEF Untouched, Still, Versions
<1>2. CASE Heard(s)
  <2>1. \A i \in DOMAIN Tail(watch[s]) : \E j \in DOMAIN watch[s] : Tail(watch[s])[i] = watch[s][j]
    BY <1>0, <1>2, Taken DEF Heard
  <2>2. Head(watch[s]) = watch[s][1] /\ 1 \in DOMAIN watch[s]
    BY <1>0, <1>2, Taken DEF Heard
  <2>. QED BY <1>2, <2>1, <2>2 DEF Heard, Versions
<1>3. CASE Relisted(s)
  BY <1>3 DEF Relisted, Versions
<1>4. CASE Works(s)
  BY <1>4 DEF Works, Still, Versions
<1>5. CASE Wrote(s) \/ Finalized(s)
  <2>1. watch'[s] = Append(watch[s], api'[s]) /\ cache'[s] = cache[s]
    BY <1>5 DEF Wrote, Finalized
  <2>2. \A i \in DOMAIN watch'[s] :
          watch'[s][i] = api'[s] \/ \E j \in DOMAIN watch[s] : watch'[s][i] = watch[s][j]
    BY <1>0, <2>1
  <2>3. pc'[s] # "idle" => \/ ctx'[s].obj = api'[s]
                           \/ pc[s] # "idle" /\ ctx'[s].obj = ctx[s].obj
    BY <1>5 DEF Wrote, Finalized
  <2>. QED BY <1>5, <2>1, <2>2, <2>3 DEF Versions
<1>. QED BY <1>1, <1>2, <1>3, <1>4, <1>5 DEF VersionStep

\* What is written follows the version before it.
LEMMA WriteFollows ==
  ASSUME NEW R, Preorder(R), IInv, NEW s \in Service, Wrote(s) \/ Finalized(s)
  PROVE  Upto(R, api[s], api'[s])
<1>1. api[s] \in Object /\ api[s].spec \in Spec
  BY DEF IInv, TypeOK, Object
<1>. QED BY <1>1 DEF Wrote, Finalized, Upto, Preorder

\* Being a later version is reflexive and transitive.
LEMMA UptoOrder ==
  ASSUME NEW R, Preorder(R)
  PROVE  /\ \A v \in Object : Upto(R, v, v)
         /\ \A u, v, w \in Object : Upto(R, u, v) /\ Upto(R, v, w) => Upto(R, u, w)
         /\ \A v, w \in Object : \A h \in Hash :
              HashUpto(R, h, v) /\ Upto(R, v, w) => HashUpto(R, h, w)
         /\ \A v \in Object : HashUpto(R, GetServiceHash(v), v)
<1>1. \A v \in Object : v.spec \in Spec
  BY DEF Object
<1>2. \A h \in Hash : h[1] \in Spec
  BY DEF Hash
<1>3. \A u, v, w \in Object : Upto(R, u, v) /\ Upto(R, v, w) => Upto(R, u, w)
  BY <1>1 DEF Preorder, Upto
<1>4. \A v, w \in Object : \A h \in Hash :
        HashUpto(R, h, v) /\ Upto(R, v, w) => HashUpto(R, h, w)
  BY <1>1, <1>2 DEF Preorder, Upto, HashUpto
<1>. QED BY <1>1, <1>3, <1>4 DEF Preorder, Upto, HashUpto, GetServiceHash

\* A pass never works on a version newer than any that is around.
LEMMA ObjFirst ==
  ASSUME NEW R, Preorder(R), IInv, Fresh, Chain(R), NEW s \in Service,
         NEW v \in Versions(s)
  PROVE  /\ pc[s] # "idle" => Upto(R, obj(s), v)
         /\ (v = ctx[s].obj /\ pc[s] # "idle") \/ Upto(R, cache[s], v)
         /\ Upto(R, cache[s], api[s])
<1>1. /\ api[s] \in Object /\ cache[s] \in Object /\ watch[s] \in Seq(Object)
      /\ pc[s] # "idle" => ctx[s].obj \in Object
  BY DEF IInv, TypeOK, PassesOK, PassAt
<1>2. \A i \in DOMAIN watch[s] : Upto(R, cache[s], watch[s][i])
  BY DEF Chain, Ordered
<1>3. Upto(R, cache[s], api[s])
  <2>1. CASE watch[s] = << >>
    BY <1>1, <2>1, UptoOrder DEF Fresh, Last
  <2>2. CASE watch[s] # << >>
    <3>1. Len(watch[s]) \in DOMAIN watch[s]
      BY <1>1, <2>2, EmptySeq, LenProperties
    <3>. QED BY <1>2, <2>2, <3>1 DEF Fresh, Last
  <2>. QED BY <2>1, <2>2
<1>4. (v = ctx[s].obj /\ pc[s] # "idle") \/ Upto(R, cache[s], v)
  BY <1>1, <1>2, <1>3, UptoOrder DEF Versions
<1>5. pc[s] # "idle" => Upto(R, obj(s), v)
  <2>1. v \in Object
    BY VersionsType
  <2>2. pc[s] # "idle" => Upto(R, obj(s), cache[s]) /\ obj(s) \in Object
    BY <1>1 DEF Chain, obj
  <2>3. CASE v = ctx[s].obj /\ pc[s] # "idle"
    BY <2>1, <2>3, UptoOrder DEF obj
  <2>4. CASE Upto(R, cache[s], v)
    BY <1>1, <2>1, <2>2, <2>4, UptoOrder
  <2>. QED BY <1>4, <2>3, <2>4
<1>. QED BY <1>3, <1>4, <1>5

\* One step keeps the versions in order.
LEMMA VersionInvStep ==
  ASSUME NEW CONSTANT R, Preorder(R), IInv, IInv', VersionInv(R), [Next]_vars
  PROVE  VersionInv(R)'
<1>. USE DEF VersionInv
<1>0. ASSUME NEW s \in Service
      PROVE  /\ VersionStep(s)
             /\ api[s] \in Object /\ cache[s] \in Object /\ watch[s] \in Seq(Object)
             /\ pc[s] # "idle" => ctx[s].obj \in Object
             /\ api'[s] \in Object /\ cache'[s] \in Object
             /\ pc'[s] # "idle" => ctx'[s].obj \in Object
  BY VersionMoves DEF IInv, TypeOK, PassesOK, PassAt
<1>1. ASSUME NEW s \in Service
      PROVE  /\ Last(cache'[s], watch'[s]) = api'[s]
             /\ Ordered(R, cache'[s], watch'[s])
             /\ Upto(R, cache[s], cache'[s])
  <2>0. /\ Last(cache[s], watch[s]) = api[s]
        /\ Ordered(R, cache[s], watch[s])
    BY DEF Fresh, Chain
  <2>1. CASE Untouched(s) \/ Works(s)
    BY <1>0, <2>0, <2>1, UptoOrder DEF Untouched, Works, Still
  <2>2. CASE Heard(s)
    BY <1>0, <2>0, <2>2, OrderedTail DEF Heard
  <2>3. CASE Relisted(s)
    <3>1. Upto(R, cache[s], api[s])
      BY ObjFirst DEF Versions
    <3>. QED BY <2>3, <3>1 DEF Relisted, Ordered, Last
  <2>4. CASE Wrote(s) \/ Finalized(s)
    <3>1. Upto(R, api[s], api'[s])
      BY <2>4, WriteFollows
    <3>2. watch'[s] = Append(watch[s], api'[s]) /\ cache'[s] = cache[s]
      BY <2>4 DEF Wrote, Finalized
    <3>. QED BY <1>0, <2>0, <3>1, <3>2, OrderedAppend, UptoOrder
  <2>. QED BY <1>0, <2>1, <2>2, <2>3, <2>4 DEF VersionStep
<1>2. ASSUME NEW s \in Service, pc'[s] # "idle"
      PROVE  Upto(R, ctx'[s].obj, cache'[s])
  <2>1. CASE pc[s] # "idle" /\ ctx'[s].obj = ctx[s].obj
    BY <1>0, <1>1, <2>1, UptoOrder DEF Chain, obj
  <2>2. CASE ctx'[s].obj = cache[s]
    BY <1>1, <2>2
  <2>3. CASE Finalized(s)
    <3>1. cache[s] = api[s]
      BY <2>3 DEF Finalized, Fresh, Last
    <3>2. Upto(R, api[s], api[s])
      BY <1>0, UptoOrder
    <3>. QED BY <2>3, <3>1, <3>2 DEF Finalized, Upto
  <2>4. CASE Wrote(s)
    BY <1>2, <2>1, <2>4 DEF Wrote
  <2>5. CASE Untouched(s) \/ Heard(s) \/ Relisted(s) \/ Works(s)
    BY <1>2, <2>1, <2>2, <2>5 DEF Untouched, Heard, Relisted, Works
  <2>. QED BY <1>0, <2>3, <2>4, <2>5 DEF VersionStep
<1>3. ASSUME NEW s \in Service, NEW v \in Versions(s)' PROVE v.spec \in UsedSpec
  <2>1. CASE v \in Versions(s)
    BY <2>1 DEF SpecsUsed
  <2>2. CASE v = api'[s] /\ (Wrote(s) \/ Finalized(s))
    <3>1. api[s].spec \in UsedSpec
      BY DEF SpecsUsed, Versions
    <3>2. api'[s].spec = api[s].spec \/ <<api[s].spec, api'[s].spec>> \in Edit
      BY <2>2 DEF Wrote, Finalized
    <3>3. ASSUME NEW a, NEW b, <<a, b>> \in Edit PROVE b \in UsedSpec
      <4>1. PICK e \in Edit : e = <<a, b>>
        BY <3>3
      <4>2. e[2] = b
        BY <4>1
      <4>3. \A d \in Edit : d[2] \in UsedSpec
        BY DEF UsedSpec
      <4>. QED BY <4>1, <4>2, <4>3
    <3>. QED BY <2>2, <3>1, <3>2, <3>3
  <2>. QED BY <1>0, <2>1, <2>2, NewVersions
<1>4. ASSUME NEW s \in Service, NEW v \in Versions(s)', v.hash # None
      PROVE  /\ HashUpto(R, v.hash, cache'[s])
             /\ pc'[s] # "idle" => HashUpto(R, v.hash, ctx'[s].obj)
  <2>0. ASSUME NEW h, h \in Hash, HashUpto(R, h, cache[s]),
               pc[s] # "idle" => HashUpto(R, h, ctx[s].obj)
        PROVE  /\ HashUpto(R, h, cache'[s])
               /\ pc'[s] # "idle" => HashUpto(R, h, ctx'[s].obj)
    <3>1. HashUpto(R, h, cache'[s])
      BY <1>0, <1>1, <2>0, UptoOrder
    <3>2. ASSUME pc'[s] # "idle" PROVE HashUpto(R, h, ctx'[s].obj)
      <4>1. CASE pc[s] # "idle" /\ ctx'[s].obj = ctx[s].obj
        BY <2>0, <4>1
      <4>2. CASE ctx'[s].obj = cache[s]
        BY <2>0, <4>2
      <4>3. CASE Finalized(s)
        <5>1. cache[s] = api[s]
          BY <4>3 DEF Finalized, Fresh, Last
        <5>. QED BY <2>0, <4>3, <5>1 DEF Finalized, HashUpto
      <4>. QED BY <1>0, <3>2, <4>1, <4>2, <4>3
           DEF VersionStep, Untouched, Still, Heard, Relisted, Wrote, Works
    <3>. QED BY <3>1, <3>2
  <2>1. ASSUME NEW w \in Versions(s), w.hash = v.hash
        PROVE  /\ v.hash \in Hash
               /\ HashUpto(R, v.hash, cache[s])
               /\ pc[s] # "idle" => HashUpto(R, v.hash, ctx[s].obj)
    <3>1. w \in Object /\ w.hash \in Hash \cup {None}
      BY VersionsType, ObjectFields
    <3>. QED BY <1>4, <2>1, <3>1 DEF Labels, obj
  <2>2. CASE \E w \in Versions(s) : w.hash = v.hash
    BY <2>0, <2>1, <2>2
  <2>3. CASE v = api'[s] /\ Wrote(s) /\ pc[s] = "addlabels"
             /\ v.hash = GetServiceHash(obj(s))
    <3>1. ctx[s].obj \in Object /\ GetServiceHash(ctx[s].obj) \in Hash
      BY <1>0, <2>3, ObjectFields
    <3>2. HashUpto(R, v.hash, ctx[s].obj)
      BY <2>3, <3>1, UptoOrder DEF obj
    <3>3. Upto(R, ctx[s].obj, cache[s])
      BY <2>3 DEF Chain, obj
    <3>4. HashUpto(R, v.hash, cache[s])
      BY <1>0, <2>3, <3>1, <3>2, <3>3, UptoOrder DEF obj
    <3>. QED BY <2>0, <2>3, <3>1, <3>2, <3>4 DEF obj
  <2>4. api[s] \in Versions(s)
    BY DEF Versions
  <2>. QED BY <1>0, <1>4, <2>2, <2>3, <2>4, NewVersions DEF Wrote, Finalized
<1>5. Fresh'
  BY <1>1 DEF Fresh
<1>6. SpecsUsed'
  BY <1>3 DEF SpecsUsed
<1>7. Chain(R)'
  BY <1>1, <1>2 DEF Chain, obj
<1>8. Labels(R)'
  BY <1>4 DEF Labels, obj
<1>. QED BY <1>5, <1>6, <1>7, <1>8

\* Initially every Service has one version without a label.
LEMMA VersionInvInit ==
  ASSUME NEW CONSTANT R, Preorder(R), Init
  PROVE  VersionInv(R)
<1>0. ASSUME NEW s \in Service
      PROVE  /\ watch[s] = << >> /\ cache[s] = api[s] /\ pc[s] = "idle"
             /\ api[s].hash = None /\ api[s].spec \in UsedSpec
  <2>1. PICK sp \in InitSpec :
          api = [r \in Service |->
                   [exists |-> TRUE, spec |-> sp[r], deleting |-> FALSE,
                    finalizer |-> FALSE, hash |-> None, host |-> None]]
    BY DEF Init
  <2>2. api[s].hash = None /\ api[s].spec = sp[s]
    BY <2>1
  <2>3. sp[s] \in UsedSpec
    <3>1. sp[s] \in {sp[r] : r \in Service}
      OBVIOUS
    <3>2. {sp[r] : r \in Service} \in {{f[r] : r \in Service} : f \in InitSpec}
      OBVIOUS
    <3>. QED BY <3>1, <3>2 DEF UsedSpec
  <2>4. watch[s] = << >> /\ cache[s] = api[s] /\ pc[s] = "idle"
    BY DEF Init
  <2>. QED BY <2>2, <2>3, <2>4
<1>1. ASSUME NEW s \in Service PROVE Versions(s) = {api[s]}
  BY <1>0 DEF Versions
<1>2. Fresh
  BY <1>0 DEF Fresh, Last
<1>3. SpecsUsed /\ Labels(R)
  BY <1>0, <1>1 DEF SpecsUsed, Labels
<1>4. Chain(R)
  BY <1>0 DEF Chain, Ordered
<1>. QED BY <1>2, <1>3, <1>4 DEF VersionInv
-----------------------------------------------------------------------------
(***************************************************************************)
(* What one step does to a pass.                                           *)
(***************************************************************************)
\* The pass has looked its load balancer up.
Found == PC \ {"idle", "finalizer", "find"}

\* The pass is at the end of a cleanup.
Removing == {"rmlabels", "rmstatus", "rmfinalizer"}

\* The pass has not looked at a server group yet.
Early == {"idle", "finalizer", "find", "lbattr", "taglb", "groups"}

Begins(s) == ReconcileStart(s) \/ AddFinalizersHas(s) \/ AddFinalizersPatch(s)

\* The pass goes on with the Service and the load balancer it had.
Onward(s) ==
  /\ pc[s] \in Found /\ pc'[s] \in Found \ {"lbattr", "taglb"}
  /\ ctx'[s].obj = ctx[s].obj /\ ctx'[s].lb = ctx[s].lb
  /\ ctx'[s].clean = ctx[s].clean /\ ctx'[s].eps = ctx[s].eps
  /\ pc[s] \in Removing => pc'[s] \in Removing
  /\ pc'[s] \in Removing => pc[s] \in Removing \/ (ctx[s].clean /\ CleanupDone(s))
  /\ pc[s] = "lbattr" => IF Off(obj(s)) THEN SkipDelete(s) ELSE ctx[s].lb # None
  /\ pc'[s] = "groups" => pc[s] \in {"lbattr", "taglb"} /\ ctx'[s] = ctx[s]

\* The pass goes on without the load balancer whose deletion it asked for.
DropsNLB(s) ==
  /\ CanDeleteNLB(s)
  /\ pc'[s] = "groups" /\ ctx'[s] = [ctx[s] EXCEPT !.lb = None]

PassStep(s) ==
  \/ pc'[s] = pc[s] /\ ctx'[s] = ctx[s]
  \/ pc'[s] = "idle" /\ ctx'[s] = FreshCtx
  \/ Begins(s) \/ FindNLB(s) \/ FindNLBGone(s)
  \/ DropsNLB(s) \/ CreateNLB(s) \/ Onward(s)

\* Every step is one of those for the pass of s.
LEMMA PassMoves ==
  ASSUME IInv, [Next]_vars, NEW s \in Service
  PROVE  PassStep(s)
<1>. USE DEF IInv
<1>0. ctx[s] \in Ctx /\ pc[s] \in PC
  BY DEF TypeOK
<1>1. CASE Untouched(s) \/ ServiceEvent(s) \/ EditService(s) \/ DeleteService(s) \/ ReconcileSkip(s)
  BY <1>1 DEF Untouched, ServiceEvent, EditService, DeleteService, ReconcileSkip, PassStep
<1>2. ASSUME pc'[s] = "idle" /\ ctx'[s] = FreshCtx PROVE PassStep(s)
  BY <1>2 DEF PassStep
<1>3. CASE Restart
  BY <1>2, <1>3 DEF Restart
<1>4. CASE \/ AddFinalizersError(s) \/ RemoveFinalizersHasNot(s) \/ RemoveFinalizersError(s)
           \/ CallFails(s) \/ RemoveFinalizersPatch(s) \/ RemoveFinalizersLost(s)
           \/ CreateNLBRefused(s) \/ UpdateNLBRefused(s) \/ CreateNLBLost(s)
  BY <1>2, <1>4, PassAfter DEF AddFinalizersError, RemoveFinalizersHasNot,
     RemoveFinalizersError, CallFails, RemoveFinalizersPatch, RemoveFinalizersLost,
     CreateNLBRefused, UpdateNLBRefused, CreateNLBLost
<1>5. CASE \/ Begins(s) \/ FindNLB(s) \/ FindNLBGone(s) \/ DropsNLB(s)
           \/ CreateNLB(s)
  BY <1>5 DEF PassStep
<1>6. CASE DeleteNLBSkip(s) \/ TagNLBResource(s) \/ UpdateNLB(s)
  <2>1. pc[s] \in {"lbattr", "taglb"} /\ pc'[s] = "groups" /\ ctx'[s] = ctx[s]
    BY <1>6, PassAfter DEF DeleteNLBSkip, TagNLBResource, UpdateNLB
  <2>2. pc[s] = "lbattr" => IF Off(obj(s)) THEN SkipDelete(s) ELSE ctx[s].lb # None
    BY <1>6 DEF DeleteNLBSkip, TagNLBResource, UpdateNLB, Off
  <2>. QED BY <2>1, <2>2 DEF PassStep, Onward, Found, Removing, PC
<1>7. CASE ListNLBServerGroups(s)
  <2>1. /\ pc[s] = "groups" /\ pc'[s] = "vgroups"
        /\ \E x, y : ctx'[s] = [ctx[s] EXCEPT !.sgs = x, !.todo = y]
    BY <1>7, PassAfter DEF ListNLBServerGroups
  <2>2. /\ ctx'[s].obj = ctx[s].obj /\ ctx'[s].lb = ctx[s].lb
        /\ ctx'[s].clean = ctx[s].clean /\ ctx'[s].eps = ctx[s].eps
    BY <1>0, <2>1 DEF Ctx
  <2>. QED BY <2>1, <2>2 DEF PassStep, Onward, Found, Removing, PC
<1>8. CASE VGroupsApplied(s) \/ ListenersApplied(s)
  <2>1. /\ pc[s] \in {"vgroups", "putlis"} /\ pc'[s] \in {"listeners", "cleanup"}
        /\ ctx'[s] = ctx[s]
    BY <1>8, PassAfter DEF VGroupsApplied, ListenersApplied
  <2>. QED BY <2>1 DEF PassStep, Onward, Found, Removing, PC
<1>9. CASE CleanupDone(s)
  <2>1. /\ pc[s] = "cleanup" /\ ctx'[s] = ctx[s]
        /\ pc'[s] = IF ctx[s].clean THEN "rmlabels" ELSE "addlabels"
    BY <1>9, PassAfter DEF CleanupDone
  <2>. QED BY <1>9, <2>1 DEF PassStep, Onward, Found, Removing, PC
<1>10. ASSUME NEW p \in Port, UpdateServerGroup(s, p) PROVE PassStep(s)
  <2>1. /\ pc[s] = "vgroups" /\ pc'[s] = pc[s]
        /\ \E g : ctx'[s] = [ctx[s] EXCEPT !.bind[p] = g, !.todo = @ \ {p}]
    BY <1>10, PassAfter DEF UpdateServerGroup
  <2>2. /\ ctx'[s].obj = ctx[s].obj /\ ctx'[s].lb = ctx[s].lb
        /\ ctx'[s].clean = ctx[s].clean /\ ctx'[s].eps = ctx[s].eps
    BY <1>0, <2>1 DEF Ctx
  <2>. QED BY <2>1, <2>2 DEF PassStep, Onward, Found, Removing, PC
<1>11. ASSUME NEW p \in Port, CreateNLBServerGroup(s, p) PROVE PassStep(s)
  <2>1. /\ pc[s] = "vgroups" /\ pc'[s] = "taggroup"
        /\ \E g : ctx'[s] = [ctx[s] EXCEPT !.bind[p] = g]
    BY <1>11, PassAfter DEF CreateNLBServerGroup
  <2>2. /\ ctx'[s].obj = ctx[s].obj /\ ctx'[s].lb = ctx[s].lb
        /\ ctx'[s].clean = ctx[s].clean /\ ctx'[s].eps = ctx[s].eps
    BY <1>0, <2>1, CtxBind
  <2>. QED BY <2>1, <2>2 DEF PassStep, Onward, Found, Removing, PC
<1>12. ASSUME NEW p \in Port, TagServerGroup(s, p) PROVE PassStep(s)
  <2>1. pc[s] = "taggroup" /\ pc'[s] = "addservers" /\ ctx'[s] = ctx[s]
    BY <1>12, PassAfter DEF TagServerGroup
  <2>. QED BY <2>1 DEF PassStep, Onward, Found, Removing, PC
<1>13. ASSUME NEW p \in Port, BatchAddServers(s, p) PROVE PassStep(s)
  <2>1. /\ pc[s] = "addservers" /\ pc'[s] = "vgroups"
        /\ ctx'[s] = [ctx[s] EXCEPT !.todo = @ \ {p}]
    BY <1>13, PassAfter DEF BatchAddServers
  <2>2. /\ ctx'[s].obj = ctx[s].obj /\ ctx'[s].lb = ctx[s].lb
        /\ ctx'[s].clean = ctx[s].clean /\ ctx'[s].eps = ctx[s].eps
    BY <1>0, <2>1, CtxVisit
  <2>. QED BY <2>1, <2>2 DEF PassStep, Onward, Found, Removing, PC
<1>14. ASSUME NEW p \in Port, CreateNLBServerGroupLost(s, p) PROVE PassStep(s)
  BY <1>2, <1>14, PassAfter DEF CreateNLBServerGroupLost
<1>15. CASE DeleteServerGroup(s)
  <2>1. /\ pc[s] = "cleanup" /\ pc'[s] = pc[s]
        /\ \E g : ctx'[s] = [ctx[s] EXCEPT !.sgs = @ \ {g}]
    BY <1>15, PassAfter DEF DeleteServerGroup
  <2>2. /\ ctx'[s].obj = ctx[s].obj /\ ctx'[s].lb = ctx[s].lb
        /\ ctx'[s].clean = ctx[s].clean /\ ctx'[s].eps = ctx[s].eps
    BY <1>0, <2>1, CtxDrop
  <2>. QED BY <2>1, <2>2 DEF PassStep, Onward, Found, Removing, PC
<1>16. CASE ListNLBListeners(s)
  <2>1. /\ pc[s] = "listeners" /\ pc'[s] \in {"dellis", "cleanup"}
        /\ \/ ctx'[s] = ctx[s]
           \/ \E x, y : ctx'[s] = [ctx[s] EXCEPT !.seen = x, !.todo = y]
    BY <1>16, PassAfter DEF ListNLBListeners
  <2>2. /\ ctx'[s].obj = ctx[s].obj /\ ctx'[s].lb = ctx[s].lb
        /\ ctx'[s].clean = ctx[s].clean /\ ctx'[s].eps = ctx[s].eps
    BY <1>0, <2>1 DEF Ctx
  <2>. QED BY <2>1, <2>2 DEF PassStep, Onward, Found, Removing, PC
<1>17. CASE ListenersDeleted(s)
  <2>1. /\ pc[s] = "dellis" /\ pc'[s] = "putlis"
        /\ \E x : ctx'[s] = [ctx[s] EXCEPT !.todo = x]
    BY <1>17, PassAfter DEF ListenersDeleted
  <2>2. /\ ctx'[s].obj = ctx[s].obj /\ ctx'[s].lb = ctx[s].lb
        /\ ctx'[s].clean = ctx[s].clean /\ ctx'[s].eps = ctx[s].eps
    BY <1>0, <2>1, CtxLoop
  <2>. QED BY <2>1, <2>2 DEF PassStep, Onward, Found, Removing, PC
<1>18. ASSUME NEW p \in Port,
              DeleteNLBListener(s, p) \/ UpdateOrCreateNLBListener(s, p)
       PROVE  PassStep(s)
  <2>1. /\ pc[s] \in {"dellis", "putlis"}
        /\ \/ pc'[s] = "idle" /\ ctx'[s] = FreshCtx
           \/ pc'[s] = pc[s] /\ ctx'[s] = [ctx[s] EXCEPT !.todo = @ \ {p}]
    BY <1>18, PassAfter DEF DeleteNLBListener, UpdateOrCreateNLBListener
  <2>2. CASE pc'[s] = pc[s] /\ ctx'[s] = [ctx[s] EXCEPT !.todo = @ \ {p}]
    <3>1. /\ ctx'[s].obj = ctx[s].obj /\ ctx'[s].lb = ctx[s].lb
          /\ ctx'[s].clean = ctx[s].clean /\ ctx'[s].eps = ctx[s].eps
      BY <1>0, <2>2, CtxVisit
    <3>. QED BY <2>1, <2>2, <3>1 DEF PassStep, Onward, Found, Removing, PC
  <2>. QED BY <1>2, <2>1, <2>2
<1>19. CASE addServiceLabels(s) \/ removeServiceLabels(s) \/ removeServiceStatus(s)
  <2>1. \/ pc'[s] = "idle" /\ ctx'[s] = FreshCtx
        \/ /\ ctx'[s] = ctx[s]
           /\ \/ pc[s] = "addlabels" /\ pc'[s] = "addstatus"
              \/ pc[s] = "rmlabels" /\ pc'[s] = "rmstatus"
              \/ pc[s] = "rmstatus" /\ pc'[s] = "rmfinalizer"
    BY <1>19, PassAfter DEF addServiceLabels, removeServiceLabels, removeServiceStatus
  <2>. QED BY <1>2, <2>1 DEF PassStep, Onward, Found, Removing, PC
<1>20. CASE updateServiceStatus(s)
  BY <1>2, <1>20, PassAfter DEF updateServiceStatus
<1>21. CASE FinalizerStep(s)
  BY <1>4, <1>5, <1>21 DEF FinalizerStep, Begins
<1>22. CASE LoadBalancerStep(s)
  BY <1>4, <1>5, <1>6, <1>22, PassAfter DEF LoadBalancerStep, DeleteNLB, DropsNLB
<1>23. CASE GroupStep(s)
  BY <1>7, <1>8, <1>9, <1>10, <1>11, <1>12, <1>13, <1>15, <1>23 DEF GroupStep
<1>24. CASE ListenerStep(s)
  BY <1>8, <1>16, <1>17, <1>18, <1>24 DEF ListenerStep
<1>25. CASE StatusStep(s)
  BY <1>19, <1>20, <1>25 DEF StatusStep
<1>28. CASE Unwaited(s)
  <2>1. CASE pc'[s] = "idle" /\ ctx'[s] = FreshCtx
    BY <1>2, <2>1
  <2>2. CASE DropsNLB(s)
    BY <1>5, <2>2
  <2>3. CASE /\ pc[s] \in {"vgroups", "addservers", "dellis"}
             /\ pc'[s] \in {"vgroups", "dellis"} /\ SameLocals(s)
    BY <2>3 DEF PassStep, Onward, SameLocals, Found, Removing, PC
  <2>. QED BY <1>28, <2>1, <2>2, <2>3, UnwaitedPass DEF DropsNLB
<1>26. CASE Faulty(s)
  BY <1>4, <1>14, <1>26, <1>28 DEF Faulty, Unwaited
<1>27. CASE Worker(s)
  BY <1>1, <1>5, <1>21, <1>22, <1>23, <1>24, <1>25, <1>27 DEF Worker, Begins
<1>. QED BY <1>1, <1>3, <1>26, <1>27, Bystander DEF Mine
-----------------------------------------------------------------------------
(***************************************************************************)
(* What one step does to the load balancers.                               *)
(***************************************************************************)
\* l is created for s; the pass ends or goes on to tag it.
Made(s, l) ==
  /\ CanCreateNLB(s) /\ FreeLB(l)
  /\ nlb'[l] = [live |-> TRUE, by |-> s, tag |-> None,
                name |-> IF obj(s).spec.named THEN None ELSE s, going |-> FALSE]
  /\ \/ pc'[s] = "idle"
     \/ pc'[s] = "taglb" /\ ctx'[s].lb = l /\ ctx'[s].obj = ctx[s].obj

Tagged(s, l) ==
  /\ pc[s] = "taglb" /\ ctx[s].lb = l
  /\ nlb'[l].tag = s /\ nlb'[l].live = nlb[l].live
  /\ nlb'[l].by = nlb[l].by /\ nlb'[l].name = nlb[l].name
  /\ nlb'[l].going = nlb[l].going

Renamed(s, l) ==
  /\ pc[s] = "lbattr" /\ ctx[s].lb = l /\ ~Off(obj(s))
  /\ nlb'[l].name = IF obj(s).spec.named THEN None ELSE nlb[l].name
  /\ nlb'[l].live = nlb[l].live /\ nlb'[l].by = nlb[l].by
  /\ nlb'[l].tag = nlb[l].tag /\ nlb'[l].going = nlb[l].going

\* The cloud has accepted to delete l for s.
Leaves(s, l) ==
  /\ CanDeleteNLB(s) /\ ctx[s].lb = l
  /\ nlb'[l].going /\ nlb'[l].live = nlb[l].live /\ nlb'[l].by = nlb[l].by
  /\ nlb'[l].tag = nlb[l].tag /\ nlb'[l].name = nlb[l].name

\* l is deleted, by the controller or on the console.
Gone(l) ==
  /\ ~nlb'[l].live /\ ~nlb'[l].going
  /\ nlb'[l].tag = nlb[l].tag /\ nlb'[l].name = nlb[l].name
  /\ nlb'[l].by = nlb[l].by \/ l \in UserLB \cap Deletable

LBStep(l) ==
  /\ \A k \in LB \ {l} : nlb'[k] = nlb[k]
  /\ \/ Gone(l)
     \/ \E s \in Service : \/ Made(s, l) \/ Tagged(s, l) \/ Renamed(s, l)
                           \/ Leaves(s, l)

\* The calls that change a load balancer.
LBCall(s) ==
  \/ DeleteNLB(s) \/ CreateNLB(s) \/ CreateNLBLost(s)
  \/ TagNLBResource(s) \/ UpdateNLB(s) \/ DeleteNLBUnfinished(s)

\* No other step changes one.
LEMMA LBCalls ==
  ASSUME [Next]_vars
  PROVE  \/ UNCHANGED nlb
         \/ \E s \in Service : LBCall(s)
         \/ \E l \in LB : ConsoleDeleteNLB(l) \/ NLBJobEnds(l)
<1>1. CASE UNCHANGED vars
  BY <1>1 DEF vars
<1>2. ASSUME NEW s \in Service,
             ReconcileSkip(s) \/ ReconcileStart(s) \/ FinalizerStep(s)
      PROVE  UNCHANGED nlb
  BY <1>2 DEF ReconcileSkip, ReconcileStart, FinalizerStep, AddFinalizersHas,
     AddFinalizersPatch, AddFinalizersError, RemoveFinalizersHasNot,
     RemoveFinalizersPatch, RemoveFinalizersError
<1>3. ASSUME NEW s \in Service, LoadBalancerStep(s)
      PROVE  UNCHANGED nlb \/ LBCall(s)
  BY <1>3 DEF LoadBalancerStep, LBCall, FindNLB, FindNLBGone, DeleteNLBSkip,
     CreateNLBRefused, UpdateNLBRefused
<1>4. ASSUME NEW s \in Service, GroupStep(s) PROVE UNCHANGED nlb
  BY <1>4 DEF GroupStep, ListNLBServerGroups, VGroupsApplied, UpdateServerGroup,
     CreateNLBServerGroup, TagServerGroup, BatchAddServers, DeleteServerGroup,
     CleanupDone
<1>5. ASSUME NEW s \in Service, ListenerStep(s) \/ StatusStep(s)
      PROVE  UNCHANGED nlb
  BY <1>5 DEF ListenerStep, ListNLBListeners, ListenersDeleted, ListenersApplied,
     DeleteNLBListener, UpdateOrCreateNLBListener, StatusStep, addServiceLabels,
     updateServiceStatus, removeServiceLabels, removeServiceStatus
<1>6. ASSUME NEW s \in Service, ServiceEvent(s) \/ Faulty(s)
      PROVE  UNCHANGED nlb \/ LBCall(s)
  BY <1>6 DEF ServiceEvent, Faulty, CallFails, RemoveFinalizersLost,
     CreateNLBServerGroupLost, ServersUnfinished, DeleteNLBListenerUnfinished, LBCall
<1>7. ASSUME NEW s \in Service,
             EditService(s) \/ DeleteService(s) \/ BackendsChange(s)
      PROVE  UNCHANGED nlb
  BY <1>7 DEF EditService, DeleteService, BackendsChange
<1>8. CASE Restart
  BY <1>8 DEF Restart
<1>9. ASSUME NEW l \in LB, NEW p \in Port, ListenerJobEnds(l, p) PROVE UNCHANGED nlb
  BY <1>9 DEF ListenerJobEnds
<1>. QED BY <1>1, <1>2, <1>3, <1>4, <1>5, <1>6, <1>7, <1>8, <1>9
     DEF Next, Worker, UserAction, JobEnds

\* What those calls do.
LEMMA LBMoves ==
  ASSUME IInv, [Next]_vars
  PROVE  UNCHANGED nlb \/ \E l \in LB : LBStep(l)
<1>. USE DEF IInv
<1>0. nlb \in [LB -> Nlb] /\ (\A l \in LB : nlb[l] \in Nlb)
      /\ (\A s \in Service : ctx[s] \in Ctx)
  BY DEF TypeOK
<1>1. ASSUME NEW s \in Service, DeleteNLB(s) PROVE \E l \in LB : LBStep(l)
  <2>1. PICK l \in LB : l = ctx[s].lb
    BY <1>0, <1>1, CtxFields DEF DeleteNLB, CanDeleteNLB, SkipDelete
  <2>2. nlb' = [nlb EXCEPT ![l] = [nlb[l] EXCEPT !.live = FALSE, !.going = FALSE]]
    BY <1>0, <1>1, <2>1 DEF DeleteNLB
  <2>3. Gone(l)
    BY <1>0, <2>2 DEF Gone, Nlb
  <2>. QED BY <1>0, <2>2, <2>3 DEF LBStep
<1>2. ASSUME NEW s \in Service, CreateNLB(s) \/ CreateNLBLost(s)
      PROVE  \E l \in LB : LBStep(l)
  <2>1. PICK l \in LB : /\ CanCreateNLB(s) /\ FreeLB(l) /\ NewNLB(s, l)
                        /\ \/ pc'[s] = "idle"
                           \/ pc'[s] = "taglb" /\ ctx'[s] = [ctx[s] EXCEPT !.lb = l]
    BY <1>2, PassAfter DEF CreateNLB, CreateNLBLost
  <2>2. Made(s, l)
    <3>1. nlb'[l] = [live |-> TRUE, by |-> s, tag |-> None,
                     name |-> IF obj(s).spec.named THEN None ELSE s, going |-> FALSE]
      BY <1>0, <2>1 DEF NewNLB
    <3>2. \/ pc'[s] = "idle"
          \/ pc'[s] = "taglb" /\ ctx'[s].lb = l /\ ctx'[s].obj = ctx[s].obj
      <4>1. ASSUME ctx'[s] = [ctx[s] EXCEPT !.lb = l]
            PROVE  ctx'[s].lb = l /\ ctx'[s].obj = ctx[s].obj
        BY <1>0, <4>1 DEF Ctx
      <4>. QED BY <2>1, <4>1
    <3>. QED BY <2>1, <3>1, <3>2 DEF Made
  <2>3. \A k \in LB \ {l} : nlb'[k] = nlb[k]
    BY <1>0, <2>1 DEF NewNLB
  <2>. QED BY <2>2, <2>3 DEF LBStep
<1>3. ASSUME NEW s \in Service, TagNLBResource(s) PROVE \E l \in LB : LBStep(l)
  <2>1. PICK l \in LB : l = ctx[s].lb
    BY <1>3 DEF TagNLBResource, PassesOK, PassAt
  <2>2. nlb' = [nlb EXCEPT ![l] = [nlb[l] EXCEPT !.tag = s]]
    BY <1>0, <1>3, <2>1 DEF TagNLBResource
  <2>3. Tagged(s, l)
    BY <1>0, <1>3, <2>1, <2>2 DEF Tagged, TagNLBResource, Nlb
  <2>. QED BY <1>0, <2>2, <2>3 DEF LBStep
<1>4. ASSUME NEW s \in Service, UpdateNLB(s) PROVE \E l \in LB : LBStep(l)
  <2>1. PICK l \in LB : l = ctx[s].lb
    BY <1>0, <1>4, CtxFields DEF UpdateNLB
  <2>2. PICK n : n = IF obj(s).spec.named THEN None ELSE nlb[l].name
    OBVIOUS
  <2>3. nlb' = [nlb EXCEPT ![l] = [nlb[l] EXCEPT !.name = n]]
    BY <1>0, <1>4, <2>1, <2>2 DEF UpdateNLB
  <2>4. nlb'[l] = [nlb[l] EXCEPT !.name = n]
    BY <1>0, <2>3
  <2>5. /\ nlb'[l].name = n /\ nlb'[l].live = nlb[l].live
        /\ nlb'[l].by = nlb[l].by /\ nlb'[l].tag = nlb[l].tag
        /\ nlb'[l].going = nlb[l].going
    BY <1>0, <2>4 DEF Nlb
  <2>6. Renamed(s, l)
    BY <1>4, <2>1, <2>2, <2>5 DEF Renamed, UpdateNLB, Off
  <2>. QED BY <1>0, <2>3, <2>6 DEF LBStep
<1>5. ASSUME NEW l \in LB, ConsoleDeleteNLB(l) PROVE LBStep(l)
  <2>1. PICK b : b = IF l \in UserLB THEN None ELSE nlb[l].by
    OBVIOUS
  <2>2. nlb' = [nlb EXCEPT ![l] =
                  [nlb[l] EXCEPT !.live = FALSE, !.going = FALSE, !.by = b]]
    BY <1>5, <2>1 DEF ConsoleDeleteNLB
  <2>3. nlb'[l] = [nlb[l] EXCEPT !.live = FALSE, !.going = FALSE, !.by = b]
    BY <1>0, <2>2
  <2>4. /\ nlb'[l].live = FALSE /\ nlb'[l].going = FALSE /\ nlb'[l].by = b
        /\ nlb'[l].tag = nlb[l].tag /\ nlb'[l].name = nlb[l].name
    BY <1>0, <2>3 DEF Nlb
  <2>5. Gone(l)
    BY <1>5, <2>1, <2>4 DEF Gone, ConsoleDeleteNLB
  <2>. QED BY <1>0, <2>2, <2>5 DEF LBStep
<1>6. ASSUME NEW s \in Service, DeleteNLBUnfinished(s) PROVE \E l \in LB : LBStep(l)
  <2>1. PICK l \in LB : l = ctx[s].lb
    BY <1>0, <1>6, CtxFields DEF DeleteNLBUnfinished, CanDeleteNLB, SkipDelete
  <2>2. nlb' = [nlb EXCEPT ![l] = [nlb[l] EXCEPT !.going = TRUE]]
    BY <1>0, <1>6, <2>1 DEF DeleteNLBUnfinished
  <2>3. Leaves(s, l)
    BY <1>0, <1>6, <2>1, <2>2 DEF Leaves, DeleteNLBUnfinished, Nlb
  <2>. QED BY <1>0, <2>2, <2>3 DEF LBStep
<1>7. ASSUME NEW l \in LB, NLBJobEnds(l) PROVE LBStep(l)
  <2>1. nlb' = [nlb EXCEPT ![l] = [nlb[l] EXCEPT !.live = FALSE, !.going = FALSE]]
    BY <1>0, <1>7 DEF NLBJobEnds
  <2>2. Gone(l)
    BY <1>0, <2>1 DEF Gone, Nlb
  <2>. QED BY <1>0, <2>1, <2>2 DEF LBStep
<1>. QED BY <1>1, <1>2, <1>3, <1>4, <1>5, <1>6, <1>7, LBCalls DEF LBCall
-----------------------------------------------------------------------------
(***************************************************************************)
(* What a pass may conclude from its lookup: the tag and the default name  *)
(* of s are only on load balancers made for s, at most one of those can be *)
(* found, and a pass that does not reuse a load balancer works on it.      *)
(***************************************************************************)
Marked ==
  \A l \in LB, s \in Service :
    nlb[l].tag = s \/ nlb[l].name = s => nlb[l].by = s

OneFindable ==
  \A s \in Service : \A k, l \in LB : Findable(s, k) /\ Findable(s, l) => k = l

\* A cleanup has gone on without l, which the cloud has still to delete.
Leaving(c, l) == Off(c.obj) /\ nlb[l].going

\* The pass at `at` with locals c works on the load balancer it should.
WorksOn(s, at, c) ==
  /\ at \in Found /\ ~IsUserManaged(c.obj) =>
       /\ \A l \in LB : Findable(s, l) => c.lb = l \/ Leaving(c, l)
       /\ c.lb # None => nlb[c.lb].by = s
  /\ at \in Found \ Removing /\ IsUserManaged(c.obj) => c.lb = c.obj.spec.id
  /\ at = "taglb" => ~IsUserManaged(c.obj) /\ ~Off(c.obj)

Finds == \A s \in Service : WorksOn(s, pc[s], ctx[s])

\* Only what was made for a Service is on its way out.
GoingOwned == \A l \in LB : nlb[l].going => nlb[l].by \in Service

FindInv == Marked /\ OneFindable /\ Finds /\ GoingOwned

\* A pass creates a load balancer only when none can be found.
LEMMA CreatesFirst ==
  ASSUME IInv, FindInv, NEW s \in Service, CanCreateNLB(s)
  PROVE  ~IsUserManaged(obj(s)) /\ \A l \in LB : ~Findable(s, l)
<1>1. pc[s] \in Found \ Removing /\ ctx[s].lb = None
  BY DEF CanCreateNLB, Found, Removing, PC
<1>2. ~IsUserManaged(obj(s))
  BY <1>1 DEF FindInv, Finds, WorksOn, IsUserManaged, obj
<1>3. None \notin LB
  BY ConstantsAssumption
<1>4. ~Off(obj(s))
  BY DEF CanCreateNLB, Off
<1>. QED BY <1>1, <1>2, <1>3, <1>4 DEF FindInv, Finds, WorksOn, Leaving, obj

\* Only what was just created or tagged can be found anew.
LEMMA NewlyFound ==
  ASSUME IInv, FindInv, [Next]_vars, NEW s \in Service, NEW l \in LB,
         Findable(s, l)', ~Findable(s, l)
  PROVE  LBStep(l) /\ (Made(s, l) \/ Tagged(s, l))
<1>1. nlb' # nlb /\ nlb'[l] # nlb[l]
  BY DEF Findable
<1>2. PICK k \in LB : LBStep(k)
  BY <1>1, LBMoves
<1>3. k = l
  BY <1>1, <1>2 DEF LBStep
<1>4. s # None
  BY ConstantsAssumption
<1>5. ~Gone(l)
  BY DEF Gone, Findable
<1>6. ASSUME NEW r \in Service, Made(r, l) PROVE r = s
  BY <1>4, <1>6 DEF Made, Findable
<1>7. ASSUME NEW r \in Service, Tagged(r, l) PROVE r = s
  BY <1>7 DEF Tagged, Findable
<1>8. ASSUME NEW r \in Service, Renamed(r, l) PROVE FALSE
  BY <1>4, <1>8 DEF Renamed, Findable
<1>9. ASSUME NEW r \in Service, Leaves(r, l) PROVE FALSE
  BY <1>9 DEF Leaves, Findable
<1>. QED BY <1>2, <1>3, <1>5, <1>6, <1>7, <1>8, <1>9 DEF LBStep

\* What the cloud has accepted to delete stays that way as long as it is there.
LEMMA GoingStays ==
  ASSUME IInv, FindInv, [Next]_vars, NEW l \in LB, nlb[l].going, nlb'[l].live
  PROVE  nlb'[l].going
<1>0. nlb[l].by # None
  BY ConstantsAssumption DEF FindInv, GoingOwned
<1>1. CASE UNCHANGED nlb
  BY <1>1
<1>2. ASSUME NEW k \in LB, LBStep(k) PROVE nlb'[l].going
  BY <1>0, <1>2 DEF LBStep, Gone, Made, FreeLB, Tagged, Renamed, Leaves
<1>. QED BY <1>1, <1>2, LBMoves

\* A load balancer stays with the Service it was made for.
LEMMA OwnerStays ==
  ASSUME IInv, [Next]_vars, NEW s \in Service, NEW l \in LB, nlb[l].by = s
  PROVE  nlb'[l].by = s
<1>0. s # None /\ s # User
  BY ConstantsAssumption, UserAssumption
<1>1. l \notin UserLB
  BY <1>0 DEF IInv, UserNLBUnmarked
<1>2. ASSUME NEW k \in LB, LBStep(k) PROVE nlb'[l].by = s
  BY <1>0, <1>1, <1>2 DEF LBStep, Gone, Made, FreeLB, Tagged, Renamed, Leaves
<1>. QED BY <1>2, LBMoves

\* The cloud is asked to delete what was made for the Service of the pass.
LEMMA GoingOwnedStep ==
  ASSUME IInv, FindInv, [Next]_vars
  PROVE  GoingOwned'
<1>. SUFFICES ASSUME NEW l \in LB, nlb'[l].going PROVE nlb'[l].by \in Service
  BY DEF GoingOwned
<1>1. CASE nlb[l].going
  BY <1>1, OwnerStays DEF FindInv, GoingOwned
<1>2. CASE ~nlb[l].going
  <2>1. LBStep(l)
    BY <1>2, LBMoves DEF LBStep
  <2>0. ASSUME NEW r \in Service PROVE ~Made(r, l) /\ ~Tagged(r, l) /\ ~Renamed(r, l)
    <3>1. ~Made(r, l)
      BY DEF Made
    <3>2. ~Tagged(r, l) /\ ~Renamed(r, l)
      BY <1>2 DEF Tagged, Renamed
    <3>. QED BY <3>1, <3>2
  <2>2. PICK s \in Service : Leaves(s, l)
    BY <2>0, <2>1 DEF LBStep, Gone
  <2>3. pc[s] \in Found /\ ~IsUserManaged(ctx[s].obj) /\ ctx[s].lb = l /\ l # None
    BY <2>2, ConstantsAssumption DEF Leaves, CanDeleteNLB, SkipDelete, Found, PC, obj
  <2>4. nlb[l].by = s
    BY <2>3 DEF FindInv, Finds, WorksOn
  <2>. QED BY <2>4, OwnerStays
<1>. QED BY <1>1, <1>2

\* Tags and default names.
LEMMA MarkedStep ==
  ASSUME IInv, FindInv, [Next]_vars
  PROVE  Marked'
<1>1. ASSUME NEW l \in LB, NEW s \in Service, nlb'[l].tag = s \/ nlb'[l].name = s
      PROVE  nlb'[l].by = s
  <2>0. s # None
    BY ConstantsAssumption
  <2>1. CASE nlb[l].tag = s \/ nlb[l].name = s
    BY <2>1, OwnerStays DEF FindInv, Marked
  <2>2. CASE ~(nlb[l].tag = s \/ nlb[l].name = s)
    <3>1. nlb'[l] # nlb[l]
      BY <1>1, <2>2
    <3>2. LBStep(l)
      BY <3>1, LBMoves DEF LBStep
    <3>3. ASSUME NEW r \in Service, Made(r, l) PROVE nlb'[l].by = s
      BY <1>1, <2>0, <3>3 DEF Made
    <3>4. ASSUME NEW r \in Service, Tagged(r, l) PROVE nlb'[l].by = s
      <4>1. r = s
        BY <1>1, <2>2, <3>4 DEF Tagged
      <4>2. pc[s] \in Found /\ ~IsUserManaged(ctx[s].obj) /\ ctx[s].lb # None
        BY <3>4, <4>1, ConstantsAssumption
           DEF Tagged, FindInv, Finds, WorksOn, Found, PC
      <4>3. nlb[l].by = s
        BY <3>4, <4>1, <4>2 DEF Tagged, FindInv, Finds, WorksOn
      <4>. QED BY <4>3, OwnerStays
    <3>5. ASSUME NEW r \in Service, Renamed(r, l) PROVE FALSE
      BY <1>1, <2>0, <2>2, <3>5 DEF Renamed
    <3>6. ~Gone(l) /\ \A r \in Service : ~Leaves(r, l)
      BY <1>1, <2>2 DEF Gone, Leaves
    <3>. QED BY <3>2, <3>3, <3>4, <3>5, <3>6 DEF LBStep
  <2>. QED BY <2>1, <2>2
<1>. QED BY <1>1 DEF Marked

\* One load balancer at most can be found.
LEMMA OneFindableStep ==
  ASSUME IInv, FindInv, [Next]_vars
  PROVE  OneFindable'
<1>1. ASSUME NEW s \in Service, NEW k \in LB, NEW l \in LB,
             Findable(s, k)', Findable(s, l)', ~Findable(s, l), k # l
      PROVE  FALSE
  <2>1. LBStep(l) /\ (Made(s, l) \/ Tagged(s, l))
    BY <1>1, NewlyFound
  <2>2. nlb'[k] = nlb[k]
    BY <1>1, <2>1 DEF LBStep
  <2>3. Findable(s, k)
    BY <1>1, <2>2 DEF Findable
  <2>4. ~Made(s, l)
    BY <2>3, CreatesFirst DEF Made
  <2>5. Tagged(s, l)
    BY <2>1, <2>4
  <2>6. /\ pc[s] \in Found /\ ~IsUserManaged(ctx[s].obj) /\ ctx[s].lb = l
        /\ ~Off(ctx[s].obj)
    BY <2>5 DEF Tagged, FindInv, Finds, WorksOn, Found, PC
  <2>. QED BY <1>1, <2>3, <2>6 DEF FindInv, Finds, WorksOn, Leaving
<1>2. ASSUME NEW s \in Service, NEW k \in LB, NEW l \in LB,
             Findable(s, k)', Findable(s, l)'
      PROVE  k = l
  <2>1. CASE Findable(s, k) /\ Findable(s, l)
    BY <2>1 DEF FindInv, OneFindable
  <2>. QED BY <1>1, <1>2, <2>1
<1>. QED BY <1>2 DEF OneFindable

\* What FindNLB returns, as far as later steps can tell.
LEMMA LookedUp ==
  ASSUME IInv, FindInv, NEW s \in Service, FindNLB(s)
  PROVE  /\ pc'[s] \in {"lbattr", "groups"}
         /\ ctx'[s].obj = ctx[s].obj /\ ctx'[s].clean = ctx[s].clean
         /\ ctx'[s].bind = ctx[s].bind
         /\ ~IsUserManaged(obj(s)) =>
              /\ \A l \in LB : Findable(s, l) => ctx'[s].lb = l
              /\ ctx'[s].lb # None => ctx'[s].lb \in LB /\ nlb[ctx'[s].lb].by = s
         /\ IsUserManaged(obj(s)) => ctx'[s].lb = obj(s).spec.id
<1>. USE DEF IInv
<1>0. ctx[s] \in Ctx
  BY DEF TypeOK
<1>1. pc'[s] \in {"lbattr", "groups"}
  BY PassAfter DEF FindNLB, AfterFind
<1>2. PICK l \in LB \cup {None} :
        /\ ctx'[s] = [ctx[s] EXCEPT !.lb = l, !.eps = eps[s]]
        /\ \/ l \in LB /\ Candidates(s) = {l}
           \/ l = None /\ Candidates(s) = {} /\ ~IsUserManaged(obj(s))
  BY PassAfter DEF FindNLB
<1>3. /\ ctx'[s].obj = ctx[s].obj /\ ctx'[s].clean = ctx[s].clean
      /\ ctx'[s].bind = ctx[s].bind /\ ctx'[s].lb = l
  BY <1>0, <1>2 DEF Ctx
<1>4. ASSUME IsUserManaged(obj(s)) PROVE l = obj(s).spec.id
  <2>1. Candidates(s) = {k \in LB : Live(k) /\ k = obj(s).spec.id}
    BY <1>4 DEF Candidates
  <2>. QED BY <1>2, <1>4, <2>1
<1>5. ASSUME ~IsUserManaged(obj(s))
      PROVE  /\ \A k \in LB : Findable(s, k) => l = k
             /\ l # None => l \in LB /\ nlb[l].by = s
  <2>. DEFINE byTag  == {k \in LB : Live(k) /\ nlb[k].tag = s}
              byName == {k \in LB : Live(k) /\ nlb[k].name = s}
  <2>1. Candidates(s) = IF byTag # {} THEN byTag ELSE byName
    BY <1>5 DEF Candidates
  <2>2. \A k \in LB : Findable(s, k) <=> k \in byTag \/ k \in byName
    BY DEF Findable, Live
  <2>. HIDE DEF byTag, byName
  <2>3. CASE l \in LB /\ Candidates(s) = {l}
    <3>1. Findable(s, l)
      BY <2>1, <2>2, <2>3
    <3>. QED BY <2>3, <3>1 DEF FindInv, OneFindable, Marked, Findable
  <2>4. CASE l = None /\ Candidates(s) = {}
    BY <2>1, <2>2, <2>4
  <2>. QED BY <1>2, <2>3, <2>4
<1>. QED BY <1>1, <1>3, <1>4, <1>5

\* What a pass that goes on relies on is not disturbed by the others.
LEMMA StillWorksOn ==
  ASSUME IInv, FindInv, [Next]_vars, NEW s \in Service,
         pc[s] \in Found, pc'[s] \in Found,
         ctx'[s].obj = ctx[s].obj, ctx'[s].lb = ctx[s].lb,
         ~IsUserManaged(ctx[s].obj), \A l \in LB : ~Made(s, l)
  PROVE  /\ \A l \in LB : Findable(s, l)' => ctx'[s].lb = l \/ Leaving(ctx[s], l)'
         /\ ctx'[s].lb # None => nlb'[ctx'[s].lb].by = s
<1>1. ASSUME NEW l \in LB, Findable(s, l)'
      PROVE  ctx[s].lb = l \/ (Off(ctx[s].obj) /\ nlb'[l].going)
  <2>1. CASE Findable(s, l)
    <3>1. ctx[s].lb = l \/ (Off(ctx[s].obj) /\ nlb[l].going)
      BY <2>1 DEF FindInv, Finds, WorksOn, Leaving
    <3>. QED BY <1>1, <2>1, <3>1, GoingStays DEF Findable
  <2>2. CASE ~Findable(s, l)
    <3>1. Tagged(s, l)
      BY <1>1, <2>2, NewlyFound
    <3>. QED BY <3>1 DEF Tagged
  <2>. QED BY <2>1, <2>2
<1>2. ASSUME ctx[s].lb # None PROVE nlb'[ctx[s].lb].by = s
  <2>1. ctx[s].lb \in LB
    BY <1>2, CtxFields DEF IInv, TypeOK
  <2>2. nlb[ctx[s].lb].by = s
    BY <1>2 DEF FindInv, Finds, WorksOn
  <2>. QED BY <2>1, <2>2, OwnerStays
<1>. QED BY <1>1, <1>2 DEF Leaving, Off

\* A pass goes on without a load balancer only when the cloud deletes it.
LEMMA DroppedGoes ==
  ASSUME IInv, [Next]_vars, NEW s \in Service, DropsNLB(s)
  PROVE  ~nlb'[ctx[s].lb].live \/ nlb'[ctx[s].lb].going
<1>. USE DEF IInv
<1>0. /\ ctx[s] \in Ctx /\ ctx[s].lb \in LB /\ nlb \in [LB -> Nlb]
      /\ nlb[ctx[s].lb] \in Nlb /\ pc[s] = "lbattr" /\ Off(obj(s))
      /\ pc'[s] = "groups" /\ ~SkipDelete(s)
  BY CtxFields DEF TypeOK, DropsNLB, CanDeleteNLB, SkipDelete, Off
<1>1. ASSUME Mine(s) PROVE DeleteNLB(s) \/ DeleteNLBUnfinished(s)
  <2>1. pc'[s] # pc[s] /\ pc'[s] # "idle"
    BY <1>0
  <2>2. ~ServiceEvent(s) /\ ~EditService(s) /\ ~DeleteService(s) /\ ~Restart
    BY <2>1 DEF ServiceEvent, EditService, DeleteService, Restart
  <2>3. ASSUME Worker(s) PROVE DeleteNLB(s)
    <3>1. ~ReconcileSkip(s) /\ ~ReconcileStart(s) /\ ~FinalizerStep(s)
      BY <1>0 DEF ReconcileSkip, ReconcileStart, FinalizerStep, AddFinalizersHas,
         AddFinalizersPatch, AddFinalizersError, RemoveFinalizersHasNot,
         RemoveFinalizersPatch, RemoveFinalizersError
    <3>2. ~GroupStep(s) /\ ~StatusStep(s)
      BY <1>0 DEF GroupStep, ListNLBServerGroups, VGroupsApplied, UpdateServerGroup,
         CreateNLBServerGroup, TagServerGroup, BatchAddServers, DeleteServerGroup,
         CleanupDone, StatusStep, addServiceLabels, updateServiceStatus,
         removeServiceLabels, removeServiceStatus
    <3>3. ~ListenerStep(s)
      BY <1>0 DEF ListenerStep, ListNLBListeners, ListenersDeleted,
         ListenersApplied, DeleteNLBListener, UpdateOrCreateNLBListener
    <3>4. LoadBalancerStep(s) => DeleteNLB(s)
      BY <1>0 DEF LoadBalancerStep, FindNLB, FindNLBGone, DeleteNLBSkip,
         CreateNLBRefused, CreateNLB, CanCreateNLB, TagNLBResource, UpdateNLB,
         UpdateNLBRefused, Off
    <3>. QED BY <2>3, <3>1, <3>2, <3>3, <3>4 DEF Worker
  <2>4. ASSUME Faulty(s) PROVE DeleteNLBUnfinished(s)
    <3>1. ~CallFails(s) /\ ~CreateNLBLost(s) /\ ~RemoveFinalizersLost(s)
      BY <2>1, PassAfter DEF CallFails, CreateNLBLost, RemoveFinalizersLost
    <3>2. \A p \in Port : /\ ~CreateNLBServerGroupLost(s, p)
                          /\ ~ServersUnfinished(s, p)
                          /\ ~DeleteNLBListenerUnfinished(s, p)
      BY <1>0 DEF CreateNLBServerGroupLost, ServersUnfinished,
         DeleteNLBListenerUnfinished
    <3>. QED BY <2>4, <3>1, <3>2 DEF Faulty
  <2>. QED BY <1>1, <2>2, <2>3, <2>4 DEF Mine
<1>2. DeleteNLB(s) \/ DeleteNLBUnfinished(s)
  BY <1>0, <1>1, Bystander DEF Untouched
<1>3. CASE DeleteNLB(s)
  BY <1>0, <1>3 DEF DeleteNLB, Nlb
<1>4. CASE DeleteNLBUnfinished(s)
  BY <1>0, <1>4 DEF DeleteNLBUnfinished, Nlb
<1>. QED BY <1>2, <1>3, <1>4

\* Each pass works on the load balancer it should.
LEMMA FindsStep ==
  ASSUME IInv, FindInv, [Next]_vars
  PROVE  Finds'
<1>. SUFFICES ASSUME NEW s \in Service
              PROVE  WorksOn(s, pc[s], ctx[s])'
  BY DEF Finds
<1>. USE DEF IInv
<1>0. /\ ctx[s] \in Ctx /\ pc[s] \in PC /\ None \notin LB
      /\ WorksOn(s, pc[s], ctx[s])
  BY ConstantsAssumption DEF TypeOK, FindInv, Finds
<1>1. ASSUME pc'[s] \notin Found PROVE WorksOn(s, pc[s], ctx[s])'
  BY <1>1 DEF WorksOn, Found, PC
<1>2. CASE pc'[s] = "idle" \/ Begins(s)
  <2>1. pc'[s] \in {"idle", "find", "finalizer"}
    BY <1>2, PassAfter DEF Begins, ReconcileStart, AddFinalizersHas, AddFinalizersPatch
  <2>. QED BY <1>1, <2>1 DEF Found
<1>3. CASE pc'[s] = pc[s] /\ ctx'[s] = ctx[s] /\ pc[s] \in Found
  <2>1. \A l \in LB : ~Made(s, l)
    BY <1>3 DEF Made, CanCreateNLB, Found
  <2>2. ~IsUserManaged(ctx[s].obj) =>
          /\ \A l \in LB : Findable(s, l)' => ctx'[s].lb = l \/ Leaving(ctx[s], l)'
          /\ ctx'[s].lb # None => nlb'[ctx'[s].lb].by = s
    BY <1>3, <2>1, StillWorksOn
  <2>. QED BY <1>0, <1>3, <2>2 DEF WorksOn
<1>4. CASE Onward(s)
  <2>0. /\ pc[s] \in Found /\ pc'[s] \in Found \ {"lbattr", "taglb"}
        /\ ctx'[s].obj = ctx[s].obj /\ ctx'[s].lb = ctx[s].lb
        /\ pc'[s] \notin Removing => pc[s] \notin Removing
    BY <1>4 DEF Onward
  <2>1. \A l \in LB : ~Made(s, l)
    BY <2>0 DEF Made, Found
  <2>2. ~IsUserManaged(ctx[s].obj) =>
          /\ \A l \in LB : Findable(s, l)' => ctx'[s].lb = l \/ Leaving(ctx[s], l)'
          /\ ctx'[s].lb # None => nlb'[ctx'[s].lb].by = s
    BY <2>0, <2>1, StillWorksOn
  <2>. QED BY <1>0, <2>0, <2>2 DEF WorksOn
<1>5. CASE FindNLB(s)
  <2>1. nlb' = nlb
    BY <1>5 DEF FindNLB
  <2>. QED BY <1>5, <2>1, LookedUp DEF WorksOn, Found, Removing, Findable, obj
<1>6. CASE FindNLBGone(s)
  <2>1. \/ pc'[s] = "idle"
        \/ pc'[s] = "rmlabels" /\ ctx'[s] = ctx[s] /\ IsUserManaged(ctx[s].obj)
    BY <1>6, PassAfter DEF FindNLBGone, obj
  <2>. QED BY <1>2, <2>1 DEF WorksOn, Removing
<1>7. CASE DropsNLB(s)
  <2>1. /\ pc[s] = "lbattr" /\ pc'[s] = "groups" /\ ~IsUserManaged(ctx[s].obj)
        /\ Off(ctx[s].obj) /\ ctx[s].lb # None
        /\ ctx'[s] = [ctx[s] EXCEPT !.lb = None]
    BY <1>7 DEF DropsNLB, CanDeleteNLB, SkipDelete, Off, obj
  <2>2. ctx'[s].obj = ctx[s].obj /\ ctx'[s].lb = None
    BY <1>0, <2>1 DEF Ctx
  <2>3. ASSUME NEW l \in LB, Findable(s, l)' PROVE Leaving(ctx[s], l)'
    <3>0. ~Made(s, l) /\ ~Tagged(s, l)
      BY <2>1 DEF Made, Tagged, CanCreateNLB, Off, obj
    <3>1. Findable(s, l)
      BY <2>3, <3>0, NewlyFound
    <3>2. CASE nlb[l].going
      BY <2>1, <2>2, <2>3, <3>1, <3>2, GoingStays DEF Leaving, Findable, Off
    <3>3. CASE ~nlb[l].going
      <4>1. ctx[s].lb = l
        BY <1>0, <2>1, <3>1, <3>3 DEF WorksOn, Leaving, Found, PC
      <4>2. ~nlb'[l].live \/ nlb'[l].going
        BY <1>7, <4>1, DroppedGoes
      <4>. QED BY <2>1, <2>2, <2>3, <4>2 DEF Leaving, Findable, Off
    <3>. QED BY <3>2, <3>3
  <2>. QED BY <2>1, <2>2, <2>3 DEF WorksOn
<1>8. CASE CreateNLB(s)
  <2>0. CanCreateNLB(s)
    BY <1>8 DEF CreateNLB
  <2>1. PICK m \in LB : /\ NewNLB(s, m) /\ ctx'[s] = [ctx[s] EXCEPT !.lb = m]
                        /\ pc'[s] = "taglb"
    BY <1>8, PassAfter DEF CreateNLB
  <2>2. ctx'[s].obj = ctx[s].obj /\ ctx'[s].lb = m
    BY <1>0, <2>1 DEF Ctx
  <2>3. nlb'[m].by = s /\ \A l \in LB \ {m} : nlb'[l] = nlb[l]
    BY <2>1 DEF NewNLB, TypeOK
  <2>4. ~IsUserManaged(obj(s)) /\ ~Off(obj(s)) /\ \A l \in LB : ~Findable(s, l)
    BY <2>0, CreatesFirst DEF CanCreateNLB, Off
  <2>5. \A l \in LB : Findable(s, l)' => l = m
    BY <2>3, <2>4 DEF Findable
  <2>. QED BY <2>1, <2>2, <2>3, <2>4, <2>5 DEF WorksOn, obj
<1>9. CASE pc'[s] = pc[s] /\ ctx'[s] = ctx[s] /\ pc[s] \notin Found
  BY <1>1, <1>9
<1>. QED BY <1>2, <1>3, <1>4, <1>5, <1>6, <1>7, <1>8, <1>9, PassMoves DEF PassStep

\* No load balancer carries the mark of a Service at first.
LEMMA FindInvInit == Init => FindInv
<1>. SUFFICES ASSUME Init PROVE FindInv
  OBVIOUS
<1>1. /\ \A l \in LB : nlb[l].tag = None /\ nlb[l].name = None
      /\ \A s \in Service : pc[s] = "idle"
  BY DEF Init, FreshNlb
<1>2. None \notin Service
  BY ConstantsAssumption
<1>3. Marked /\ OneFindable
  BY <1>1, <1>2 DEF Marked, OneFindable, Findable
<1>4. Finds
  BY <1>1 DEF Finds, WorksOn, Found
<1>5. GoingOwned
  BY DEF Init, FreshNlb, GoingOwned
<1>. QED BY <1>3, <1>4, <1>5 DEF FindInv

\* Every step keeps what lookups rest on.
LEMMA FindInvStep == IInv /\ FindInv /\ [Next]_vars => FindInv'
  BY MarkedStep, OneFindableStep, FindsStep, GoingOwnedStep DEF FindInv
-----------------------------------------------------------------------------
(***************************************************************************)
(* One load balancer per Service.                                          *)
(***************************************************************************)
(***************************************************************************)
(* No Service asks for a name of its own.  With loadbalancer-name a lost   *)
(* answer to CreateLoadBalancer leaves a load balancer without the tag and *)
(* without the default name: no lookup finds it and the retry makes        *)
(* another one.                                                            *)
(***************************************************************************)
Unnamed == \A sp \in UsedSpec : ~sp.named

\* Every load balancer the controller made has its default name.
OwnNamed == \A s \in Service, l \in LB : nlb[l].by = s => nlb[l].name = s

\* The Service a pass works on has a spec of the user's.
LEMMA ObjUsed ==
  ASSUME SpecsUsed, NEW s \in Service, pc[s] # "idle"
  PROVE  obj(s).spec \in UsedSpec
  BY DEF SpecsUsed, Versions, obj

\* Every step keeps the default names.
LEMMA OwnNamedStep ==
  ASSUME Unnamed, IInv, SpecsUsed, OwnNamed, [Next]_vars
  PROVE  OwnNamed'
<1>. SUFFICES ASSUME NEW s \in Service, NEW l \in LB, nlb'[l].by = s
              PROVE  nlb'[l].name = s
  BY DEF OwnNamed
<1>0. s # None /\ s # User
  BY ConstantsAssumption, UserAssumption
<1>1. CASE nlb'[l] = nlb[l]
  BY <1>1 DEF OwnNamed
<1>2. CASE nlb'[l] # nlb[l]
  <2>1. LBStep(l)
    BY <1>2, LBMoves DEF LBStep
  <2>2. CASE Gone(l)
    <3>1. l \notin UserLB
      <4>1. IInv'
        BY IInvStep
      <4>. QED BY <1>0, <4>1 DEF IInv, UserNLBUnmarked
    <3>. QED BY <2>2, <3>1 DEF Gone, OwnNamed
  <2>3. ASSUME NEW r \in Service, Made(r, l) PROVE nlb'[l].name = s
    <3>1. ~obj(r).spec.named
      BY <2>3, ObjUsed DEF Made, CanCreateNLB, Unnamed
    <3>. QED BY <2>3, <3>1 DEF Made
  <2>4. ASSUME NEW r \in Service, Tagged(r, l) PROVE nlb'[l].name = s
    BY <2>4 DEF Tagged, OwnNamed
  <2>5. ASSUME NEW r \in Service, Renamed(r, l) PROVE nlb'[l].name = s
    <3>1. ~obj(r).spec.named
      BY <2>5, ObjUsed DEF Renamed, Unnamed
    <3>. QED BY <2>5, <3>1 DEF Renamed, OwnNamed
  <2>6. ASSUME NEW r \in Service, Leaves(r, l) PROVE nlb'[l].name = s
    BY <2>6 DEF Leaves, OwnNamed
  <2>. QED BY <2>1, <2>2, <2>3, <2>4, <2>5, <2>6 DEF LBStep
<1>. QED BY <1>1, <1>2

\* Whatever the user may do, any spec may follow any other.
LEMMA AnyOrder == Preorder(Spec \X Spec)
  BY ConstantsAssumption DEF Preorder

(***************************************************************************)
(* However often creations are repeated, tagging fails or the process      *)
(* restarts, no Service ever has two load balancers made for it, as long   *)
(* as the controller chooses their names.                                  *)
(***************************************************************************)
THEOREM OneNLB == ASSUME Unnamed PROVE Behaviour => []AtMostOneNLB
<1>. DEFINE Inv == VersionInv(Spec \X Spec) /\ FindInv /\ OwnNamed
<1>1. Init => Inv
  <2>1. Init => OwnNamed
    BY ConstantsAssumption, UserAssumption DEF Init, OwnNamed, FreshNlb
  <2>. QED BY <2>1, AnyOrder, VersionInvInit, FindInvInit
<1>2. IInv /\ IInv' /\ Inv /\ [Next]_vars => Inv'
  <2>1. IInv /\ IInv' /\ Inv /\ [Next]_vars => VersionInv(Spec \X Spec)'
    BY AnyOrder, VersionInvStep
  <2>2. IInv /\ Inv /\ [Next]_vars => OwnNamed'
    BY OwnNamedStep DEF VersionInv
  <2>. QED BY <2>1, <2>2, FindInvStep
<1>3. Inv => AtMostOneNLB
  BY DEF AtMostOneNLB, FindInv, OneFindable, Findable, OwnNamed
<1>. HIDE DEF Inv
<1>. QED BY <1>1, <1>2, <1>3, Invariance, PTL DEF Behaviour
-----------------------------------------------------------------------------
(***************************************************************************)
(* What a pass knows about server groups.                                  *)
(***************************************************************************)
\* The pass works on groups, or its locals still name them.
Grouped == {"vgroups", "taggroup", "addservers", "listeners", "dellis",
            "putlis", "cleanup"}

Applying == {"vgroups", "taggroup", "addservers"}

\* A tag names the Service the group was made for; a free id is not alive.
Tags ==
  \A g \in Group : /\ grp[g].tag # None => grp[g].tag = grp[g].svc
                   /\ grp[g].svc = None => ~grp[g].live

\* A Service has at most one tagged group per port.
OneGroup ==
  \A g, h \in Group :
    /\ grp[g].live /\ grp[h].live
    /\ grp[g].tag # None /\ grp[g].tag = grp[h].tag /\ grp[g].port = grp[h].port
    => g = h

\* The group of a port is alive and, once the port is dealt with, tagged.
BindsOne(s, at, c, p) ==
  c.bind[p] # None =>
    /\ p \in LocalPorts(c.obj)
    /\ grp[c.bind[p]].live /\ grp[c.bind[p]].svc = s /\ grp[c.bind[p]].port = p
    /\ ~(at = "taggroup" /\ p \in c.todo) => grp[c.bind[p]].tag = s

\* A pass knows every tagged group of s, and those it listed are alive.
Knows(s, c) ==
  /\ \A g \in Group : grp[g].live /\ grp[g].tag = s =>
       g \in c.sgs \/ \E p \in Port : c.bind[p] = g
  /\ \A g \in c.sgs : /\ grp[g].svc # None
                      /\ grp[g].svc = s => grp[g].live /\ grp[g].tag = s

\* Where the loop over the ports is.
LoopAt(at, c) ==
  /\ at \in Early => \A p \in Port : c.bind[p] = None
  /\ at \in Applying =>
       /\ c.todo \subseteq LocalPorts(c.obj)
       /\ \A p \in LocalPorts(c.obj) \ c.todo : c.bind[p] # None
  /\ at = "vgroups" => \A p \in c.todo : c.bind[p] = None
  /\ at \in {"taggroup", "addservers"} =>
       \A p, q \in c.todo : c.bind[p] # None /\ c.bind[q] # None => p = q
  /\ at \in Grouped \ Applying => \A p \in LocalPorts(c.obj) : c.bind[p] # None
  /\ at = "putlis" => c.todo \subseteq LocalPorts(c.obj)

\* The group about to be tagged is the only one of its port.
NoneYet(s, c) ==
  \A p \in c.todo : c.bind[p] # None =>
    \A g \in Group : grp[g].live /\ grp[g].tag = s => grp[g].port # p

GroupsAt(s, at, c) ==
  /\ at \in Grouped => Knows(s, c) /\ \A p \in Port : BindsOne(s, at, c, p)
  /\ LoopAt(at, c)
  /\ at = "taggroup" => NoneYet(s, c)

GroupInv ==
  Tags /\ OneGroup /\ \A s \in Service : GroupsAt(s, pc[s], ctx[s])

\* What identifies a group is as it was; its servers may change.
Kept(g) ==
  /\ grp'[g].live = grp[g].live /\ grp'[g].svc = grp[g].svc
  /\ grp'[g].port = grp[g].port /\ grp'[g].tag = grp[g].tag

\* No group of s is touched.
Foreign(s) ==
  \A g \in Group :
    \/ Kept(g)
    \/ /\ grp[g].svc # s /\ grp'[g].svc # s
       /\ grp[g].tag # s /\ grp'[g].tag # s
       /\ grp'[g].svc # None

GroupMade(s, p, g) ==
  /\ pc[s] = "vgroups" /\ p \in ctx[s].todo /\ Named(s, p) = {}
  /\ FreeGroup(g)
  /\ grp'[g].live /\ grp'[g].svc = s /\ grp'[g].port = p /\ grp'[g].tag = None

GroupTagged(s, p, g) ==
  /\ pc[s] = "taggroup" /\ p \in ctx[s].todo /\ ctx[s].bind[p] = g
  /\ grp'[g].live = grp[g].live /\ grp'[g].svc = grp[g].svc
  /\ grp'[g].port = grp[g].port /\ grp'[g].tag = s

GroupDropped(s, g) ==
  /\ pc[s] = "cleanup" /\ g \in UnusedGroups(s)
  /\ ~grp'[g].live /\ grp'[g].svc = grp[g].svc
  /\ grp'[g].port = grp[g].port /\ grp'[g].tag = grp[g].tag

(***************************************************************************)
(* The work of a pass on groups and on listeners, whether the jobs of its  *)
(* calls are over or not.                                                  *)
(***************************************************************************)
GroupWork(s) == GroupStep(s) \/ \E p \in Port : ServersUnfinished(s, p)

ListenerWork(s) ==
  ListenerStep(s) \/ \E p \in Port : DeleteNLBListenerUnfinished(s, p)

UpdatesServers(s, p) ==
  UpdateServerGroup(s, p) \/ (pc[s] = "vgroups" /\ ServersUnfinished(s, p))

AddsServers(s, p) ==
  BatchAddServers(s, p) \/ (pc[s] = "addservers" /\ ServersUnfinished(s, p))

\* The servers of the group g are written; what is in it may not be known.
Filling(s, g) ==
  /\ g \in Group
  /\ \E e \in {ctx[s].eps, Unfinished} : grp' = [grp EXCEPT ![g].servers = e]

LEMMA Updating ==
  ASSUME IInv, NEW s \in Service, NEW p \in Port, UpdatesServers(s, p)
  PROVE  /\ pc[s] = "vgroups" /\ pc'[s] = "vgroups" /\ p \in ctx[s].todo
         /\ UNCHANGED <<kube, nlb, lis>>
         /\ \E g \in Named(s, p) :
              /\ Filling(s, g)
              /\ ctx'[s] = [ctx[s] EXCEPT !.bind[p] = g, !.todo = @ \ {p}]
<1>. USE DEF IInv
<1>0. ctx[s].sgs \subseteq Group
  BY CtxFields DEF TypeOK
<1>1. CASE UpdateServerGroup(s, p)
  BY <1>0, <1>1, PassAfter DEF UpdateServerGroup, Filling, Named
<1>2. CASE pc[s] = "vgroups" /\ ServersUnfinished(s, p)
  BY <1>0, <1>2, PassAfter DEF ServersUnfinished, Filling, Named
<1>. QED BY <1>1, <1>2 DEF UpdatesServers

LEMMA Adding ==
  ASSUME IInv, NEW s \in Service, NEW p \in Port, AddsServers(s, p)
  PROVE  /\ pc[s] = "addservers" /\ pc'[s] = "vgroups" /\ p \in ctx[s].todo
         /\ UNCHANGED <<kube, nlb, lis>>
         /\ Filling(s, ctx[s].bind[p])
         /\ ctx'[s] = [ctx[s] EXCEPT !.todo = @ \ {p}]
<1>. USE DEF IInv
<1>0. ctx[s] \in Ctx /\ ctx[s].bind[p] \in Group \cup {None}
  BY CtxFields DEF TypeOK
<1>1. CASE BatchAddServers(s, p)
  BY <1>0, <1>1, PassAfter DEF BatchAddServers, Filling
<1>2. CASE pc[s] = "addservers" /\ ServersUnfinished(s, p)
  <2>1. PICK g \in Group :
          /\ g = ctx[s].bind[p] /\ grp' = [grp EXCEPT ![g].servers = Unfinished]
          /\ ctx'[s] = [ctx[s] EXCEPT !.bind[p] = g, !.todo = @ \ {p}]
    BY <1>2, PassAfter DEF ServersUnfinished
  <2>2. ctx'[s] = [ctx[s] EXCEPT !.todo = @ \ {p}]
    BY <1>0, <2>1 DEF Ctx
  <2>. QED BY <1>2, <2>1, <2>2, PassAfter DEF ServersUnfinished, Filling
<1>. QED BY <1>1, <1>2 DEF AddsServers

LEMMA Unfinishing ==
  ASSUME NEW s \in Service, NEW p \in Port, ServersUnfinished(s, p)
  PROVE  UpdatesServers(s, p) \/ AddsServers(s, p)
  BY DEF ServersUnfinished, UpdatesServers, AddsServers

GroupChange(s, g) ==
  /\ GroupWork(s) \/ pc'[s] = "idle"
  /\ \A h \in Group \ {g} : Kept(h)
  /\ \/ \E p \in Port : GroupMade(s, p, g) \/ GroupTagged(s, p, g)
     \/ GroupDropped(s, g)

\* The other calls leave the groups alone.
LEMMA GroupCalls ==
  ASSUME [Next]_vars
  PROVE  \/ UNCHANGED grp
         \/ \E s \in Service : GroupWork(s)
         \/ \E s \in Service, p \in Port : CreateNLBServerGroupLost(s, p)
<1>1. CASE UNCHANGED vars
  BY <1>1 DEF vars
<1>2. ASSUME NEW s \in Service,
             ReconcileSkip(s) \/ ReconcileStart(s) \/ FinalizerStep(s)
      PROVE  UNCHANGED grp
  BY <1>2 DEF ReconcileSkip, ReconcileStart, FinalizerStep, AddFinalizersHas,
     AddFinalizersPatch, AddFinalizersError, RemoveFinalizersHasNot,
     RemoveFinalizersPatch, RemoveFinalizersError
<1>3. ASSUME NEW s \in Service, LoadBalancerStep(s)
      PROVE  UNCHANGED grp
  BY <1>3 DEF LoadBalancerStep, FindNLB, FindNLBGone, DeleteNLBSkip, DeleteNLB,
     CreateNLB, CreateNLBRefused, UpdateNLB, UpdateNLBRefused, TagNLBResource
<1>4. ASSUME NEW s \in Service, ListenerStep(s) \/ StatusStep(s)
      PROVE  UNCHANGED grp
  BY <1>4 DEF ListenerStep, ListNLBListeners, ListenersDeleted, ListenersApplied,
     DeleteNLBListener, UpdateOrCreateNLBListener, StatusStep, addServiceLabels,
     updateServiceStatus, removeServiceLabels, removeServiceStatus
<1>5. ASSUME NEW s \in Service, ServiceEvent(s) \/ Faulty(s)
      PROVE  \/ UNCHANGED grp \/ GroupWork(s)
             \/ \E p \in Port : CreateNLBServerGroupLost(s, p)
  BY <1>5 DEF ServiceEvent, Faulty, CallFails, RemoveFinalizersLost, CreateNLBLost,
     DeleteNLBUnfinished, DeleteNLBListenerUnfinished, GroupWork
<1>6. ASSUME NEW s \in Service,
             EditService(s) \/ DeleteService(s) \/ BackendsChange(s)
      PROVE  UNCHANGED grp
  BY <1>6 DEF EditService, DeleteService, BackendsChange
<1>7. CASE Restart \/ JobEnds \/ \E l \in LB : ConsoleDeleteNLB(l)
  BY <1>7 DEF Restart, ConsoleDeleteNLB, JobEnds, NLBJobEnds, ListenerJobEnds
<1>. QED BY <1>1, <1>2, <1>3, <1>4, <1>5, <1>6, <1>7
     DEF Next, Worker, UserAction, GroupWork

\* What a call does to the groups.
LEMMA GroupMoves ==
  ASSUME IInv, [Next]_vars
  PROVE  \/ \A g \in Group : Kept(g)
         \/ \E s \in Service, g \in Group : GroupChange(s, g)
<1>. USE DEF IInv
<1>0. grp \in [Group -> ServerGroup] /\ (\A g \in Group : grp[g] \in ServerGroup)
      /\ (\A s \in Service : ctx[s] \in Ctx)
  BY DEF TypeOK
<1>1. CASE UNCHANGED grp
  BY <1>1 DEF Kept
<1>2. ASSUME NEW g \in Group, NEW e, grp' = [grp EXCEPT ![g].servers = e]
      PROVE  \A h \in Group : Kept(h)
  BY <1>0, <1>2 DEF Kept, ServerGroup
<1>3. ASSUME NEW s \in Service, NEW p \in Port,
             UpdatesServers(s, p) \/ AddsServers(s, p)
      PROVE  \A h \in Group : Kept(h)
  <2>1. PICK g : Filling(s, g)
    <3>1. CASE UpdatesServers(s, p)
      BY <3>1, Updating
    <3>2. CASE AddsServers(s, p)
      BY <3>2, Adding
    <3>. QED BY <1>3, <3>1, <3>2
  <2>2. g \in Group /\ \E e : grp' = [grp EXCEPT ![g].servers = e]
    BY <2>1 DEF Filling
  <2>. QED BY <1>2, <2>2
<1>4. ASSUME NEW s \in Service, NEW p \in Port,
             CreateNLBServerGroup(s, p) \/ CreateNLBServerGroupLost(s, p)
      PROVE  \E g \in Group : GroupChange(s, g)
  <2>1. PICK g \in Group :
          /\ pc[s] = "vgroups" /\ p \in ctx[s].todo /\ Named(s, p) = {}
          /\ FreeGroup(g) /\ NewGroup(s, p, g)
    BY <1>4 DEF CreateNLBServerGroup, CreateNLBServerGroupLost
  <2>2. GroupMade(s, p, g) /\ \A h \in Group \ {g} : Kept(h)
    BY <1>0, <2>1 DEF GroupMade, NewGroup, Kept
  <2>3. GroupWork(s) \/ pc'[s] = "idle"
    BY <1>4, PassAfter DEF GroupWork, GroupStep, CreateNLBServerGroupLost
  <2>. QED BY <2>2, <2>3 DEF GroupChange
<1>5. ASSUME NEW s \in Service, NEW p \in Port, TagServerGroup(s, p)
      PROVE  \E g \in Group : GroupChange(s, g)
  <2>1. PICK g \in Group : g = ctx[s].bind[p]
    BY <1>0, <1>5, CtxFields DEF TagServerGroup
  <2>2. grp' = [grp EXCEPT ![g].tag = s]
    BY <1>5, <2>1 DEF TagServerGroup
  <2>3. GroupTagged(s, p, g)
    BY <1>0, <1>5, <2>1, <2>2 DEF GroupTagged, TagServerGroup, ServerGroup
  <2>4. \A h \in Group \ {g} : Kept(h)
    BY <1>0, <2>2 DEF Kept
  <2>. QED BY <1>5, <2>3, <2>4 DEF GroupChange, GroupWork, GroupStep
<1>6. ASSUME NEW s \in Service, DeleteServerGroup(s)
      PROVE  \E g \in Group : GroupChange(s, g)
  <2>1. PICK g \in UnusedGroups(s) : grp' = [grp EXCEPT ![g].live = FALSE]
    BY <1>6 DEF DeleteServerGroup
  <2>2. g \in Group
    BY <1>0, CtxFields DEF UnusedGroups
  <2>3. GroupDropped(s, g)
    BY <1>0, <1>6, <2>1, <2>2 DEF GroupDropped, DeleteServerGroup, ServerGroup
  <2>4. \A h \in Group \ {g} : Kept(h)
    BY <1>0, <2>1, <2>2 DEF Kept
  <2>. QED BY <1>6, <2>2, <2>3, <2>4 DEF GroupChange, GroupWork, GroupStep
<1>7. ASSUME NEW s \in Service,
             ListNLBServerGroups(s) \/ VGroupsApplied(s) \/ CleanupDone(s)
      PROVE  UNCHANGED grp
  BY <1>7 DEF ListNLBServerGroups, VGroupsApplied, CleanupDone
<1>8. ASSUME NEW s \in Service, NEW p \in Port,
             \/ UpdateServerGroup(s, p) \/ BatchAddServers(s, p)
             \/ ServersUnfinished(s, p)
      PROVE  \A h \in Group : Kept(h)
  BY <1>3, <1>8, Unfinishing DEF UpdatesServers, AddsServers
<1>. QED BY <1>1, <1>4, <1>5, <1>6, <1>7, <1>8, GroupCalls DEF GroupWork, GroupStep

\* Where a pass that works on groups or listeners came from.
LEMMA GroupedMoves ==
  ASSUME IInv, [Next]_vars, NEW s \in Service,
         pc'[s] \in Grouped \cup {"addlabels"}
  PROVE  \/ pc'[s] = pc[s] /\ ctx'[s] = ctx[s]
         \/ GroupWork(s) \/ ListenerWork(s)
<1>. USE DEF IInv, Grouped
<1>1. CASE Untouched(s) \/ ServiceEvent(s) \/ EditService(s) \/ DeleteService(s) \/ ReconcileSkip(s)
  BY <1>1 DEF Untouched, ServiceEvent, EditService, DeleteService, ReconcileSkip
<1>2. CASE Restart
  BY <1>2 DEF Restart
<1>3. CASE ReconcileStart(s) \/ FinalizerStep(s)
  BY <1>3, PassAfter DEF ReconcileStart, FinalizerStep, AddFinalizersHas,
     AddFinalizersPatch, AddFinalizersError, RemoveFinalizersHasNot,
     RemoveFinalizersPatch, RemoveFinalizersError
<1>4. CASE LoadBalancerStep(s)
  BY <1>4, PassAfter DEF LoadBalancerStep, FindNLB, FindNLBGone, DeleteNLBSkip,
     DeleteNLB, CreateNLB, CreateNLBRefused, UpdateNLB, UpdateNLBRefused,
     TagNLBResource, AfterFind
<1>5. CASE StatusStep(s)
  BY <1>5, PassAfter DEF StatusStep, addServiceLabels,
     updateServiceStatus, removeServiceLabels, removeServiceStatus
<1>6. CASE Faulty(s)
  BY <1>6, PassAfter DEF Faulty, CallFails, CreateNLBLost, RemoveFinalizersLost,
     CreateNLBServerGroupLost, DeleteNLBUnfinished, GroupWork, ListenerWork
<1>. QED BY <1>1, <1>2, <1>3, <1>4, <1>5, <1>6, Bystander
     DEF Mine, Worker, GroupWork, ListenerWork

\* The groups of a Service are only changed by its own pass.
LEMMA ForeignStep ==
  ASSUME IInv, GroupInv, [Next]_vars, NEW s \in Service
  PROVE  Foreign(s) \/ GroupWork(s) \/ pc'[s] = "idle"
<1>. SUFFICES ASSUME ~GroupWork(s), pc'[s] # "idle" PROVE Foreign(s)
  OBVIOUS
<1>0. None \notin Service
  BY ConstantsAssumption
<1>1. CASE \A g \in Group : Kept(g)
  BY <1>1 DEF Foreign
<1>2. ASSUME NEW r \in Service, NEW g \in Group, GroupChange(r, g)
      PROVE  Foreign(s)
  <2>1. r # s /\ \A h \in Group \ {g} : Kept(h)
    BY <1>2 DEF GroupChange
  <2>2. ASSUME NEW p \in Port, GroupMade(r, p, g)
        PROVE  /\ grp[g].svc # s /\ grp'[g].svc # s /\ grp[g].tag # s
               /\ grp'[g].tag # s /\ grp'[g].svc # None
    BY <1>0, <2>1, <2>2 DEF GroupMade, FreeGroup, GroupInv, Tags
  <2>3. ASSUME NEW p \in Port, GroupTagged(r, p, g)
        PROVE  /\ grp[g].svc # s /\ grp'[g].svc # s /\ grp[g].tag # s
               /\ grp'[g].tag # s /\ grp'[g].svc # None
    <3>1. BindsOne(r, "taggroup", ctx[r], p)
      BY <2>3 DEF GroupTagged, GroupInv, GroupsAt, Grouped
    <3>2. g # None
      BY ConstantsAssumption
    <3>3. grp[g].svc = r
      BY <2>3, <3>1, <3>2 DEF BindsOne, GroupTagged
    <3>. QED BY <1>0, <2>1, <2>3, <3>3 DEF GroupTagged, GroupInv, Tags
  <2>4. ASSUME GroupDropped(r, g)
        PROVE  /\ grp[g].svc # s /\ grp'[g].svc # s /\ grp[g].tag # s
               /\ grp'[g].tag # s /\ grp'[g].svc # None
    BY <1>0, <2>1, <2>4 DEF GroupDropped, UnusedGroups, GroupInv, Tags
  <2>. QED BY <1>2, <2>1, <2>2, <2>3, <2>4 DEF Foreign, GroupChange
<1>. QED BY <1>1, <1>2, GroupMoves

\* A pass that stays as it is.
LEMMA GroupsStay ==
  ASSUME IInv, NEW s \in Service, GroupsAt(s, pc[s], ctx[s]), Foreign(s),
         pc'[s] = pc[s], ctx'[s] = ctx[s]
  PROVE  GroupsAt(s, pc[s], ctx[s])'
<1>0. ctx[s] \in Ctx /\ s # None /\ None \notin Group
  BY ConstantsAssumption DEF IInv, TypeOK
<1>1. LoopAt(pc'[s], ctx'[s])
  BY DEF GroupsAt
<1>2. ASSUME pc[s] \in Grouped, NEW p \in Port PROVE BindsOne(s, pc[s], ctx[s], p)'
  <2>1. SUFFICES ASSUME ctx[s].bind[p] # None PROVE BindsOne(s, pc[s], ctx[s], p)'
    BY DEF BindsOne
  <2>2. BindsOne(s, pc[s], ctx[s], p)
    BY <1>2 DEF GroupsAt
  <2>3. ctx[s].bind[p] \in Group
    BY <1>0, <2>1, CtxFields
  <2>4. Kept(ctx[s].bind[p])
    BY <2>1, <2>2, <2>3 DEF BindsOne, Foreign
  <2>. QED BY <2>1, <2>2, <2>4 DEF BindsOne, Kept
<1>3. ASSUME pc[s] \in Grouped PROVE Knows(s, ctx[s])'
  <2>1. Knows(s, ctx[s]) /\ ctx[s].sgs \subseteq Group
    BY <1>0, <1>3, CtxFields DEF GroupsAt
  <2>2. \A g \in Group : grp'[g].live /\ grp'[g].tag = s =>
          g \in ctx[s].sgs \/ \E p \in Port : ctx[s].bind[p] = g
    BY <2>1 DEF Knows, Foreign, Kept
  <2>3. \A g \in ctx[s].sgs : /\ grp'[g].svc # None
                              /\ grp'[g].svc = s => grp'[g].live /\ grp'[g].tag = s
    BY <2>1 DEF Knows, Foreign, Kept
  <2>. QED BY <2>2, <2>3 DEF Knows
<1>4. ASSUME pc[s] = "taggroup" PROVE NoneYet(s, ctx[s])'
  BY <1>4 DEF GroupsAt, NoneYet, Foreign, Kept
<1>. QED BY <1>1, <1>2, <1>3, <1>4 DEF GroupsAt

\* ListNLBServerGroups: the pass knows every tagged group of s.
LEMMA GroupsListed ==
  ASSUME IInv, Tags, NEW s \in Service, GroupsAt(s, pc[s], ctx[s]),
         ListNLBServerGroups(s)
  PROVE  GroupsAt(s, pc[s], ctx[s])'
<1>0. ctx[s] \in Ctx /\ s # None
  BY ConstantsAssumption DEF IInv, TypeOK
<1>1. PICK x, y : /\ x = {g \in Group : grp[g].live /\ grp[g].tag # None}
                  /\ y = LocalPorts(obj(s))
  OBVIOUS
<1>2. /\ pc[s] = "groups" /\ pc'[s] = "vgroups" /\ grp' = grp
      /\ ctx'[s] = [ctx[s] EXCEPT !.sgs = x, !.todo = y]
  BY <1>1, PassAfter DEF ListNLBServerGroups, IInv
<1>3. /\ ctx'[s].sgs = x /\ ctx'[s].todo = y
      /\ ctx'[s].obj = ctx[s].obj /\ ctx'[s].bind = ctx[s].bind
  BY <1>0, <1>2 DEF Ctx
<1>4. \A p \in Port : ctx[s].bind[p] = None
  BY <1>2 DEF GroupsAt, LoopAt, Early
<1>5. Knows(s, ctx[s])'
  BY <1>0, <1>1, <1>2, <1>3 DEF Knows, Tags
<1>6. \A p \in Port : BindsOne(s, pc[s], ctx[s], p)'
  BY <1>3, <1>4 DEF BindsOne
<1>7. LoopAt(pc'[s], ctx'[s])
  <2>1. y \subseteq Port
    BY <1>1, <1>2, ObjectFields DEF IInv, PassesOK, PassAt, obj
  <2>. QED BY <1>1, <1>2, <1>3, <1>4, <2>1
       DEF LoopAt, Early, Applying, Grouped, obj
<1>. QED BY <1>2, <1>5, <1>6, <1>7 DEF GroupsAt

\* What a pass knows about groups, after a step that changes only where its
\* loop is.
LEMMA GroupsCarried ==
  ASSUME IInv, NEW s \in Service, GroupsAt(s, pc[s], ctx[s]), UNCHANGED grp,
         pc[s] \in Grouped \ {"taggroup"}, pc'[s] \in Grouped \ {"taggroup"},
         ctx'[s].obj = ctx[s].obj, ctx'[s].sgs = ctx[s].sgs,
         ctx'[s].bind = ctx[s].bind, LoopAt(pc'[s], ctx'[s])
  PROVE  GroupsAt(s, pc[s], ctx[s])'
  BY DEF GroupsAt, Knows, BindsOne

\* UpdateServerGroup: the port gets the group named after it.
LEMMA GroupFound ==
  ASSUME IInv, NEW s \in Service, NEW p \in Port, GroupsAt(s, pc[s], ctx[s]),
         UpdatesServers(s, p)
  PROVE  GroupsAt(s, pc[s], ctx[s])'
<1>0. /\ ctx[s] \in Ctx /\ grp \in [Group -> ServerGroup]
      /\ None \notin Group /\ ctx[s].todo \subseteq Port /\ ctx[s].sgs \subseteq Group
  BY ConstantsAssumption, CtxFields DEF IInv, TypeOK
<1>1. PICK g \in Named(s, p) :
        /\ Filling(s, g)
        /\ ctx'[s] = [ctx[s] EXCEPT !.bind[p] = g, !.todo = @ \ {p}]
  BY Updating
<1>2. /\ pc[s] = "vgroups" /\ pc'[s] = "vgroups" /\ p \in ctx[s].todo
      /\ g \in ctx[s].sgs /\ grp[g].svc = s /\ grp[g].port = p
  BY <1>1, Updating DEF Named
<1>3. /\ ctx'[s].obj = ctx[s].obj /\ ctx'[s].sgs = ctx[s].sgs
      /\ ctx'[s].todo = ctx[s].todo \ {p}
      /\ ctx'[s].bind[p] = g
      /\ \A q \in Port \ {p} : ctx'[s].bind[q] = ctx[s].bind[q]
  BY <1>0, <1>1 DEF Ctx
<1>4. g \in Group /\ \A h \in Group : Kept(h)
  BY <1>0, <1>1, <1>2 DEF Kept, Filling, ServerGroup
<1>5. /\ Knows(s, ctx[s]) /\ LoopAt("vgroups", ctx[s])
      /\ \A q \in Port : BindsOne(s, "vgroups", ctx[s], q)
  BY <1>2 DEF GroupsAt, Grouped
<1>6. ctx[s].bind[p] = None /\ p \in LocalPorts(ctx[s].obj)
  BY <1>2, <1>5 DEF LoopAt, Applying
<1>7. grp[g].live /\ grp[g].tag = s
  BY <1>2, <1>5 DEF Knows
<1>8. Knows(s, ctx[s])'
  <2>1. ASSUME NEW h \in Group, grp'[h].live, grp'[h].tag = s
        PROVE  h \in ctx'[s].sgs \/ \E q \in Port : ctx'[s].bind[q] = h
    <3>1. h \in ctx[s].sgs \/ \E q \in Port : ctx[s].bind[q] = h
      BY <1>4, <1>5, <2>1 DEF Knows, Kept
    <3>2. ASSUME NEW q \in Port, ctx[s].bind[q] = h PROVE ctx'[s].bind[q] = h
      BY <1>0, <1>3, <1>6, <3>2
    <3>. QED BY <1>3, <3>1, <3>2
  <2>2. ASSUME NEW h \in ctx'[s].sgs
        PROVE  /\ grp'[h].svc # None
               /\ grp'[h].svc = s => grp'[h].live /\ grp'[h].tag = s
    BY <1>0, <1>3, <1>4, <1>5, <2>2 DEF Knows, Kept
  <2>. QED BY <2>1, <2>2 DEF Knows
<1>9. ASSUME NEW q \in Port PROVE BindsOne(s, pc[s], ctx[s], q)'
  <2>1. CASE q = p
    BY <1>2, <1>3, <1>4, <1>6, <1>7, <2>1 DEF BindsOne, Kept
  <2>2. CASE q # p
    <3>1. SUFFICES ASSUME ctx[s].bind[q] # None PROVE BindsOne(s, pc[s], ctx[s], q)'
      BY <1>3, <2>2 DEF BindsOne
    <3>2. ctx[s].bind[q] \in Group /\ BindsOne(s, "vgroups", ctx[s], q)
      BY <1>0, <1>5, <3>1, CtxFields
    <3>3. Kept(ctx[s].bind[q])
      BY <1>4, <3>2
    <3>. QED BY <1>2, <1>3, <2>2, <3>1, <3>2, <3>3 DEF BindsOne, Kept
  <2>. QED BY <2>1, <2>2
<1>10. LoopAt(pc'[s], ctx'[s])
  <2>1. LocalPorts(ctx[s].obj) \subseteq Port
    BY <1>2, ObjectFields DEF IInv, PassesOK, PassAt
  <2>2. g # None
    BY <1>0, <1>4
  <2>. QED BY <1>0, <1>2, <1>3, <1>5, <1>6, <2>1, <2>2 DEF LoopAt, Early, Applying, Grouped
<1>. QED BY <1>2, <1>8, <1>9, <1>10 DEF GroupsAt

\* CreateNLBServerGroup: the port gets a new group, not tagged yet.
LEMMA GroupCreated ==
  ASSUME IInv, Tags, NEW s \in Service, NEW p \in Port,
         GroupsAt(s, pc[s], ctx[s]), CreateNLBServerGroup(s, p)
  PROVE  GroupsAt(s, pc[s], ctx[s])'
<1>0. /\ ctx[s] \in Ctx /\ grp \in [Group -> ServerGroup]
      /\ None \notin Group /\ ctx[s].todo \subseteq Port /\ ctx[s].sgs \subseteq Group
      /\ s # None
  BY ConstantsAssumption, CtxFields DEF IInv, TypeOK
<1>1. PICK g \in Group :
        /\ FreeGroup(g) /\ NewGroup(s, p, g)
        /\ ctx'[s] = [ctx[s] EXCEPT !.bind[p] = g]
  BY PassAfter DEF CreateNLBServerGroup, IInv
<1>2. /\ pc[s] = "vgroups" /\ pc'[s] = "taggroup" /\ p \in ctx[s].todo
      /\ Named(s, p) = {}
  BY PassAfter DEF CreateNLBServerGroup, IInv
<1>3. /\ ctx'[s].obj = ctx[s].obj /\ ctx'[s].sgs = ctx[s].sgs
      /\ ctx'[s].todo = ctx[s].todo
      /\ ctx'[s].bind[p] = g
      /\ \A q \in Port \ {p} : ctx'[s].bind[q] = ctx[s].bind[q]
  BY <1>0, <1>1 DEF Ctx
<1>4. /\ grp'[g].live /\ grp'[g].svc = s /\ grp'[g].port = p /\ grp'[g].tag = None
      /\ \A h \in Group \ {g} : grp'[h] = grp[h]
      /\ grp[g].svc = None
  BY <1>0, <1>1 DEF NewGroup, FreeGroup
<1>5. /\ Knows(s, ctx[s]) /\ LoopAt("vgroups", ctx[s])
      /\ \A q \in Port : BindsOne(s, "vgroups", ctx[s], q)
  BY <1>2 DEF GroupsAt, Grouped
<1>6. ctx[s].bind[p] = None /\ p \in LocalPorts(ctx[s].obj)
  BY <1>2, <1>5 DEF LoopAt, Applying
<1>7. ASSUME NEW h \in Group, grp'[h].live, grp'[h].tag = s
      PROVE  /\ h # g /\ grp[h].live /\ grp[h].tag = s /\ grp'[h] = grp[h]
             /\ grp[h].svc = s
  BY <1>0, <1>4, <1>7 DEF Tags
<1>8. Knows(s, ctx[s])'
  <2>1. ASSUME NEW h \in Group, grp'[h].live, grp'[h].tag = s
        PROVE  h \in ctx'[s].sgs \/ \E q \in Port : ctx'[s].bind[q] = h
    <3>1. h \in ctx[s].sgs \/ \E q \in Port : ctx[s].bind[q] = h
      BY <1>5, <1>7, <2>1 DEF Knows
    <3>2. ASSUME NEW q \in Port, ctx[s].bind[q] = h PROVE ctx'[s].bind[q] = h
      BY <1>0, <1>3, <1>6, <3>2
    <3>. QED BY <1>3, <3>1, <3>2
  <2>2. ASSUME NEW h \in ctx'[s].sgs
        PROVE  /\ grp'[h].svc # None
               /\ grp'[h].svc = s => grp'[h].live /\ grp'[h].tag = s
    <3>1. h \in ctx[s].sgs /\ h \in Group /\ grp[h].svc # None
      BY <1>0, <1>3, <1>5, <2>2 DEF Knows
    <3>2. h # g
      BY <1>4, <3>1
    <3>. QED BY <1>4, <1>5, <3>1, <3>2 DEF Knows
  <2>. QED BY <2>1, <2>2 DEF Knows
<1>9. ASSUME NEW q \in Port PROVE BindsOne(s, pc[s], ctx[s], q)'
  <2>1. CASE q = p
    BY <1>2, <1>3, <1>4, <1>6, <2>1 DEF BindsOne
  <2>2. CASE q # p
    <3>1. SUFFICES ASSUME ctx[s].bind[q] # None PROVE BindsOne(s, pc[s], ctx[s], q)'
      BY <1>3, <2>2 DEF BindsOne
    <3>2. ctx[s].bind[q] \in Group /\ BindsOne(s, "vgroups", ctx[s], q)
      BY <1>0, <1>5, <3>1, CtxFields
    <3>3. ctx[s].bind[q] # g
      BY <1>0, <1>4, <3>1, <3>2 DEF BindsOne
    <3>4. grp'[ctx[s].bind[q]] = grp[ctx[s].bind[q]]
      BY <1>4, <3>2, <3>3
    <3>. QED BY <1>2, <1>3, <2>2, <3>1, <3>2, <3>4 DEF BindsOne
  <2>. QED BY <2>1, <2>2
<1>10. LoopAt(pc'[s], ctx'[s])
  <2>1. LocalPorts(ctx[s].obj) \subseteq Port
    BY <1>2, ObjectFields DEF IInv, PassesOK, PassAt
  <2>2. \A q \in ctx[s].todo : ctx[s].bind[q] = None
    BY <1>5 DEF LoopAt
  <2>3. /\ ctx[s].todo \subseteq LocalPorts(ctx[s].obj)
        /\ \A q \in LocalPorts(ctx[s].obj) \ ctx[s].todo : ctx[s].bind[q] # None
    BY <1>5 DEF LoopAt, Applying
  <2>. QED BY <1>0, <1>2, <1>3, <2>1, <2>2, <2>3 DEF LoopAt, Early, Applying, Grouped
<1>11. NoneYet(s, ctx[s])'
  <2>1. ASSUME NEW q \in ctx[s].todo, ctx'[s].bind[q] # None PROVE q = p
    BY <1>0, <1>3, <1>5, <2>1 DEF LoopAt
  <2>2. ASSUME NEW h \in Group, grp'[h].live, grp'[h].tag = s, grp'[h].port = p
        PROVE  FALSE
    <3>1. h \in ctx[s].sgs \/ \E q \in Port : ctx[s].bind[q] = h
      BY <1>5, <1>7, <2>2 DEF Knows
    <3>2. h \notin ctx[s].sgs
      BY <1>2, <1>7, <2>2 DEF Named
    <3>3. ASSUME NEW q \in Port, ctx[s].bind[q] = h PROVE FALSE
      <4>1. grp[h].port = q
        BY <1>0, <1>5, <3>3 DEF BindsOne
      <4>. QED BY <1>0, <1>6, <1>7, <2>2, <3>3, <4>1
    <3>. QED BY <3>1, <3>2, <3>3
  <2>. QED BY <1>3, <2>1, <2>2 DEF NoneYet
<1>. QED BY <1>2, <1>8, <1>9, <1>10, <1>11 DEF GroupsAt

\* TagServerGroup: the new group can be listed from now on.
LEMMA GroupGetsTag ==
  ASSUME IInv, NEW s \in Service, NEW p \in Port,
         GroupsAt(s, pc[s], ctx[s]), TagServerGroup(s, p)
  PROVE  GroupsAt(s, pc[s], ctx[s])'
<1>0. /\ ctx[s] \in Ctx /\ grp \in [Group -> ServerGroup]
      /\ None \notin Group /\ ctx[s].todo \subseteq Port /\ ctx[s].sgs \subseteq Group
      /\ s # None
  BY ConstantsAssumption, CtxFields DEF IInv, TypeOK
<1>1. PICK g \in Group : g = ctx[s].bind[p]
  BY <1>0, CtxFields DEF TagServerGroup
<1>2. /\ pc[s] = "taggroup" /\ pc'[s] = "addservers" /\ p \in ctx[s].todo
      /\ ctx'[s] = ctx[s] /\ grp' = [grp EXCEPT ![g].tag = s]
  BY <1>1, PassAfter DEF TagServerGroup, IInv
<1>3. /\ grp'[g].live = grp[g].live /\ grp'[g].svc = grp[g].svc
      /\ grp'[g].port = grp[g].port /\ grp'[g].tag = s
      /\ \A h \in Group \ {g} : grp'[h] = grp[h]
  BY <1>0, <1>2 DEF ServerGroup
<1>4. /\ Knows(s, ctx[s]) /\ LoopAt("taggroup", ctx[s])
      /\ \A q \in Port : BindsOne(s, "taggroup", ctx[s], q)
  BY <1>2 DEF GroupsAt, Grouped
<1>5. Knows(s, ctx[s])'
  <2>1. ASSUME NEW h \in Group, grp'[h].live, grp'[h].tag = s
        PROVE  h \in ctx'[s].sgs \/ \E q \in Port : ctx'[s].bind[q] = h
    BY <1>1, <1>2, <1>3, <1>4, <2>1 DEF Knows
  <2>2. ASSUME NEW h \in ctx'[s].sgs
        PROVE  /\ grp'[h].svc # None
               /\ grp'[h].svc = s => grp'[h].live /\ grp'[h].tag = s
    BY <1>0, <1>2, <1>3, <1>4, <2>2 DEF Knows
  <2>. QED BY <2>1, <2>2 DEF Knows
<1>6. ASSUME NEW q \in Port PROVE BindsOne(s, pc[s], ctx[s], q)'
  <2>1. SUFFICES ASSUME ctx[s].bind[q] # None PROVE BindsOne(s, pc[s], ctx[s], q)'
    BY <1>2 DEF BindsOne
  <2>2. ctx[s].bind[q] \in Group /\ BindsOne(s, "taggroup", ctx[s], q)
    BY <1>0, <1>4, <2>1, CtxFields
  <2>3. CASE q = p
    BY <1>1, <1>2, <1>3, <2>1, <2>2, <2>3 DEF BindsOne
  <2>4. CASE q # p
    <3>1. q \notin ctx[s].todo
      BY <1>0, <1>1, <1>2, <1>4, <2>1, <2>4 DEF LoopAt
    <3>2. ctx[s].bind[q] # g
      BY <1>0, <1>1, <1>4, <2>1, <2>2, <2>4 DEF BindsOne
    <3>. QED BY <1>2, <1>3, <2>2, <3>1, <3>2 DEF BindsOne
  <2>. QED BY <2>3, <2>4
<1>7. LoopAt(pc'[s], ctx'[s])
  BY <1>2, <1>4 DEF LoopAt, Early, Applying, Grouped
<1>. QED BY <1>2, <1>5, <1>6, <1>7 DEF GroupsAt

\* BatchAddServers: the loop goes on with the next port.
LEMMA GroupFilled ==
  ASSUME IInv, NEW s \in Service, NEW p \in Port,
         GroupsAt(s, pc[s], ctx[s]), AddsServers(s, p)
  PROVE  GroupsAt(s, pc[s], ctx[s])'
<1>0. /\ ctx[s] \in Ctx /\ grp \in [Group -> ServerGroup]
      /\ None \notin Group /\ ctx[s].todo \subseteq Port /\ ctx[s].sgs \subseteq Group
  BY ConstantsAssumption, CtxFields DEF IInv, TypeOK
<1>1. PICK g \in Group : g = ctx[s].bind[p]
  BY Adding DEF Filling
<1>2. /\ pc[s] = "addservers" /\ pc'[s] = "vgroups" /\ p \in ctx[s].todo
      /\ ctx'[s] = [ctx[s] EXCEPT !.todo = @ \ {p}]
      /\ Filling(s, g)
  BY <1>1, Adding
<1>3. /\ ctx'[s].obj = ctx[s].obj /\ ctx'[s].sgs = ctx[s].sgs
      /\ ctx'[s].todo = ctx[s].todo \ {p} /\ ctx'[s].bind = ctx[s].bind
  BY <1>0, <1>2, CtxVisit
<1>4. \A h \in Group : Kept(h)
  BY <1>0, <1>2 DEF Kept, Filling, ServerGroup
<1>5. /\ Knows(s, ctx[s]) /\ LoopAt("addservers", ctx[s])
      /\ \A q \in Port : BindsOne(s, "addservers", ctx[s], q)
  BY <1>2 DEF GroupsAt, Grouped
<1>6. Knows(s, ctx[s])'
  BY <1>0, <1>3, <1>4, <1>5 DEF Knows, Kept
<1>7. ASSUME NEW q \in Port PROVE BindsOne(s, pc[s], ctx[s], q)'
  <2>1. SUFFICES ASSUME ctx[s].bind[q] # None PROVE BindsOne(s, pc[s], ctx[s], q)'
    BY <1>3 DEF BindsOne
  <2>2. ctx[s].bind[q] \in Group /\ BindsOne(s, "addservers", ctx[s], q)
    BY <1>0, <1>5, <2>1, CtxFields
  <2>3. Kept(ctx[s].bind[q])
    BY <1>4, <2>2
  <2>. QED BY <1>2, <1>3, <2>1, <2>2, <2>3 DEF BindsOne, Kept
<1>8. LoopAt(pc'[s], ctx'[s])
  <2>1. LocalPorts(ctx[s].obj) \subseteq Port
    BY <1>2, ObjectFields DEF IInv, PassesOK, PassAt
  <2>. QED BY <1>0, <1>1, <1>2, <1>3, <1>5, <2>1 DEF LoopAt, Early, Applying, Grouped
<1>. QED BY <1>2, <1>6, <1>7, <1>8 DEF GroupsAt

\* DeleteServerGroup: a group of no port goes.
LEMMA GroupDeleted ==
  ASSUME IInv, NEW s \in Service, GroupsAt(s, pc[s], ctx[s]), DeleteServerGroup(s)
  PROVE  GroupsAt(s, pc[s], ctx[s])'
<1>0. /\ ctx[s] \in Ctx /\ grp \in [Group -> ServerGroup]
      /\ None \notin Group /\ ctx[s].sgs \subseteq Group
  BY ConstantsAssumption, CtxFields DEF IInv, TypeOK
<1>1. PICK g \in UnusedGroups(s) :
        /\ grp' = [grp EXCEPT ![g].live = FALSE]
        /\ ctx'[s] = [ctx[s] EXCEPT !.sgs = @ \ {g}]
  BY PassAfter DEF DeleteServerGroup, IInv
<1>2. /\ pc[s] = "cleanup" /\ pc'[s] = "cleanup"
      /\ g \in Group /\ g \in ctx[s].sgs /\ \A q \in Port : ctx[s].bind[q] # g
  BY <1>0, <1>1 DEF DeleteServerGroup, UnusedGroups, Bound
<1>3. /\ ctx'[s].obj = ctx[s].obj /\ ctx'[s].sgs = ctx[s].sgs \ {g}
      /\ ctx'[s].todo = ctx[s].todo /\ ctx'[s].bind = ctx[s].bind
  BY <1>0, <1>1, CtxDrop
<1>4. ~grp'[g].live /\ \A h \in Group \ {g} : grp'[h] = grp[h]
  BY <1>0, <1>1, <1>2 DEF ServerGroup
<1>5. /\ Knows(s, ctx[s]) /\ LoopAt("cleanup", ctx[s])
      /\ \A q \in Port : BindsOne(s, "cleanup", ctx[s], q)
  BY <1>2 DEF GroupsAt, Grouped
<1>6. Knows(s, ctx[s])'
  <2>1. ASSUME NEW h \in Group, grp'[h].live, grp'[h].tag = s
        PROVE  h \in ctx'[s].sgs \/ \E q \in Port : ctx'[s].bind[q] = h
    BY <1>3, <1>4, <1>5, <2>1 DEF Knows
  <2>2. ASSUME NEW h \in ctx'[s].sgs
        PROVE  /\ grp'[h].svc # None
               /\ grp'[h].svc = s => grp'[h].live /\ grp'[h].tag = s
    BY <1>0, <1>3, <1>4, <1>5, <2>2 DEF Knows
  <2>. QED BY <2>1, <2>2 DEF Knows
<1>7. ASSUME NEW q \in Port PROVE BindsOne(s, pc[s], ctx[s], q)'
  <2>1. SUFFICES ASSUME ctx[s].bind[q] # None PROVE BindsOne(s, pc[s], ctx[s], q)'
    BY <1>3 DEF BindsOne
  <2>2. ctx[s].bind[q] \in Group /\ BindsOne(s, "cleanup", ctx[s], q)
    BY <1>0, <1>5, <2>1, CtxFields
  <2>3. grp'[ctx[s].bind[q]] = grp[ctx[s].bind[q]]
    BY <1>2, <1>4, <2>2
  <2>. QED BY <1>2, <1>3, <2>1, <2>2, <2>3 DEF BindsOne
<1>8. LoopAt(pc'[s], ctx'[s])
  BY <1>2, <1>3, <1>5 DEF LoopAt, Early, Applying, Grouped
<1>. QED BY <1>2, <1>6, <1>7, <1>8 DEF GroupsAt

\* The loop over the groups ends.
LEMMA GroupsApplied ==
  ASSUME IInv, NEW s \in Service, GroupsAt(s, pc[s], ctx[s]), VGroupsApplied(s)
  PROVE  GroupsAt(s, pc[s], ctx[s])'
<1>1. /\ pc[s] = "vgroups" /\ pc'[s] \in {"listeners", "cleanup"}
      /\ ctx'[s] = ctx[s] /\ ctx[s].todo = {} /\ UNCHANGED grp
  BY PassAfter DEF VGroupsApplied, IInv
<1>2. LoopAt("vgroups", ctx[s])
  BY <1>1 DEF GroupsAt
<1>3. LoopAt(pc'[s], ctx'[s])
  BY <1>1, <1>2 DEF LoopAt, Early, Applying, Grouped
<1>. QED BY <1>1, <1>3, GroupsCarried DEF Grouped

\* The listeners are applied.
LEMMA GroupsInListeners ==
  ASSUME IInv, NEW s \in Service, GroupsAt(s, pc[s], ctx[s]), ListenerWork(s),
         pc'[s] # "idle"
  PROVE  GroupsAt(s, pc[s], ctx[s])'
<1>0. ctx[s] \in Ctx
  BY DEF IInv, TypeOK
<1>1. UNCHANGED grp
  BY DEF ListenerWork, ListenerStep, ListNLBListeners, ListenersDeleted,
     ListenersApplied, DeleteNLBListener, UpdateOrCreateNLBListener,
     DeleteNLBListenerUnfinished
<1>2. ASSUME pc[s] \in Grouped \ Applying, pc'[s] \in Grouped \ Applying,
             ctx'[s].obj = ctx[s].obj, ctx'[s].sgs = ctx[s].sgs,
             ctx'[s].bind = ctx[s].bind,
             pc'[s] = "putlis" => ctx'[s].todo \subseteq LocalPorts(ctx'[s].obj)
      PROVE  GroupsAt(s, pc[s], ctx[s])'
  <2>1. LoopAt(pc[s], ctx[s])
    BY DEF GroupsAt
  <2>2. LoopAt(pc'[s], ctx'[s])
    BY <1>2, <2>1 DEF LoopAt, Early, Applying, Grouped
  <2>. QED BY <1>1, <1>2, <2>2, GroupsCarried DEF Applying, Grouped
<1>3. CASE ListNLBListeners(s)
  <2>1. /\ pc[s] = "listeners" /\ pc'[s] \in {"dellis", "cleanup"}
        /\ \/ ctx'[s] = ctx[s]
           \/ \E x, y : ctx'[s] = [ctx[s] EXCEPT !.seen = x, !.todo = y]
    BY <1>3, PassAfter DEF ListNLBListeners, IInv
  <2>2. /\ ctx'[s].obj = ctx[s].obj /\ ctx'[s].sgs = ctx[s].sgs
        /\ ctx'[s].bind = ctx[s].bind
    BY <1>0, <2>1 DEF Ctx
  <2>. QED BY <1>2, <2>1, <2>2 DEF Grouped, Applying
<1>4. ASSUME NEW p \in Port,
             \/ DeleteNLBListener(s, p) \/ UpdateOrCreateNLBListener(s, p)
             \/ DeleteNLBListenerUnfinished(s, p)
      PROVE  GroupsAt(s, pc[s], ctx[s])'
  <2>1. /\ pc[s] \in {"dellis", "putlis"} /\ pc'[s] = pc[s]
        /\ ctx'[s] = [ctx[s] EXCEPT !.todo = @ \ {p}]
    BY <1>4, PassAfter DEF DeleteNLBListener, UpdateOrCreateNLBListener,
       DeleteNLBListenerUnfinished, IInv
  <2>2. /\ ctx'[s].obj = ctx[s].obj /\ ctx'[s].sgs = ctx[s].sgs
        /\ ctx'[s].bind = ctx[s].bind /\ ctx'[s].todo = ctx[s].todo \ {p}
    BY <1>0, <2>1, CtxVisit
  <2>3. pc[s] = "putlis" => ctx[s].todo \subseteq LocalPorts(ctx[s].obj)
    BY DEF GroupsAt, LoopAt
  <2>. QED BY <1>2, <2>1, <2>2, <2>3 DEF Grouped, Applying
<1>5. CASE ListenersDeleted(s)
  <2>1. /\ pc[s] = "dellis" /\ pc'[s] = "putlis"
        /\ ctx'[s] = [ctx[s] EXCEPT !.todo = LocalPorts(obj(s))]
    BY <1>5, PassAfter DEF ListenersDeleted, IInv
  <2>2. /\ ctx'[s].obj = ctx[s].obj /\ ctx'[s].sgs = ctx[s].sgs
        /\ ctx'[s].bind = ctx[s].bind /\ ctx'[s].todo = LocalPorts(obj(s))
    BY <1>0, <2>1, CtxLoop
  <2>. QED BY <1>2, <2>1, <2>2 DEF Grouped, Applying, obj
<1>6. CASE ListenersApplied(s)
  BY <1>2, <1>6, PassAfter DEF ListenersApplied, IInv, Grouped, Applying
<1>. QED BY <1>3, <1>4, <1>5, <1>6 DEF ListenerWork, ListenerStep

\* Before it lists the groups, a pass has none.
LEMMA EarlyMoves ==
  ASSUME IInv, [Next]_vars, NEW s \in Service, pc'[s] \in Early
  PROVE  \/ ctx'[s] = FreshCtx
         \/ pc[s] \in Early /\ ctx'[s].bind = ctx[s].bind
<1>0. ctx[s] \in Ctx
  BY DEF IInv, TypeOK
<1>. USE DEF IInv, Early
<1>1. CASE Begins(s)
  <2>1. CASE ReconcileStart(s)
    <3>1. PICK x : x = NeedDeleteLoadBalancer(cache[s])
      OBVIOUS
    <3>2. pc[s] = "idle" /\ ctx'[s] = [ctx[s] EXCEPT !.clean = x, !.obj = cache[s]]
      BY <2>1, <3>1, PassAfter DEF ReconcileStart
    <3>3. ctx'[s].bind = ctx[s].bind
      BY <1>0, <3>2 DEF Ctx
    <3>. QED BY <3>2, <3>3
  <2>2. CASE AddFinalizersHas(s) \/ AddFinalizersPatch(s)
    <3>1. pc[s] = "finalizer" /\ \E x : ctx'[s] = [ctx[s] EXCEPT !.obj = x]
      BY <2>2, PassAfter DEF AddFinalizersHas, AddFinalizersPatch
    <3>2. ctx'[s].bind = ctx[s].bind
      BY <1>0, <3>1, CtxObj
    <3>. QED BY <3>1, <3>2
  <2>. QED BY <1>1, <2>1, <2>2 DEF Begins
<1>2. CASE FindNLB(s)
  <2>1. /\ pc[s] = "find"
        /\ \E x, y : ctx'[s] = [ctx[s] EXCEPT !.lb = x, !.eps = y]
    BY <1>2, PassAfter DEF FindNLB
  <2>2. ctx'[s].bind = ctx[s].bind
    BY <1>0, <2>1 DEF Ctx
  <2>. QED BY <2>1, <2>2
<1>3. CASE FindNLBGone(s)
  BY <1>3, PassAfter DEF FindNLBGone
<1>4. CASE DropsNLB(s) \/ CreateNLB(s)
  <2>1. pc[s] = "lbattr" /\ \E x : ctx'[s] = [ctx[s] EXCEPT !.lb = x]
    BY <1>4, PassAfter DEF DropsNLB, CanDeleteNLB, CreateNLB, CanCreateNLB
  <2>2. ctx'[s].bind = ctx[s].bind
    BY <1>0, <2>1, CtxLB
  <2>. QED BY <2>1, <2>2
<1>5. CASE Onward(s)
  BY <1>5 DEF Onward, Found
<1>. QED BY <1>1, <1>2, <1>3, <1>4, <1>5, PassMoves DEF PassStep

\* What each pass knows about groups stays true.
LEMMA GroupsAtStep ==
  ASSUME IInv, GroupInv, [Next]_vars, NEW s \in Service
  PROVE  GroupsAt(s, pc[s], ctx[s])'
<1>0. GroupsAt(s, pc[s], ctx[s]) /\ Tags
  BY DEF GroupInv
<1>1. CASE pc'[s] \in Early
  <2>1. \A p \in Port : ctx'[s].bind[p] = None
    <3>1. CASE ctx'[s] = FreshCtx
      BY <3>1 DEF FreshCtx
    <3>2. CASE pc[s] \in Early /\ ctx'[s].bind = ctx[s].bind
      BY <1>0, <3>2 DEF GroupsAt, LoopAt
    <3>. QED BY <1>1, <3>1, <3>2, EarlyMoves
  <2>. QED BY <1>1, <2>1 DEF GroupsAt, LoopAt, Early, Applying, Grouped
<1>2. CASE pc'[s] \notin Early \cup Grouped
  BY <1>2 DEF GroupsAt, LoopAt, Applying, Grouped
<1>3. CASE pc'[s] \in Grouped
  <2>0. pc'[s] # "idle"
    BY <1>3 DEF Grouped
  <2>1. CASE ListenerWork(s)
    BY <1>0, <2>0, <2>1, GroupsInListeners
  <2>2. CASE GroupWork(s)
    <3>1. ~CleanupDone(s)
      BY <1>3, PassAfter DEF CleanupDone, Grouped, IInv
    <3>2. ASSUME NEW p \in Port,
                 \/ UpdateServerGroup(s, p) \/ BatchAddServers(s, p)
                 \/ ServersUnfinished(s, p)
          PROVE  GroupsAt(s, pc[s], ctx[s])'
      BY <1>0, <3>2, GroupFound, GroupFilled, Unfinishing
         DEF UpdatesServers, AddsServers
    <3>. QED BY <1>0, <2>2, <3>1, <3>2, GroupsListed, GroupsApplied, GroupCreated,
                GroupGetsTag, GroupDeleted DEF GroupWork, GroupStep
  <2>3. CASE pc'[s] = pc[s] /\ ctx'[s] = ctx[s] /\ ~GroupWork(s)
    BY <1>0, <2>0, <2>3, ForeignStep, GroupsStay
  <2>. QED BY <1>3, <2>1, <2>2, <2>3, GroupedMoves
<1>. QED BY <1>1, <1>2, <1>3

\* Every step keeps what passes know of the server groups.
LEMMA GroupInvStep == IInv /\ GroupInv /\ [Next]_vars => GroupInv'
<1>. SUFFICES ASSUME IInv, GroupInv, [Next]_vars PROVE GroupInv'
  OBVIOUS
<1>0. None \notin Service /\ None \notin Group
  BY ConstantsAssumption
<1>1. CASE \A g \in Group : Kept(g)
  <2>1. Tags' /\ OneGroup'
    BY <1>1 DEF GroupInv, Tags, OneGroup, Kept
  <2>. QED BY <2>1, GroupsAtStep DEF GroupInv
<1>2. ASSUME NEW s \in Service, NEW g \in Group, GroupChange(s, g) PROVE GroupInv'
  <2>0. \A h \in Group \ {g} : Kept(h)
    BY <1>2 DEF GroupChange
  <2>1. ASSUME NEW p \in Port, GroupMade(s, p, g) PROVE Tags' /\ OneGroup'
    BY <1>0, <2>0, <2>1 DEF GroupInv, Tags, OneGroup, Kept, GroupMade
  <2>2. ASSUME GroupDropped(s, g) PROVE Tags' /\ OneGroup'
    BY <2>0, <2>2 DEF GroupInv, Tags, OneGroup, Kept, GroupDropped
  <2>3. ASSUME NEW p \in Port, GroupTagged(s, p, g) PROVE Tags' /\ OneGroup'
    <3>1. GroupsAt(s, "taggroup", ctx[s]) /\ ctx[s].bind[p] = g /\ g # None
      BY <1>0, <2>3 DEF GroupInv, GroupTagged
    <3>2. grp[g].live /\ grp[g].svc = s /\ grp[g].port = p
      BY <3>1 DEF GroupsAt, BindsOne, Grouped
    <3>3. \A h \in Group : grp[h].live /\ grp[h].tag = s => grp[h].port # p
      BY <2>3, <3>1 DEF GroupsAt, NoneYet, GroupTagged
    <3>4. Tags'
      BY <2>0, <2>3, <3>2 DEF GroupInv, Tags, Kept, GroupTagged
    <3>5. OneGroup'
      BY <2>0, <2>3, <3>2, <3>3 DEF GroupInv, OneGroup, Kept, GroupTagged
    <3>. QED BY <3>4, <3>5
  <2>. QED BY <1>2, <2>1, <2>2, <2>3, GroupsAtStep DEF GroupInv, GroupChange
<1>. QED BY <1>1, <1>2, GroupMoves

\* There is no server group at first.
LEMMA GroupInvInit == Init => GroupInv
<1>. SUFFICES ASSUME Init PROVE GroupInv
  OBVIOUS
<1>1. \A g \in Group : /\ grp[g].tag = None /\ ~grp[g].live
  BY DEF Init, FreshGroup
<1>2. Tags /\ OneGroup
  BY <1>1 DEF Tags, OneGroup
<1>3. ASSUME NEW s \in Service PROVE GroupsAt(s, pc[s], ctx[s])
  <2>1. pc[s] = "idle" /\ \A p \in Port : ctx[s].bind[p] = None
    BY DEF Init, FreshCtx
  <2>. QED BY <2>1 DEF GroupsAt, LoopAt, Early, Applying, Grouped
<1>. QED BY <1>2, <1>3 DEF GroupInv
-----------------------------------------------------------------------------
(***************************************************************************)
(* The finalizer.                                                          *)
(***************************************************************************)
(***************************************************************************)
(* A Service that needs no load balancer any more stays so, and one that   *)
(* has a load balancer of its own does not change to a reused one.         *)
(* Without the first, a cleanup takes the finalizer away from a Service    *)
(* that wants its load balancer back (RemoveFinalizers does not look       *)
(* again); without the second, the load balancer made first is left alone. *)
(***************************************************************************)
Later ==
  {z \in Spec \X Spec : /\ z[1].type = "none" => z[2].type = "none"
                        /\ z[1].id = None => z[2].id = None}

Settles == Edit \subseteq Later

(***************************************************************************)
(* The reused load balancers are the user's and stay: FindNLBGone lets a   *)
(* cleanup go on without a look at the server groups when one is gone.     *)
(***************************************************************************)
ReusedStay ==
  \A sp \in UsedSpec : sp.id # None => sp.id \in UserLB \ Deletable

\* The load balancers no one may delete are as the user made them.
UserOwned == \A l \in UserLB \ Deletable : nlb[l].by = User

Has(o) == o.exists /\ o.finalizer

\* As long as somebody may still build, the finalizer is there.
Guarded(s) ==
  /\ pc[s] \in Found \cup {"find"} /\ ~Off(obj(s)) => Has(api[s])
  /\ \A v \in Versions(s) : Has(v) /\ ~Off(v) => Has(api[s])

\* Which of the two ways of reconcile a pass is on.
Ways(s) ==
  /\ pc[s] # "idle" /\ ctx[s].clean => Off(obj(s))
  /\ pc[s] = "finalizer" => ~ctx[s].clean
  /\ pc[s] \in Removing => ctx[s].clean

\* No load balancer of s is left, or the cloud has accepted to delete it.
NoNLB(s) == \A l \in LB : Findable(s, l) => nlb[l].going
NoGroup(s) == \A g \in Group : grp[g].live => grp[g].tag # s

OffHash(h) == h[2] \/ h[1].type = "none"

\* What is gone once a pass has come to a certain point.
LetGo(s) ==
  /\ \A v \in Versions(s) : v.hash # None /\ OffHash(v.hash) => NoNLB(s)
  /\ pc[s] \in Found \ {"lbattr", "taglb"} /\ Off(obj(s)) => NoNLB(s)
  /\ pc[s] \in Removing => NoGroup(s)
  /\ \A v \in Versions(s) : IsUserManaged(v) => NoNLB(s)

FinInv ==
  /\ VersionInv(Later) /\ FindInv /\ GroupInv /\ UserOwned /\ FinalizerGuards
  /\ \A s \in Service : Guarded(s) /\ Ways(s) /\ LetGo(s)

\* Settles makes Later an order of versions.
LEMMA LaterOrder == ASSUME Settles PROVE Preorder(Later)
<1>1. \A a, b \in Spec : <<a, b>> \in Later <=>
        /\ a.type = "none" => b.type = "none"
        /\ a.id = None => b.id = None
  <2>1. ASSUME NEW a \in Spec, NEW b \in Spec
        PROVE  <<a, b>> \in Later <=> /\ a.type = "none" => b.type = "none"
                                      /\ a.id = None => b.id = None
    <3>1. PICK z \in Spec \X Spec : z = <<a, b>>
      OBVIOUS
    <3>2. z[1] = a /\ z[2] = b
      BY <3>1
    <3>. QED BY <3>1, <3>2 DEF Later
  <2>. QED BY <2>1
<1>. QED BY <1>1 DEF Preorder, Settles

\* Off and reuse along the order.
LEMMA LaterFacts ==
  ASSUME NEW v \in Object, NEW w \in Object
  PROVE  /\ Upto(Later, v, w) =>
              /\ Off(v) => Off(w)
              /\ ~IsUserManaged(v) => ~IsUserManaged(w)
         /\ \A h \in Hash : HashUpto(Later, h, w) /\ OffHash(h) => Off(w)
<1>0. v.spec \in Spec /\ w.spec \in Spec
  BY ObjectFields
<1>1. ASSUME NEW a, NEW b, <<a, b>> \in Later
      PROVE  /\ a.type = "none" => b.type = "none"
             /\ a.id = None => b.id = None
  <2>1. PICK z \in Spec \X Spec : /\ z = <<a, b>>
                                  /\ z[1].type = "none" => z[2].type = "none"
                                  /\ z[1].id = None => z[2].id = None
    BY <1>1 DEF Later
  <2>2. z[1] = a /\ z[2] = b
    BY <2>1
  <2>. QED BY <2>1, <2>2
<1>2. ASSUME Upto(Later, v, w)
      PROVE  /\ Off(v) => Off(w)
             /\ ~IsUserManaged(v) => ~IsUserManaged(w)
  BY <1>1, <1>2 DEF Upto, Off, NeedDeleteLoadBalancer, IsUserManaged
<1>3. ASSUME NEW h \in Hash, HashUpto(Later, h, w), OffHash(h) PROVE Off(w)
  BY <1>1, <1>3 DEF HashUpto, OffHash, Off, NeedDeleteLoadBalancer
<1>. QED BY <1>2, <1>3

\* A load balancer of the user that cannot be deleted stays.
LEMMA UserOwnedStep == IInv /\ UserOwned /\ [Next]_vars => UserOwned'
<1>. SUFFICES ASSUME IInv, UserOwned, [Next]_vars, NEW l \in UserLB \ Deletable
              PROVE  nlb'[l].by = User
  BY DEF UserOwned
<1>0. l \in LB
  BY ConstantsAssumption
<1>1. CASE nlb'[l] = nlb[l]
  BY <1>1 DEF UserOwned
<1>2. CASE nlb'[l] # nlb[l]
  <2>1. LBStep(l)
    BY <1>0, <1>2, LBMoves DEF LBStep
  <2>. QED BY <1>0, <2>1 DEF LBStep, Gone, Made, FreeLB, Tagged, Renamed, Leaves,
       UserOwned
<1>. QED BY <1>1, <1>2

\* Only RemoveFinalizers takes the finalizer away.
LEMMA FinalizerKept ==
  ASSUME IInv, [Next]_vars, NEW s \in Service, Has(api[s])
  PROVE  Has(api'[s]) \/ RemoveFinalizersPatch(s) \/ RemoveFinalizersLost(s)
<1>. USE DEF IInv
<1>0. api[s] \in Object
  BY DEF TypeOK
<1>1. ASSUME api'[s] = api[s] PROVE Has(api'[s])
  BY <1>1
<1>2. CASE Untouched(s) \/ ServiceEvent(s) \/ Restart
  BY <1>1, <1>2 DEF Untouched, Still, ServiceEvent, Restart
<1>3. CASE EditService(s)
  <2>1. PICK sp \in Spec : Write(s, [api[s] EXCEPT !.spec = sp]) /\ UNCHANGED cache
    BY <1>3 DEF EditService
  <2>2. api'[s] = [api[s] EXCEPT !.spec = sp]
    BY <2>1, WriteAt
  <2>. QED BY <1>0, <2>2 DEF Has, Object
<1>4. CASE DeleteService(s)
  <2>1. Write(s, [api[s] EXCEPT !.deleting = TRUE]) /\ UNCHANGED cache
    BY <1>4 DEF DeleteService, Has
  <2>2. api'[s] = [api[s] EXCEPT !.deleting = TRUE]
    BY <2>1, WriteAt
  <2>. QED BY <1>0, <2>2 DEF Has, Object
<1>5. CASE AddFinalizersPatch(s)
  <2>1. Write(s, [api[s] EXCEPT !.finalizer = TRUE]) /\ UNCHANGED cache
    BY <1>5 DEF AddFinalizersPatch
  <2>2. api'[s] = [api[s] EXCEPT !.finalizer = TRUE]
    BY <2>1, WriteAt
  <2>. QED BY <1>0, <2>2 DEF Has, Object
<1>6. ASSUME NEW h, Write(s, [api[s] EXCEPT !.hash = h]), UNCHANGED cache
      PROVE  Has(api'[s])
  <2>1. api'[s] = [api[s] EXCEPT !.hash = h]
    BY <1>6, WriteAt
  <2>. QED BY <1>0, <2>1 DEF Has, Object
<1>7. ASSUME NEW h, Write(s, [api[s] EXCEPT !.host = h]), UNCHANGED cache
      PROVE  Has(api'[s])
  <2>1. api'[s] = [api[s] EXCEPT !.host = h]
    BY <1>7, WriteAt
  <2>. QED BY <1>0, <2>1 DEF Has, Object
<1>8. CASE addServiceLabels(s)
  <2>1. PICK h : h = IF IsServiceHashChanged(obj(s))
                     THEN GetServiceHash(obj(s)) ELSE api[s].hash
    OBVIOUS
  <2>2. UNCHANGED api \/ (Write(s, [api[s] EXCEPT !.hash = h]) /\ UNCHANGED cache)
    BY <1>8, <2>1 DEF addServiceLabels
  <2>. QED BY <1>1, <1>6, <2>2
<1>9. CASE removeServiceLabels(s)
  <2>1. PICK h : h = IF obj(s).hash = None THEN api[s].hash ELSE None
    OBVIOUS
  <2>2. UNCHANGED api \/ (Write(s, [api[s] EXCEPT !.hash = h]) /\ UNCHANGED cache)
    BY <1>9, <2>1 DEF removeServiceLabels
  <2>. QED BY <1>1, <1>6, <2>2
<1>10. CASE updateServiceStatus(s)
  <2>1. PICK h : h = IF api[s].exists /\ cache[s].host # NewHost(s)
                     THEN NewHost(s) ELSE api[s].host
    OBVIOUS
  <2>2. UNCHANGED api \/ (Write(s, [api[s] EXCEPT !.host = h]) /\ UNCHANGED cache)
    BY <1>10, <2>1 DEF updateServiceStatus
  <2>. QED BY <1>1, <1>7, <2>2
<1>11. CASE removeServiceStatus(s)
  <2>1. PICK h : h = IF /\ obj(s).host # None /\ api[s].exists
                        /\ cache[s].exists /\ cache[s].host # None
                     THEN None ELSE api[s].host
    OBVIOUS
  <2>2. UNCHANGED api \/ (Write(s, [api[s] EXCEPT !.host = h]) /\ UNCHANGED cache)
    BY <1>11, <2>1 DEF removeServiceStatus
  <2>. QED BY <1>1, <1>7, <2>2
<1>12. CASE \/ AddFinalizersHas(s) \/ AddFinalizersError(s) \/ RemoveFinalizersHasNot(s)
            \/ RemoveFinalizersError(s) \/ ReconcileSkip(s) \/ ReconcileStart(s)
  BY <1>1, <1>12 DEF AddFinalizersHas, AddFinalizersError, RemoveFinalizersHasNot,
     RemoveFinalizersError, ReconcileSkip, ReconcileStart
<1>13. CASE LoadBalancerStep(s)
  BY <1>1, <1>13 DEF LoadBalancerStep, FindNLB, FindNLBGone, DeleteNLBSkip, DeleteNLB,
     CreateNLB, CreateNLBRefused, UpdateNLB, UpdateNLBRefused, TagNLBResource
<1>14. CASE GroupStep(s)
  BY <1>1, <1>14 DEF GroupStep, ListNLBServerGroups, VGroupsApplied, UpdateServerGroup,
     CreateNLBServerGroup, TagServerGroup, BatchAddServers, DeleteServerGroup,
     CleanupDone
<1>15. CASE ListenerStep(s)
  BY <1>1, <1>15 DEF ListenerStep, ListNLBListeners, ListenersDeleted, ListenersApplied,
     DeleteNLBListener, UpdateOrCreateNLBListener
<1>16. CASE \/ CallFails(s) \/ CreateNLBLost(s)
            \/ \E p \in Port : CreateNLBServerGroupLost(s, p)
  BY <1>1, <1>16 DEF CallFails, CreateNLBLost, CreateNLBServerGroupLost
<1>17. CASE Unwaited(s)
  BY <1>1, <1>17, UnwaitedPass
<1>. QED BY <1>2, <1>3, <1>4, <1>5, <1>8, <1>9, <1>10, <1>11, <1>12, <1>13,
            <1>14, <1>15, <1>16, <1>17, Bystander
     DEF Mine, Worker, FinalizerStep, StatusStep, Faulty, Unwaited

\* The way of a pass.
LEMMA WaysStep ==
  ASSUME IInv, [Next]_vars, NEW s \in Service, Ways(s)
  PROVE  Ways(s)'
<1>. USE DEF IInv
<1>0. ctx[s] \in Ctx /\ ctx[s].clean \in BOOLEAN
  BY CtxFields DEF TypeOK
<1>1. CASE pc'[s] = "idle"
  BY <1>1 DEF Ways, Removing
<1>2. CASE pc'[s] = pc[s] /\ ctx'[s] = ctx[s]
  BY <1>2 DEF Ways, obj
<1>3. CASE ReconcileStart(s)
  <2>1. PICK x : x = NeedDeleteLoadBalancer(cache[s])
    OBVIOUS
  <2>2. /\ ctx'[s] = [ctx[s] EXCEPT !.clean = x, !.obj = cache[s]]
        /\ pc'[s] = IF x THEN "find" ELSE "finalizer"
    BY <1>3, <2>1, PassAfter DEF ReconcileStart
  <2>3. ctx'[s].clean = x /\ ctx'[s].obj = cache[s]
    BY <1>0, <2>2 DEF Ctx
  <2>. QED BY <2>1, <2>2, <2>3 DEF Ways, Removing, obj, Off
<1>4. CASE AddFinalizersHas(s) \/ AddFinalizersPatch(s)
  <2>1. /\ pc[s] = "finalizer" /\ pc'[s] = "find"
        /\ \E x : ctx'[s] = [ctx[s] EXCEPT !.obj = x]
    BY <1>4, PassAfter DEF AddFinalizersHas, AddFinalizersPatch
  <2>2. ctx'[s].clean = ctx[s].clean
    BY <1>0, <2>1, CtxObj
  <2>. QED BY <2>1, <2>2 DEF Ways, Removing
<1>5. CASE FindNLB(s)
  <2>1. /\ pc[s] = "find" /\ pc'[s] \in {"lbattr", "groups"}
        /\ \E x, y : ctx'[s] = [ctx[s] EXCEPT !.lb = x, !.eps = y]
    BY <1>5, PassAfter DEF FindNLB, AfterFind
  <2>2. ctx'[s].clean = ctx[s].clean /\ ctx'[s].obj = ctx[s].obj
    BY <1>0, <2>1 DEF Ctx
  <2>. QED BY <2>1, <2>2 DEF Ways, Removing, obj
<1>6. CASE FindNLBGone(s)
  <2>1. \/ pc'[s] = "idle"
        \/ pc[s] = "find" /\ pc'[s] = "rmlabels" /\ ctx'[s] = ctx[s] /\ ctx[s].clean
    BY <1>6, PassAfter DEF FindNLBGone
  <2>. QED BY <1>1, <2>1 DEF Ways, obj
<1>7. CASE DropsNLB(s) \/ CreateNLB(s)
  <2>1. /\ pc[s] = "lbattr" /\ pc'[s] \in {"groups", "taglb"}
        /\ \E x : ctx'[s] = [ctx[s] EXCEPT !.lb = x]
    BY <1>7, PassAfter DEF DropsNLB, CanDeleteNLB, CreateNLB, CanCreateNLB
  <2>2. ctx'[s].clean = ctx[s].clean /\ ctx'[s].obj = ctx[s].obj
    BY <1>0, <2>1, CtxLB
  <2>. QED BY <2>1, <2>2 DEF Ways, Removing, obj
<1>8. CASE Onward(s)
  BY <1>8 DEF Onward, Ways, Found, obj
<1>. QED BY <1>1, <1>2, <1>3, <1>4, <1>5, <1>6, <1>7, <1>8, PassMoves
     DEF PassStep, Begins

\* The new versions of a step follow the old ones.
LEMMA VersionsBack ==
  ASSUME NEW CONSTANT R, Preorder(R), IInv, VersionInv(R), [Next]_vars,
         NEW s \in Service, NEW v \in Versions(s)'
  PROVE  /\ \E w \in Versions(s) : Upto(R, w, v)
         /\ v.hash # None =>
              \/ \E w \in Versions(s) : w.hash = v.hash
              \/ pc[s] = "addlabels" /\ v.hash = GetServiceHash(obj(s))
         /\ v \in Versions(s) \/ v = api'[s]
<1>1. VersionStep(s)
  BY VersionMoves DEF VersionInv
<1>2. v \in Versions(s) \/ (v = api'[s] /\ (Wrote(s) \/ Finalized(s)))
  BY <1>1, NewVersions
<1>3. api[s] \in Versions(s)
  BY DEF Versions
<1>4. CASE v \in Versions(s)
  BY <1>4, UptoOrder, VersionsType
<1>5. CASE v = api'[s] /\ (Wrote(s) \/ Finalized(s))
  <2>1. Upto(R, api[s], v)
    BY <1>5, WriteFollows
  <2>. QED BY <1>3, <1>5, <2>1 DEF Wrote, Finalized
<1>. QED BY <1>2, <1>4, <1>5

\* While a pass builds a load balancer, nobody asks for less.
LEMMA Building ==
  ASSUME Settles, IInv, VersionInv(Later), FindInv, NEW s \in Service,
         NEW l \in LB, Made(s, l) \/ Tagged(s, l)
  PROVE  /\ pc[s] \in {"lbattr", "taglb"} /\ ~Off(obj(s))
         /\ \A v \in Versions(s) :
              /\ ~IsUserManaged(v)
              /\ v.hash # None => ~OffHash(v.hash)
<1>0. obj(s) \in Object /\ pc[s] \in {"lbattr", "taglb"}
  BY DEF Made, Tagged, CanCreateNLB, IInv, PassesOK, PassAt, obj
<1>1. ~IsUserManaged(obj(s)) /\ ~Off(obj(s))
  <2>1. CASE Made(s, l)
    BY <2>1, CreatesFirst DEF Made, CanCreateNLB, Off
  <2>2. CASE Tagged(s, l)
    BY <2>2 DEF Tagged, FindInv, Finds, WorksOn, obj
  <2>. QED BY <2>1, <2>2
<1>2. ASSUME NEW v \in Versions(s)
      PROVE  ~IsUserManaged(v) /\ (v.hash # None => ~OffHash(v.hash))
  <2>1. v \in Object /\ v.hash \in Hash \cup {None}
    BY VersionsType, ObjectFields
  <2>2. Upto(Later, obj(s), v)
    BY <1>0, LaterOrder, ObjFirst DEF VersionInv
  <2>3. v.hash # None => HashUpto(Later, v.hash, obj(s))
    BY <1>0 DEF VersionInv, Labels
  <2>4. ~IsUserManaged(v)
    BY <1>0, <1>1, <2>1, <2>2, LaterFacts
  <2>5. v.hash # None => ~OffHash(v.hash)
    BY <1>0, <1>1, <2>1, <2>3, LaterFacts
  <2>. QED BY <2>4, <2>5
<1>. QED BY <1>0, <1>1, <1>2

\* What nobody can find stays so unless the pass of s builds it.
LEMMA NoNLBStays ==
  ASSUME IInv, FindInv, [Next]_vars, NEW s \in Service, NoNLB(s),
         \A l \in LB : ~Made(s, l) /\ ~Tagged(s, l)
  PROVE  NoNLB(s)'
<1>1. ASSUME NEW l \in LB, Findable(s, l)' PROVE nlb'[l].going
  <2>1. Findable(s, l)
    BY <1>1, NewlyFound
  <2>2. nlb[l].going /\ nlb'[l].live
    BY <1>1, <2>1 DEF NoNLB, Findable
  <2>. QED BY <2>1, <2>2, GoingStays
<1>. QED BY <1>1 DEF NoNLB

\* A reused load balancer can be found.
LEMMA ReusedFound ==
  ASSUME ReusedStay, IInv, SpecsUsed, UserOwned, NEW s \in Service,
         pc[s] # "idle", IsUserManaged(obj(s))
  PROVE  Candidates(s) # {}
<1>1. PICK l \in UserLB \ Deletable : l = obj(s).spec.id
  BY ObjUsed DEF ReusedStay, IsUserManaged
<1>2. l \in LB /\ Live(l)
  BY ConstantsAssumption DEF IInv, UserNLBKept, UserOwned, Live
<1>3. Candidates(s) = {k \in LB : Live(k) /\ k = obj(s).spec.id}
  BY DEF Candidates
<1>. QED BY <1>1, <1>2, <1>3

\* At the end of cleanup no tagged group of the Service is left.
LEMMA CleanedUp ==
  ASSUME IInv, GroupInv, NEW s \in Service, CleanupDone(s), Off(obj(s))
  PROVE  NoGroup(s)
<1>1. pc[s] = "cleanup" /\ UnusedGroups(s) = {}
  BY DEF CleanupDone
<1>2. /\ Knows(s, ctx[s]) /\ \A p \in Port : BindsOne(s, "cleanup", ctx[s], p)
  BY <1>1 DEF GroupInv, GroupsAt, Grouped
<1>3. LocalPorts(ctx[s].obj) = {}
  BY DEF LocalPorts, Off, obj
<1>4. \A p \in Port : ctx[s].bind[p] = None
  BY <1>2, <1>3 DEF BindsOne
<1>5. None \notin Group /\ None \notin Service
  BY ConstantsAssumption
<1>6. ASSUME NEW g \in Group, grp[g].live, grp[g].tag = s PROVE FALSE
  <2>1. g \in ctx[s].sgs /\ grp[g].svc = s
    BY <1>2, <1>4, <1>5, <1>6 DEF Knows, GroupInv, Tags
  <2>2. ~Bound(s, g)
    BY <1>4, <1>5 DEF Bound
  <2>. QED BY <1>1, <2>1, <2>2 DEF UnusedGroups
<1>. QED BY <1>6 DEF NoGroup

\* A group gets the tag of a Service that needs it.
LEMMA NewlyTagged ==
  ASSUME IInv, GroupInv, [Next]_vars, NEW s \in Service, NEW g \in Group,
         grp'[g].live, grp'[g].tag = s, ~(grp[g].live /\ grp[g].tag = s)
  PROVE  pc[s] = "taggroup" /\ ~Off(obj(s))
<1>0. s # None
  BY ConstantsAssumption
<1>1. ~Kept(g)
  BY DEF Kept
<1>2. PICK r \in Service, h \in Group : GroupChange(r, h)
  BY <1>1, GroupMoves
<1>3. h = g
  BY <1>1, <1>2 DEF GroupChange
<1>4. PICK p \in Port : GroupTagged(r, p, g)
  BY <1>0, <1>2, <1>3 DEF GroupChange, GroupMade, GroupDropped
<1>5. r = s /\ pc[s] = "taggroup" /\ p \in ctx[s].todo
  BY <1>4 DEF GroupTagged
<1>6. p \in LocalPorts(ctx[s].obj)
  BY <1>5 DEF GroupInv, GroupsAt, LoopAt, Applying
<1>. QED BY <1>5, <1>6 DEF LocalPorts, Off, obj

\* A pass that takes the finalizer away knows that everything is gone.
LEMMA GivesUp ==
  ASSUME Settles, IInv, FinInv, NEW s \in Service,
         RemoveFinalizersPatch(s) \/ RemoveFinalizersLost(s)
  PROVE  /\ pc[s] = "rmfinalizer" /\ pc'[s] = "idle"
         /\ \A v \in Versions(s) : Off(v)
         /\ NoNLB(s) /\ NoGroup(s) /\ nlb' = nlb /\ grp' = grp
<1>1. /\ pc[s] = "rmfinalizer" /\ pc'[s] = "idle" /\ nlb' = nlb /\ grp' = grp
  BY PassAfter DEF RemoveFinalizersPatch, RemoveFinalizersLost, IInv
<1>2. Off(obj(s)) /\ obj(s) \in Object
  BY <1>1 DEF FinInv, Ways, Removing, IInv, PassesOK, PassAt, obj
<1>3. NoNLB(s) /\ NoGroup(s)
  BY <1>1, <1>2 DEF FinInv, LetGo, Removing, Found, PC
<1>4. ASSUME NEW v \in Versions(s) PROVE Off(v)
  <2>1. v \in Object
    BY VersionsType
  <2>2. Upto(Later, obj(s), v)
    BY <1>1, LaterOrder, ObjFirst DEF FinInv, VersionInv
  <2>. QED BY <1>2, <2>1, <2>2, LaterFacts
<1>. QED BY <1>1, <1>3, <1>4

\* The finalizer is there while a pass may build.
LEMMA GuardedStep ==
  ASSUME Settles, IInv, FinInv, [Next]_vars, NEW s \in Service
  PROVE  Guarded(s)'
<1>0. /\ Guarded(s) /\ VersionInv(Later) /\ Preorder(Later) /\ ctx[s] \in Ctx
      /\ api[s] \in Object /\ cache[s] \in Object
  BY LaterOrder DEF FinInv, IInv, TypeOK
<1>1. ASSUME NEW v \in Versions(s)', Has(v), ~Off(v) PROVE Has(api'[s])
  <2>1. CASE v = api'[s]
    BY <1>1, <2>1
  <2>2. CASE v \in Versions(s)
    BY <1>0, <1>1, <2>2, FinalizerKept, GivesUp DEF Guarded
  <2>. QED BY <1>0, <2>1, <2>2, VersionsBack
<1>2. ASSUME pc'[s] \in Found \cup {"find"}, ~Off(ctx'[s].obj) PROVE Has(api'[s])
  <2>0. pc'[s] # "idle"
    BY <1>2 DEF Found
  <2>1. ASSUME Has(api[s]) PROVE Has(api'[s])
    BY <2>0, <2>1, FinalizerKept, GivesUp
  <2>2. CASE pc[s] \in Found \cup {"find"} /\ ctx'[s].obj = ctx[s].obj
    BY <1>0, <1>2, <2>1, <2>2 DEF Guarded, obj
  <2>3. CASE ReconcileStart(s)
    <3>1. PICK x : x = NeedDeleteLoadBalancer(cache[s])
      OBVIOUS
    <3>2. /\ ctx'[s] = [ctx[s] EXCEPT !.clean = x, !.obj = cache[s]]
          /\ pc'[s] = IF x THEN "find" ELSE "finalizer"
      BY <2>3, <3>1, PassAfter DEF ReconcileStart, IInv
    <3>3. ctx'[s].obj = cache[s]
      BY <1>0, <3>2 DEF Ctx
    <3>. QED BY <1>2, <3>1, <3>2, <3>3 DEF Off, Found
  <2>4. CASE AddFinalizersHas(s)
    <3>1. ctx'[s] = [ctx[s] EXCEPT !.obj = cache[s]] /\ Has(cache[s])
      BY <2>4, PassAfter DEF AddFinalizersHas, IInv, Has
    <3>2. ctx'[s].obj = cache[s]
      BY <1>0, <3>1 DEF Ctx
    <3>. QED BY <1>0, <1>2, <2>1, <3>1, <3>2 DEF Guarded, Versions
  <2>5. CASE AddFinalizersPatch(s)
    <3>1. /\ Write(s, [api[s] EXCEPT !.finalizer = TRUE]) /\ UNCHANGED cache
          /\ cache[s].exists /\ watch[s] = << >>
      BY <2>5 DEF AddFinalizersPatch, UpToDate
    <3>2. cache[s] = api[s]
      BY <1>0, <3>1 DEF VersionInv, Fresh, Last
    <3>3. api'[s] = [api[s] EXCEPT !.finalizer = TRUE]
      BY <3>1, WriteAt DEF IInv
    <3>. QED BY <1>0, <3>1, <3>2, <3>3 DEF Has, Object
  <2>6. CASE FindNLB(s)
    BY <2>2, <2>6, LookedUp DEF FinInv, FindNLB
  <2>7. CASE FindNLBGone(s)
    <3>1. pc[s] = "find" /\ (pc'[s] = "idle" \/ ctx'[s] = ctx[s])
      BY <2>7, PassAfter DEF FindNLBGone, IInv
    <3>. QED BY <2>0, <2>2, <3>1
  <2>8. CASE DropsNLB(s) \/ CreateNLB(s)
    <3>1. /\ pc[s] = "lbattr" /\ \E x : ctx'[s] = [ctx[s] EXCEPT !.lb = x]
      BY <2>8, PassAfter DEF DropsNLB, CanDeleteNLB, CreateNLB, CanCreateNLB, IInv
    <3>2. ctx'[s].obj = ctx[s].obj
      BY <1>0, <3>1, CtxLB
    <3>. QED BY <2>2, <3>1, <3>2 DEF Found, PC
  <2>9. CASE Onward(s)
    BY <2>2, <2>9 DEF Onward
  <2>10. CASE pc'[s] = pc[s] /\ ctx'[s] = ctx[s]
    BY <1>2, <2>2, <2>10
  <2>. QED BY <2>0, <2>3, <2>4, <2>5, <2>6, <2>7, <2>8, <2>9, <2>10, PassMoves
       DEF PassStep, Begins
<1>. QED BY <1>1, <1>2 DEF Guarded, obj

\* What is gone stays gone.
LEMMA LetGoStep ==
  ASSUME Settles, ReusedStay, IInv, FinInv, FindInv', [Next]_vars, NEW s \in Service
  PROVE  LetGo(s)'
<1>0. /\ LetGo(s) /\ Ways(s) /\ VersionInv(Later) /\ Preorder(Later) /\ FindInv
      /\ GroupInv /\ UserOwned
  BY LaterOrder DEF FinInv
<1>1. ASSUME NoNLB(s), \A l \in LB : ~Made(s, l) /\ ~Tagged(s, l) PROVE NoNLB(s)'
  BY <1>0, <1>1, NoNLBStays
<1>2. ASSUME NEW v \in Versions(s)', IsUserManaged(v) PROVE NoNLB(s)'
  <2>1. PICK w \in Versions(s) : Upto(Later, w, v)
    BY <1>0, VersionsBack
  <2>2. w \in Object /\ v \in Object
    <3>1. IInv'
      BY IInvStep
    <3>2. api'[s] \in Object
      BY <3>1 DEF IInv, TypeOK
    <3>3. v \in Versions(s) \/ v = api'[s]
      BY <1>0, VersionsBack
    <3>. QED BY <3>2, <3>3, VersionsType
  <2>3. IsUserManaged(w)
    BY <1>2, <2>1, <2>2, LaterFacts
  <2>4. NoNLB(s)
    BY <1>0, <2>3 DEF LetGo
  <2>. QED BY <1>0, <1>1, <2>3, <2>4, Building
<1>3. ASSUME NEW v \in Versions(s)', v.hash # None, OffHash(v.hash) PROVE NoNLB(s)'
  <2>1. CASE \E w \in Versions(s) : w.hash = v.hash
    <3>1. PICK w \in Versions(s) : w.hash = v.hash
      BY <2>1
    <3>2. NoNLB(s)
      BY <1>0, <1>3, <3>1 DEF LetGo
    <3>. QED BY <1>0, <1>1, <1>3, <3>1, <3>2, Building
  <2>2. CASE pc[s] = "addlabels" /\ v.hash = GetServiceHash(obj(s))
    <3>1. Off(obj(s))
      BY <1>3, <2>2 DEF OffHash, GetServiceHash, Off, NeedDeleteLoadBalancer
    <3>2. NoNLB(s)
      BY <1>0, <2>2, <3>1 DEF LetGo, Found, PC
    <3>3. \A l \in LB : ~Made(s, l) /\ ~Tagged(s, l)
      BY <2>2 DEF Made, CanCreateNLB, Tagged
    <3>. QED BY <1>1, <3>2, <3>3
  <2>. QED BY <1>0, <1>3, <2>1, <2>2, VersionsBack
<1>4. ASSUME pc'[s] \in Found \ {"lbattr", "taglb"}, Off(ctx'[s].obj) PROVE NoNLB(s)'
  <2>1. CASE pc[s] \in Found \ {"lbattr", "taglb"} /\ ctx'[s].obj = ctx[s].obj
    <3>1. NoNLB(s)
      BY <1>0, <1>4, <2>1 DEF LetGo, obj
    <3>2. \A l \in LB : ~Made(s, l) /\ ~Tagged(s, l)
      BY <2>1 DEF Made, CanCreateNLB, Tagged
    <3>. QED BY <1>1, <3>1, <3>2
  <2>2. CASE Onward(s) /\ pc[s] \in {"lbattr", "taglb"}
    <3>0. ctx'[s].obj = ctx[s].obj /\ pc'[s] \notin {"idle", "taglb"}
      BY <2>2 DEF Onward, Found
    <3>1. pc[s] = "lbattr" /\ SkipDelete(s)
      BY <1>0, <1>4, <2>2, <3>0 DEF Onward, FindInv, Finds, WorksOn, obj
    <3>2. NoNLB(s)
      <4>1. CASE IsUserManaged(obj(s))
        BY <1>0, <3>1, <4>1 DEF LetGo, Versions, obj
      <4>2. CASE ~IsUserManaged(obj(s))
        BY <1>0, <3>1, <4>2, ConstantsAssumption
           DEF SkipDelete, FindInv, Finds, WorksOn, Leaving, NoNLB, Found, PC, obj
      <4>. QED BY <4>1, <4>2
    <3>3. \A l \in LB : ~Made(s, l) /\ ~Tagged(s, l)
      BY <3>0, <3>1 DEF Made, Tagged
    <3>. QED BY <1>1, <3>2, <3>3
  <2>3. CASE FindNLB(s)
    <3>1. /\ pc[s] = "find" /\ obj(s).hash = GetServiceHash(obj(s))
          /\ ctx'[s].obj = obj(s) /\ nlb' = nlb
      BY <1>0, <1>4, <2>3, LookedUp, PassAfter
         DEF FindNLB, AfterFind, IsServiceHashChanged, IInv, obj
    <3>2. OffHash(obj(s).hash)
      BY <1>4, <3>1 DEF OffHash, GetServiceHash, Off, NeedDeleteLoadBalancer
    <3>3. obj(s).hash # None
      BY <3>1, HashAssumption, ObjectFields DEF IInv, PassesOK, PassAt, obj
    <3>4. NoNLB(s)
      BY <1>0, <3>1, <3>2, <3>3 DEF LetGo, Versions, obj
    <3>. QED BY <3>1, <3>4 DEF NoNLB, Findable
  <2>4. CASE FindNLBGone(s)
    <3>1. pc[s] # "idle" /\ Candidates(s) = {} /\ IsUserManaged(obj(s))
      BY <2>4 DEF FindNLBGone
    <3>. QED BY <1>0, <3>1, ReusedFound DEF VersionInv
  <2>5. CASE DropsNLB(s)
    <3>1. /\ ctx'[s] = [ctx[s] EXCEPT !.lb = None] /\ ~IsUserManaged(obj(s))
      BY <2>5 DEF DropsNLB, CanDeleteNLB, SkipDelete
    <3>2. ctx'[s].lb = None /\ ctx'[s].obj = ctx[s].obj
      BY <3>1 DEF IInv, TypeOK, Ctx
    <3>. QED BY <1>4, <3>1, <3>2, ConstantsAssumption
         DEF FindInv, Finds, WorksOn, Leaving, NoNLB, obj
  <2>6. CASE Begins(s) \/ CreateNLB(s) \/ pc'[s] = "idle"
    BY <1>4, <2>6, PassAfter DEF Begins, ReconcileStart, AddFinalizersHas,
       AddFinalizersPatch, CreateNLB, Found, IInv
  <2>7. CASE Onward(s) /\ pc[s] \notin {"lbattr", "taglb"}
    BY <2>1, <2>7 DEF Onward
  <2>8. CASE pc'[s] = pc[s] /\ ctx'[s] = ctx[s]
    BY <1>4, <2>1, <2>8
  <2>. QED BY <2>2, <2>3, <2>4, <2>5, <2>6, <2>7, <2>8, PassMoves DEF PassStep
<1>5. ASSUME pc'[s] \in Removing PROVE NoGroup(s)'
  <2>1. ASSUME pc[s] # "taggroup", NoGroup(s) PROVE NoGroup(s)'
    BY <1>0, <2>1, NewlyTagged DEF NoGroup
  <2>2. CASE pc[s] \in Removing
    BY <1>0, <2>1, <2>2 DEF LetGo, Removing
  <2>3. CASE CleanupDone(s) /\ ctx[s].clean
    <3>1. pc[s] = "cleanup" /\ Off(obj(s))
      BY <1>0, <2>3 DEF CleanupDone, Ways
    <3>. QED BY <1>0, <2>1, <2>3, <3>1, CleanedUp
  <2>4. CASE FindNLBGone(s)
    <3>1. pc[s] # "idle" /\ Candidates(s) = {} /\ IsUserManaged(obj(s))
      BY <2>4 DEF FindNLBGone
    <3>. QED BY <1>0, <3>1, ReusedFound DEF VersionInv
  <2>5. CASE Onward(s)
    BY <1>5, <2>2, <2>3, <2>5 DEF Onward
  <2>6. CASE \/ Begins(s) \/ FindNLB(s) \/ DropsNLB(s) \/ CreateNLB(s)
             \/ pc'[s] = "idle"
    BY <1>5, <2>6, PassAfter DEF Begins, ReconcileStart, AddFinalizersHas,
       AddFinalizersPatch, FindNLB, AfterFind, DropsNLB, CreateNLB, Removing, IInv
  <2>7. CASE pc'[s] = pc[s]
    BY <1>5, <2>2, <2>7
  <2>. QED BY <2>4, <2>5, <2>6, <2>7, PassMoves DEF PassStep
<1>. QED BY <1>2, <1>3, <1>4, <1>5 DEF LetGo, obj

\* What is in the cloud is guarded.
LEMMA FinalizerGuardsStep ==
  ASSUME Settles, IInv, FinInv, [Next]_vars
  PROVE  FinalizerGuards'
<1>. SUFFICES ASSUME NEW s \in Service,
                     \/ \E l \in LB : Findable(s, l)' /\ ~nlb'[l].going
                     \/ \E g \in Group : grp'[g].live /\ grp'[g].tag = s
              PROVE  Has(api'[s])
  BY DEF FinalizerGuards, Has
<1>0. /\ Guarded(s) /\ VersionInv(Later) /\ FindInv /\ GroupInv
  BY DEF FinInv
<1>1. CASE RemoveFinalizersPatch(s) \/ RemoveFinalizersLost(s)
  <2>1. NoNLB(s) /\ NoGroup(s) /\ nlb' = nlb /\ grp' = grp
    BY <1>1, GivesUp
  <2>. QED BY <2>1 DEF NoNLB, NoGroup, Findable
<1>2. ASSUME Has(api[s]) PROVE Has(api'[s])
  BY <1>1, <1>2, FinalizerKept
<1>3. ASSUME NEW l \in LB, Findable(s, l)', ~nlb'[l].going PROVE Has(api'[s])
  <2>1. CASE Findable(s, l)
    <3>1. ~nlb[l].going
      BY <1>0, <1>3, <2>1, GoingStays DEF Findable
    <3>. QED BY <1>2, <2>1, <3>1 DEF FinInv, FinalizerGuards, Has
  <2>2. CASE ~Findable(s, l)
    <3>1. Made(s, l) \/ Tagged(s, l)
      BY <1>0, <1>3, <2>2, NewlyFound
    <3>2. pc[s] \in {"lbattr", "taglb"} /\ ~Off(obj(s))
      BY <1>0, <3>1, Building
    <3>. QED BY <1>0, <1>2, <3>2 DEF Guarded, Found, PC
  <2>. QED BY <2>1, <2>2
<1>4. ASSUME NEW g \in Group, grp'[g].live, grp'[g].tag = s PROVE Has(api'[s])
  <2>1. CASE grp[g].live /\ grp[g].tag = s
    BY <1>2, <2>1 DEF FinInv, FinalizerGuards, Has
  <2>2. CASE ~(grp[g].live /\ grp[g].tag = s)
    <3>1. pc[s] = "taggroup" /\ ~Off(obj(s))
      BY <1>0, <1>4, <2>2, NewlyTagged
    <3>. QED BY <1>0, <1>2, <3>1 DEF Guarded, Found, PC
  <2>. QED BY <2>1, <2>2
<1>. QED BY <1>3, <1>4

\* There is nothing to guard at first.
LEMMA FinInvInit == ASSUME Settles, Init PROVE FinInv
<1>1. VersionInv(Later) /\ FindInv /\ GroupInv
  BY LaterOrder, VersionInvInit, FindInvInit, GroupInvInit
<1>2. UserOwned
  BY ConstantsAssumption DEF Init, UserOwned, FreshNlb
<1>3. /\ \A l \in LB : nlb[l].tag = None /\ nlb[l].name = None
      /\ \A g \in Group : ~grp[g].live
  BY DEF Init, FreshNlb, FreshGroup
<1>4. None \notin Service
  BY ConstantsAssumption
<1>5. ASSUME NEW s \in Service PROVE NoNLB(s) /\ NoGroup(s)
  BY <1>3, <1>4 DEF NoNLB, NoGroup, Findable
<1>6. FinalizerGuards
  BY <1>5 DEF FinalizerGuards, NoNLB, NoGroup
<1>7. ASSUME NEW s \in Service PROVE Guarded(s) /\ Ways(s) /\ LetGo(s)
  <2>1. pc[s] = "idle" /\ watch[s] = << >> /\ cache[s] = api[s]
    BY DEF Init
  <2>2. Versions(s) = {api[s]}
    BY <2>1 DEF Versions
  <2>. QED BY <1>5, <2>1, <2>2 DEF Guarded, Ways, LetGo, Found, Removing
<1>. QED BY <1>1, <1>2, <1>6, <1>7 DEF FinInv

(***************************************************************************)
(* As long as a load balancer that a lookup finds, or a tagged server      *)
(* group, of a Service is alive, the Service exists and has the finalizer, *)
(* unless the cloud has accepted to delete that load balancer: the wait    *)
(* for the job may end before the job does, but never before the call.     *)
(***************************************************************************)
THEOREM FinalizerHolds ==
  ASSUME Settles, ReusedStay PROVE Behaviour => []FinalizerGuards
<1>1. Init => FinInv
  BY FinInvInit
<1>2. IInv /\ IInv' /\ FinInv /\ [Next]_vars => FinInv'
  <2>. SUFFICES ASSUME IInv, IInv', FinInv, [Next]_vars PROVE FinInv'
    OBVIOUS
  <2>1. VersionInv(Later)'
    BY LaterOrder, VersionInvStep DEF FinInv
  <2>2. FindInv' /\ GroupInv' /\ UserOwned'
    BY FindInvStep, GroupInvStep, UserOwnedStep DEF FinInv
  <2>3. FinalizerGuards'
    BY FinalizerGuardsStep
  <2>4. \A s \in Service : Guarded(s)' /\ Ways(s)' /\ LetGo(s)'
    BY <2>2, GuardedStep, WaysStep, LetGoStep DEF FinInv
  <2>. QED BY <2>1, <2>2, <2>3, <2>4 DEF FinInv
<1>3. FinInv => FinalizerGuards
  BY DEF FinInv
<1>. QED BY <1>1, <1>2, <1>3, Invariance, PTL DEF Behaviour
-----------------------------------------------------------------------------
(***************************************************************************)
(* Listeners and the groups they forward to.                               *)
(***************************************************************************)
(***************************************************************************)
(* The specs of a Service never come back to an earlier one, keep the load *)
(* balancer they reuse, and do not withdraw force-override-listeners.  A   *)
(* spec that comes back finds its hash label still there: the pass skips   *)
(* the listeners, and cleanup deletes the groups of the ports in between.  *)
(***************************************************************************)
Onwards(R) ==
  /\ Preorder(R)
  /\ \A a, b \in Spec : <<a, b>> \in R =>
       /\ <<b, a>> \in R => a = b
       /\ a.id = b.id /\ (a.override => b.override)

NeverBack == \E R \in SUBSET (Spec \X Spec) : Onwards(R)

\* The Service s has the listener on port p of l.
HasLis(s, l, p) == lis[l][p] # None /\ lis[l][p].by = s

\* It has it to stay: the cloud is not about to delete it.
Owns(s, l, p) == HasLis(s, l, p) /\ ~Going(l, p)

\* Each listener is on a live load balancer; one that a Service has to stay
\* forwards to the tagged group of that Service and port.
ListensOn(l, p) ==
  lis[l][p] # None =>
    /\ nlb[l].live
    /\ lis[l][p].by \in Service /\ ~Going(l, p) =>
         LET g == grp[lis[l][p].group] IN
         /\ lis[l][p].group \in Group
         /\ g.live /\ g.svc = lis[l][p].by /\ g.tag = lis[l][p].by /\ g.port = p

\* Every version of a Service leads to the load balancer its listeners are on.
LeadsTo(s, l) ==
  \A v \in Versions(s) : IF IsUserManaged(v) THEN l = v.spec.id /\ v.spec.override
                                             ELSE Findable(s, l)

\* A version with its own hash label, and a pass that has been through the
\* listeners, know every port s listens on.
Matches(s, p) ==
  /\ \A v \in Versions(s) : v.hash = GetServiceHash(v) => p \in LocalPorts(v)
  /\ pc[s] = "dellis" => p \in LocalPorts(obj(s)) \cup ctx[s].todo
  /\ pc[s] \in {"putlis", "cleanup", "addlabels"} => p \in LocalPorts(obj(s))

ListenInv ==
  \A l \in LB, p \in Port :
    /\ ListensOn(l, p)
    /\ \A s \in Service : Owns(s, l, p) => LeadsTo(s, l) /\ Matches(s, p)

DangInv(R) == VersionInv(R) /\ FindInv /\ GroupInv /\ OwnNamed /\ ListenInv

\* What one step does to the listeners.
Wiped(l) ==
  /\ ~nlb'[l].live /\ \A p \in Port : lis'[l][p] = None
  /\ \A k \in LB \ {l} : lis'[k] = lis[k] /\ nlb'[k] = nlb[k]

\* The listener is still there, maybe on its way out.
Goes(l, p) ==
  /\ lis[l][p] # None /\ lis'[l][p].by = lis[l][p].by /\ lis'[l][p].going

\* A pass removes a listener, or puts its own in its place.
Touched(s, p) ==
  /\ \A l \in LB, q \in Port :
       l # ctx[s].lb \/ q # p => lis'[l][q] = lis[l][q]
  /\ \/ /\ pc[s] = "dellis" /\ p \in ctx[s].todo
        /\ lis'[ctx[s].lb][p] = None \/ Goes(ctx[s].lb, p)
     \/ /\ pc[s] = "putlis" /\ p \in ctx[s].todo /\ CanPutListener(s, p)
        /\ lis'[ctx[s].lb][p] = Desired(s, p)
        /\ pc'[s] = "putlis" /\ ctx'[s].obj = ctx[s].obj

\* Only these steps change listeners, and no other one ends a load balancer.
LEMMA ListenerMoves ==
  ASSUME IInv, [Next]_vars
  PROVE  \/ lis' = lis /\ \A l \in LB : nlb[l].live => nlb'[l].live
         \/ \E l \in LB : Wiped(l)
         \/ \E l \in LB, p \in Port : ListenerJobEnds(l, p)
         \/ /\ UNCHANGED <<kube, nlb, grp>>
            /\ \E s \in Service, p \in Port : Touched(s, p)
<1>. USE DEF IInv
<1>0. /\ lis \in [LB -> [Port -> Listener \cup {None}]] /\ nlb \in [LB -> Nlb]
      /\ \A s \in Service : ctx[s] \in Ctx
  BY DEF TypeOK
<1>1. ASSUME NEW s \in Service, DeleteNLB(s) PROVE \E l \in LB : Wiped(l)
  <2>1. PICK l \in LB : l = ctx[s].lb
    BY <1>0, <1>1, CtxFields DEF DeleteNLB, CanDeleteNLB, SkipDelete
  <2>2. /\ nlb' = [nlb EXCEPT ![l] = [nlb[l] EXCEPT !.live = FALSE, !.going = FALSE]]
        /\ lis' = [lis EXCEPT ![l] = [p \in Port |-> None]]
    BY <1>0, <1>1, <2>1 DEF DeleteNLB
  <2>. QED BY <1>0, <2>2 DEF Wiped, Nlb
<1>2. ASSUME NEW l \in LB, ConsoleDeleteNLB(l) PROVE Wiped(l)
  <2>1. PICK n : n = [nlb[l] EXCEPT !.live = FALSE, !.going = FALSE,
                                    !.by = IF l \in UserLB THEN None ELSE nlb[l].by]
    OBVIOUS
  <2>2. /\ nlb' = [nlb EXCEPT ![l] = n]
        /\ lis' = [lis EXCEPT ![l] = [p \in Port |-> None]]
    BY <1>2, <2>1 DEF ConsoleDeleteNLB
  <2>3. ~n.live
    BY <1>0, <2>1 DEF Nlb
  <2>. QED BY <1>0, <2>2, <2>3 DEF Wiped
<1>13. ASSUME NEW l \in LB, NLBJobEnds(l) PROVE Wiped(l)
  <2>1. /\ nlb' = [nlb EXCEPT ![l] = [nlb[l] EXCEPT !.live = FALSE, !.going = FALSE]]
        /\ lis' = [lis EXCEPT ![l] = [p \in Port |-> None]]
    BY <1>0, <1>13 DEF NLBJobEnds
  <2>. QED BY <1>0, <2>1 DEF Wiped, Nlb
<1>14. ASSUME NEW s \in Service, DeleteNLBUnfinished(s)
       PROVE  lis' = lis /\ \A l \in LB : nlb[l].live => nlb'[l].live
  <2>1. nlb' = [nlb EXCEPT ![ctx[s].lb].going = TRUE] /\ lis' = lis
    BY <1>14 DEF DeleteNLBUnfinished
  <2>. QED BY <1>0, <2>1 DEF Nlb
<1>15. ASSUME NEW s \in Service, NEW p \in Port, DeleteNLBListenerUnfinished(s, p)
       PROVE  UNCHANGED <<kube, nlb, grp>> /\ Touched(s, p)
  <2>1. PICK l \in LB : l = ctx[s].lb
    BY <1>15 DEF DeleteNLBListenerUnfinished, PassesOK, PassAt
  <2>2. lis[l][p] # None /\ lis[l][p] \in Listener
    BY <1>0, <1>15, <2>1 DEF DeleteNLBListenerUnfinished, Remote
  <2>3. lis' = [lis EXCEPT ![l][p] = [lis[l][p] EXCEPT !.going = TRUE]]
    BY <1>15, <2>1 DEF DeleteNLBListenerUnfinished, PutListener, Remote
  <2>4. Goes(l, p)
    BY <1>0, <2>2, <2>3 DEF Goes, Listener
  <2>5. \A k \in LB, q \in Port : k # l \/ q # p => lis'[k][q] = lis[k][q]
    BY <1>0, <2>3
  <2>. QED BY <1>15, <2>1, <2>4, <2>5 DEF Touched, DeleteNLBListenerUnfinished
<1>3. ASSUME NEW s \in Service, NEW p \in Port, DeleteNLBListener(s, p)
      PROVE  UNCHANGED <<kube, nlb, grp>> /\ (lis' = lis \/ Touched(s, p))
  <2>1. PICK l \in LB : l = ctx[s].lb
    BY <1>3 DEF DeleteNLBListener, PassesOK, PassAt
  <2>2. lis' = lis \/ lis' = [lis EXCEPT ![l][p] = None]
    BY <1>3, <2>1 DEF DeleteNLBListener, PutListener
  <2>3. UNCHANGED <<kube, nlb, grp>> /\ pc[s] = "dellis" /\ p \in ctx[s].todo
    BY <1>3 DEF DeleteNLBListener
  <2>4. ASSUME lis' = [lis EXCEPT ![l][p] = None] PROVE Touched(s, p)
    BY <1>0, <2>1, <2>3, <2>4 DEF Touched
  <2>. QED BY <2>2, <2>3, <2>4
<1>4. ASSUME NEW s \in Service, NEW p \in Port, UpdateOrCreateNLBListener(s, p)
      PROVE  UNCHANGED <<kube, nlb, grp>> /\ (lis' = lis \/ Touched(s, p))
  <2>1. PICK l \in LB : l = ctx[s].lb
    BY <1>4 DEF UpdateOrCreateNLBListener, PassesOK, PassAt
  <2>2. UNCHANGED <<kube, nlb, grp>> /\ pc[s] = "putlis" /\ p \in ctx[s].todo
    BY <1>4 DEF UpdateOrCreateNLBListener
  <2>3. \/ lis' = lis
        \/ /\ lis' = [lis EXCEPT ![l][p] = Desired(s, p)] /\ CanPutListener(s, p)
           /\ ctx'[s] = [ctx[s] EXCEPT !.todo = @ \ {p}] /\ pc' = pc
    BY <1>4, <2>1, PassAfter DEF UpdateOrCreateNLBListener, PutListener
  <2>4. ASSUME ctx'[s] = [ctx[s] EXCEPT !.todo = @ \ {p}]
        PROVE  ctx'[s].obj = ctx[s].obj
    BY <1>0, <2>4, CtxVisit
  <2>5. PICK d : d = Desired(s, p)
    OBVIOUS
  <2>6. ASSUME lis' = [lis EXCEPT ![l][p] = d]
        PROVE  /\ lis'[l][p] = d
               /\ \A k \in LB, q \in Port : k # l \/ q # p => lis'[k][q] = lis[k][q]
    BY <1>0, <2>6
  <2>. QED BY <2>1, <2>2, <2>3, <2>4, <2>5, <2>6 DEF Touched
<1>5. CASE UNCHANGED vars
  BY <1>5 DEF vars
<1>6. ASSUME NEW s \in Service,
             (LoadBalancerStep(s) /\ ~DeleteNLB(s)) \/ CreateNLBLost(s)
      PROVE  lis' = lis /\ \A l \in LB : nlb[l].live => nlb'[l].live
  <2>1. lis' = lis
    BY <1>6 DEF LoadBalancerStep, FindNLB, FindNLBGone, DeleteNLBSkip, CreateNLBLost,
       CreateNLBRefused, CreateNLB, TagNLBResource, UpdateNLB, UpdateNLBRefused
  <2>2. CASE CreateNLB(s) \/ CreateNLBLost(s)
    <3>1. PICK l \in LB : NewNLB(s, l)
      BY <2>2 DEF CreateNLB, CreateNLBLost
    <3>. QED BY <1>0, <2>1, <3>1 DEF NewNLB
  <2>3. CASE TagNLBResource(s)
    <3>1. nlb' = [nlb EXCEPT ![ctx[s].lb].tag = s]
      BY <2>3 DEF TagNLBResource
    <3>. QED BY <1>0, <2>1, <3>1 DEF Nlb
  <2>4. CASE UpdateNLB(s)
    <3>1. PICK n : nlb' = [nlb EXCEPT ![ctx[s].lb].name = n]
      BY <2>4 DEF UpdateNLB
    <3>. QED BY <1>0, <2>1, <3>1 DEF Nlb
  <2>5. CASE \/ FindNLB(s) \/ FindNLBGone(s) \/ DeleteNLBSkip(s)
             \/ CreateNLBRefused(s) \/ UpdateNLBRefused(s)
    BY <2>5 DEF FindNLB, FindNLBGone, DeleteNLBSkip, CreateNLBRefused, UpdateNLBRefused
  <2>. QED BY <1>6, <2>2, <2>3, <2>4, <2>5 DEF LoadBalancerStep
<1>7. ASSUME NEW s \in Service,
             ReconcileSkip(s) \/ ReconcileStart(s) \/ FinalizerStep(s) \/ StatusStep(s)
      PROVE  UNCHANGED <<lis, nlb>>
  BY <1>7 DEF ReconcileSkip, ReconcileStart, FinalizerStep, AddFinalizersHas,
     AddFinalizersPatch, AddFinalizersError, RemoveFinalizersHasNot,
     RemoveFinalizersPatch, RemoveFinalizersError, StatusStep, addServiceLabels,
     updateServiceStatus, removeServiceLabels, removeServiceStatus
<1>8. ASSUME NEW s \in Service, GroupStep(s) PROVE UNCHANGED <<lis, nlb>>
  BY <1>8 DEF GroupStep, ListNLBServerGroups, VGroupsApplied, UpdateServerGroup,
     CreateNLBServerGroup, TagServerGroup, BatchAddServers, DeleteServerGroup,
     CleanupDone
<1>9. ASSUME NEW s \in Service,
              ListNLBListeners(s) \/ ListenersDeleted(s) \/ ListenersApplied(s)
       PROVE  UNCHANGED <<lis, nlb>>
  BY <1>9 DEF ListNLBListeners, ListenersDeleted, ListenersApplied
<1>10. ASSUME NEW s \in Service,
              \/ ServiceEvent(s) \/ CallFails(s) \/ RemoveFinalizersLost(s)
              \/ \E p \in Port : CreateNLBServerGroupLost(s, p) \/ ServersUnfinished(s, p)
              \/ EditService(s) \/ DeleteService(s) \/ BackendsChange(s)
       PROVE  UNCHANGED <<lis, nlb>>
  BY <1>10 DEF ServiceEvent, CallFails, RemoveFinalizersLost, ServersUnfinished,
     CreateNLBServerGroupLost, EditService, DeleteService, BackendsChange
<1>11. CASE Restart
  BY <1>11 DEF Restart
<1>12. ASSUME NEW s \in Service, ListenerStep(s)
       PROVE  \/ UNCHANGED <<lis, nlb>>
              \/ UNCHANGED <<kube, nlb, grp>> /\ \E p \in Port : Touched(s, p)
  BY <1>3, <1>4, <1>9, <1>12 DEF ListenerStep
<1>16. ASSUME NEW s \in Service, Faulty(s)
       PROVE  \/ lis' = lis /\ \A l \in LB : nlb[l].live => nlb'[l].live
              \/ UNCHANGED <<kube, nlb, grp>> /\ \E p \in Port : Touched(s, p)
  BY <1>6, <1>10, <1>14, <1>15, <1>16 DEF Faulty
<1>17. ASSUME NEW s \in Service, Worker(s)
       PROVE  \/ lis' = lis /\ \A l \in LB : nlb[l].live => nlb'[l].live
              \/ \E l \in LB : Wiped(l)
              \/ UNCHANGED <<kube, nlb, grp>> /\ \E p \in Port : Touched(s, p)
  BY <1>1, <1>6, <1>7, <1>8, <1>12, <1>17 DEF Worker
<1>. QED BY <1>2, <1>5, <1>10, <1>11, <1>13, <1>16, <1>17 DEF Next, UserAction, JobEnds

\* The listener on port p of l was there before the step.
Remains(l, p) ==
  /\ lis[l][p] # None /\ (lis'[l][p] = lis[l][p] \/ Goes(l, p))
  /\ nlb[l].live => nlb'[l].live
  /\ ~Wiped(l)

\* A listener was there before, or a Service has just put it there.
LEMMA ListenerBack ==
  ASSUME IInv, [Next]_vars, NEW l \in LB, NEW p \in Port, lis'[l][p] # None
  PROVE  \/ Remains(l, p)
         \/ \E s \in Service :
              /\ lis'[l][p] = Desired(s, p) /\ l = ctx[s].lb
              /\ pc[s] = "putlis" /\ p \in ctx[s].todo /\ CanPutListener(s, p)
              /\ pc'[s] = "putlis" /\ ctx'[s].obj = ctx[s].obj
              /\ UNCHANGED <<kube, nlb, grp>>
<1>0. ~Wiped(l)
  BY DEF Wiped
<1>1. CASE lis' = lis /\ \A k \in LB : nlb[k].live => nlb'[k].live
  BY <1>0, <1>1 DEF Remains
<1>2. ASSUME NEW k \in LB, Wiped(k) PROVE Remains(l, p)
  BY <1>0, <1>2 DEF Wiped, Remains
<1>4. ASSUME NEW k \in LB, NEW q \in Port, ListenerJobEnds(k, q) PROVE Remains(l, p)
  BY <1>0, <1>4 DEF ListenerJobEnds, Remains, IInv, TypeOK
<1>5. ASSUME UNCHANGED nlb, lis[l][p] = lis'[l][p] \/ Goes(l, p) PROVE Remains(l, p)
  BY <1>0, <1>5 DEF Remains, Goes
<1>3. ASSUME UNCHANGED <<kube, nlb, grp>>, NEW s \in Service, NEW q \in Port,
             Touched(s, q), lis[l][p] # lis'[l][p], ~Goes(l, p)
      PROVE  /\ lis'[l][p] = Desired(s, p) /\ l = ctx[s].lb
             /\ pc[s] = "putlis" /\ p \in ctx[s].todo /\ CanPutListener(s, p)
             /\ pc'[s] = "putlis" /\ ctx'[s].obj = ctx[s].obj
  <2>1. l = ctx[s].lb /\ q = p
    BY <1>3 DEF Touched
  <2>. QED BY <1>3, <2>1 DEF Touched
<1>6. CASE /\ UNCHANGED <<kube, nlb, grp>>
           /\ \E s \in Service, q \in Port : Touched(s, q)
  BY <1>3, <1>5, <1>6
<1>. QED BY <1>1, <1>2, <1>4, <1>6, ListenerMoves

\* A listener that is there to stay was so before.
LEMMA OwnsBack ==
  ASSUME IInv, FindInv, [Next]_vars, NEW l \in LB, NEW p \in Port,
         Remains(l, p), nlb[l].live, ~Going(l, p)'
  PROVE  lis[l][p] = lis'[l][p] /\ ~Going(l, p)
<1>1. lis[l][p] = lis'[l][p]
  BY DEF Remains, Goes, Going
<1>2. ~nlb[l].going
  BY GoingStays DEF Remains, Going
<1>. QED BY <1>1, <1>2 DEF Going

\* What a version with its own label asks for is what the pass works on.
LEMMA SameVersion ==
  ASSUME NEW R, Onwards(R), NEW v \in Object, NEW w \in Object,
         Upto(R, w, v), HashUpto(R, GetServiceHash(v), w)
  PROVE  v.spec = w.spec /\ v.deleting = w.deleting /\ LocalPorts(v) = LocalPorts(w)
<1>1. /\ v.spec \in Spec /\ w.spec \in Spec
      /\ v.deleting \in BOOLEAN /\ w.deleting \in BOOLEAN
  BY ObjectFields
<1>2. /\ <<v.spec, w.spec>> \in R /\ (v.deleting => w.deleting)
      /\ <<w.spec, v.spec>> \in R /\ (w.deleting => v.deleting)
  BY DEF Upto, HashUpto, GetServiceHash
<1>3. v.spec = w.spec /\ v.deleting = w.deleting
  BY <1>1, <1>2 DEF Onwards
<1>. QED BY <1>3 DEF LocalPorts, NeedDeleteLoadBalancer

\* A pass of s works on the load balancer that has listeners of s.
LEMMA RightLB ==
  ASSUME IInv, FindInv, ListenInv, NEW s \in Service, NEW l \in LB, NEW p \in Port,
         Owns(s, l, p), pc[s] \in Found \ Removing
  PROVE  ctx[s].lb = l /\ (IsUserManaged(obj(s)) => obj(s).spec.override)
<1>1. obj(s) \in Versions(s) /\ LeadsTo(s, l) /\ ~nlb[l].going
  BY DEF Versions, obj, ListenInv, Found, Owns, Going
<1>2. CASE IsUserManaged(obj(s))
  BY <1>1, <1>2 DEF LeadsTo, FindInv, Finds, WorksOn, obj
<1>3. CASE ~IsUserManaged(obj(s))
  BY <1>1, <1>3 DEF LeadsTo, FindInv, Finds, WorksOn, Leaving, obj
<1>. QED BY <1>2, <1>3

\* The load balancer s can find stays findable until it is deleted.
LEMMA FindableStays ==
  ASSUME Unnamed, IInv, FindInv, SpecsUsed, [Next]_vars, NEW s \in Service,
         NEW l \in LB, Findable(s, l), nlb'[l].live
  PROVE  Findable(s, l)'
<1>0. s # None /\ nlb[l].by = s
  BY ConstantsAssumption DEF FindInv, Marked, Findable
<1>1. CASE nlb'[l] = nlb[l]
  BY <1>1 DEF Findable
<1>2. CASE nlb'[l] # nlb[l]
  <2>1. LBStep(l)
    BY <1>2, LBMoves DEF LBStep
  <2>2. ~Gone(l)
    BY DEF Gone
  <2>3. ASSUME NEW r \in Service, Made(r, l) PROVE FALSE
    BY <1>0, <2>3 DEF Made, FreeLB
  <2>4. ASSUME NEW r \in Service, Tagged(r, l) PROVE Findable(s, l)'
    <3>1. pc[r] \in Found /\ ~IsUserManaged(ctx[r].obj) /\ ctx[r].lb # None
      BY <2>4, ConstantsAssumption DEF Tagged, FindInv, Finds, WorksOn, Found, PC
    <3>2. nlb[l].by = r
      BY <2>4, <3>1 DEF Tagged, FindInv, Finds, WorksOn
    <3>. QED BY <1>0, <2>4, <3>2 DEF Tagged, Findable
  <2>5. ASSUME NEW r \in Service, Renamed(r, l) PROVE Findable(s, l)'
    <3>1. ~obj(r).spec.named
      BY <2>5, ObjUsed DEF Renamed, Unnamed
    <3>. QED BY <2>5, <3>1 DEF Renamed, Findable
  <2>6. ASSUME NEW r \in Service, Leaves(r, l) PROVE Findable(s, l)'
    BY <2>6 DEF Leaves, Findable
  <2>. QED BY <2>1, <2>2, <2>3, <2>4, <2>5, <2>6 DEF LBStep
<1>. QED BY <1>1, <1>2

\* No group that a listener forwards to is deleted.
LEMMA ForwardsStay ==
  ASSUME IInv, FindInv, GroupInv, ListenInv, [Next]_vars, NEW s \in Service,
         NEW l \in LB, NEW p \in Port, Owns(s, l, p), NEW g \in Group,
         g = lis[l][p].group
  PROVE  grp'[g].live /\ grp'[g].svc = s /\ grp'[g].tag = s /\ grp'[g].port = p
<1>0. /\ grp[g].live /\ grp[g].svc = s /\ grp[g].tag = s /\ grp[g].port = p
      /\ s # None /\ None \notin Group
  BY ConstantsAssumption DEF ListenInv, ListensOn, Owns, HasLis
<1>1. CASE Kept(g)
  BY <1>0, <1>1 DEF Kept
<1>2. ASSUME NEW r \in Service, GroupChange(r, g), ~Kept(g)
      PROVE  grp'[g].live /\ grp'[g].svc = s /\ grp'[g].tag = s /\ grp'[g].port = p
  <2>1. ASSUME NEW q \in Port, GroupMade(r, q, g) PROVE FALSE
    BY <1>0, <2>1 DEF GroupMade, FreeGroup
  <2>2. ASSUME NEW q \in Port, GroupTagged(r, q, g) PROVE grp'[g].tag = s
    <3>1. BindsOne(r, "taggroup", ctx[r], q)
      BY <2>2 DEF GroupTagged, GroupInv, GroupsAt, Grouped
    <3>2. grp[g].svc = r
      BY <1>0, <2>2, <3>1 DEF BindsOne, GroupTagged
    <3>. QED BY <1>0, <2>2, <3>2 DEF GroupTagged
  <2>3. ASSUME GroupDropped(r, g) PROVE FALSE
    <3>1. r = s /\ pc[s] = "cleanup" /\ g \in UnusedGroups(s)
      BY <1>0, <2>3 DEF GroupDropped, UnusedGroups
    <3>2. p \in LocalPorts(ctx[s].obj)
      BY <3>1 DEF ListenInv, Matches, obj
    <3>3. GroupsAt(s, "cleanup", ctx[s])
      BY <3>1 DEF GroupInv
    <3>4. ctx[s].bind[p] # None
      BY <3>2, <3>3 DEF GroupsAt, LoopAt, Grouped, Applying
    <3>5. PICK h \in Group : h = ctx[s].bind[p]
      BY <3>4, CtxFields DEF IInv, TypeOK
    <3>6. grp[h].live /\ grp[h].tag = s /\ grp[h].port = p
      BY <3>3, <3>4, <3>5 DEF GroupsAt, BindsOne, Grouped
    <3>7. h = g
      BY <1>0, <3>6 DEF GroupInv, OneGroup
    <3>. QED BY <3>1, <3>5, <3>7 DEF UnusedGroups, Bound
  <2>. QED BY <1>0, <1>2, <2>1, <2>2, <2>3 DEF GroupChange, GroupTagged
<1>. QED BY <1>1, <1>2, GroupMoves DEF GroupChange

\* Whoever puts a listener has its load balancer and its group.
LEMMA PutsWell ==
  ASSUME IInv, GroupInv, ListenInv, NEW s \in Service, NEW p \in Port,
         pc[s] = "putlis", p \in ctx[s].todo, CanPutListener(s, p)
  PROVE  /\ ctx[s].lb \in LB /\ nlb[ctx[s].lb].live
         /\ ctx[s].bind[p] \in Group /\ p \in LocalPorts(obj(s))
         /\ LET g == grp[ctx[s].bind[p]]
            IN  g.live /\ g.svc = s /\ g.tag = s /\ g.port = p
         /\ ~SkipListeners(obj(s))
<1>1. ctx[s].lb \in LB /\ ~SkipListeners(obj(s))
  BY DEF IInv, PassesOK, PassAt, obj
<1>2. nlb[ctx[s].lb].live
  BY <1>1 DEF CanPutListener, Remote, Live, ListenInv, ListensOn
<1>3. GroupsAt(s, "putlis", ctx[s])
  BY DEF GroupInv
<1>4. p \in LocalPorts(obj(s)) /\ ctx[s].bind[p] # None
  BY <1>3 DEF GroupsAt, LoopAt, Grouped, Applying, obj
<1>5. ctx[s].bind[p] \in Group
  BY <1>4, CtxFields DEF IInv, TypeOK
<1>6. BindsOne(s, "putlis", ctx[s], p)
  BY <1>3 DEF GroupsAt, Grouped
<1>. QED BY <1>1, <1>2, <1>4, <1>5, <1>6 DEF BindsOne

\* Every listener stays on a live load balancer and forwards to a live group.
LEMMA ListensOnStep ==
  ASSUME IInv, FindInv, GroupInv, ListenInv, [Next]_vars,
         NEW l \in LB, NEW p \in Port
  PROVE  ListensOn(l, p)'
<1>. SUFFICES ASSUME lis'[l][p] # None PROVE ListensOn(l, p)'
  BY DEF ListensOn
<1>1. CASE Remains(l, p)
  <2>1. nlb[l].live /\ nlb'[l].live
    BY <1>1 DEF ListenInv, ListensOn, Remains
  <2>. SUFFICES ASSUME lis'[l][p].by \in Service, ~Going(l, p)'
                PROVE  ListensOn(l, p)'
    BY <2>1 DEF ListensOn
  <2>0. lis[l][p] = lis'[l][p] /\ ~Going(l, p) /\ lis[l][p] # None
    BY <1>1, <2>1, OwnsBack DEF Remains
  <2>2. ASSUME NEW s \in Service, lis[l][p].by = s
        PROVE  /\ lis[l][p].group \in Group
               /\ grp'[lis[l][p].group].live /\ grp'[lis[l][p].group].svc = s
               /\ grp'[lis[l][p].group].tag = s /\ grp'[lis[l][p].group].port = p
    <3>1. Owns(s, l, p) /\ lis[l][p].group \in Group
      BY <2>0, <2>2 DEF Owns, HasLis, ListenInv, ListensOn
    <3>. QED BY <3>1, ForwardsStay
  <2>. QED BY <2>0, <2>1, <2>2 DEF ListensOn
<1>2. ASSUME NEW s \in Service,
             /\ lis'[l][p] = Desired(s, p) /\ l = ctx[s].lb
             /\ pc[s] = "putlis" /\ p \in ctx[s].todo /\ CanPutListener(s, p)
             /\ UNCHANGED <<kube, nlb, grp>>
      PROVE  ListensOn(l, p)'
  <2>1. lis'[l][p].by = s /\ lis'[l][p].group = ctx[s].bind[p]
    BY <1>2 DEF Desired
  <2>2. /\ nlb'[l].live /\ ctx[s].bind[p] \in Group
        /\ grp'[ctx[s].bind[p]].live /\ grp'[ctx[s].bind[p]].svc = s
        /\ grp'[ctx[s].bind[p]].tag = s /\ grp'[ctx[s].bind[p]].port = p
    BY <1>2, PutsWell
  <2>. QED BY <2>1, <2>2 DEF ListensOn
<1>. QED BY <1>1, <1>2, ListenerBack

\* Every version of a Service still leads to the load balancer it listens on.
LEMMA LeadsToStep ==
  ASSUME NEW CONSTANT R, Onwards(R), Unnamed, IInv, IInv', DangInv(R), [Next]_vars,
         NEW s \in Service, NEW l \in LB, NEW p \in Port, Owns(s, l, p)'
  PROVE  LeadsTo(s, l)'
<1>. USE DEF DangInv
<1>0. Preorder(R) /\ lis'[l][p] # None /\ lis'[l][p].by = s /\ ~Going(l, p)'
  BY DEF Onwards, Owns, HasLis
<1>. SUFFICES ASSUME NEW v \in Versions(s)'
              PROVE  IF IsUserManaged(v) THEN l = v.spec.id /\ v.spec.override
                                         ELSE Findable(s, l)'
  BY DEF LeadsTo
<1>1. CASE Remains(l, p)
  <2>0. nlb[l].live /\ nlb'[l].live
    BY <1>1 DEF ListenInv, ListensOn, Remains
  <2>1. Owns(s, l, p) /\ LeadsTo(s, l)
    <3>1. lis[l][p] = lis'[l][p] /\ ~Going(l, p)
      BY <1>0, <1>1, <2>0, OwnsBack
    <3>. QED BY <1>0, <3>1 DEF Owns, HasLis, ListenInv
  <2>2. PICK w \in Versions(s) : Upto(R, w, v)
    BY <1>0, VersionsBack
  <2>3. w.spec \in Spec /\ <<w.spec, v.spec>> \in R
    BY <2>2, VersionsType DEF Upto
  <2>4. v.spec \in Spec
    <3>1. v \in Versions(s) \/ v = api'[s]
      BY <1>0, VersionsBack
    <3>2. api'[s] \in Object
      BY DEF IInv, TypeOK
    <3>. QED BY <3>1, <3>2, VersionsType, ObjectFields
  <2>5. w.spec.id = v.spec.id /\ (w.spec.override => v.spec.override)
    BY <2>3, <2>4 DEF Onwards
  <2>6. CASE IsUserManaged(v)
    BY <2>1, <2>2, <2>5, <2>6 DEF LeadsTo, IsUserManaged
  <2>7. CASE ~IsUserManaged(v)
    <3>1. Findable(s, l)
      BY <2>1, <2>2, <2>5, <2>7 DEF LeadsTo, IsUserManaged
    <3>. QED BY <2>0, <2>7, <3>1, FindableStays DEF VersionInv
  <2>. QED BY <2>6, <2>7
<1>2. ASSUME NEW r \in Service,
             /\ lis'[l][p] = Desired(r, p) /\ l = ctx[r].lb
             /\ pc[r] = "putlis" /\ p \in ctx[r].todo /\ CanPutListener(r, p)
             /\ pc'[r] = "putlis" /\ ctx'[r].obj = ctx[r].obj
             /\ UNCHANGED <<kube, nlb, grp>>
      PROVE  IF IsUserManaged(v) THEN l = v.spec.id /\ v.spec.override
                                 ELSE Findable(s, l)'
  <2>1. r = s
    BY <1>0, <1>2 DEF Desired
  <2>2. v \in Versions(s)
    BY <1>2, <2>1 DEF Versions
  <2>3. Upto(R, obj(s), v) /\ obj(s) \in Object /\ v \in Object
    <3>1. pc[s] # "idle"
      BY <1>2, <2>1
    <3>2. obj(s) \in Object
      BY <3>1 DEF IInv, PassesOK, PassAt, obj
    <3>3. Fresh /\ Chain(R)
      BY DEF VersionInv
    <3>. QED BY <1>0, <2>2, <3>1, <3>2, <3>3, ObjFirst, VersionsType
  <2>4. obj(s).spec.id = v.spec.id /\ (obj(s).spec.override => v.spec.override)
    <3>1. obj(s).spec \in Spec /\ v.spec \in Spec /\ <<obj(s).spec, v.spec>> \in R
      BY <2>3, ObjectFields DEF Upto
    <3>. QED BY <3>1 DEF Onwards
  <2>5. nlb[l].live /\ ~SkipListeners(obj(s)) /\ l # None
    BY <1>2, <2>1, PutsWell, ConstantsAssumption
  <2>6. WorksOn(s, "putlis", ctx[s])
    BY <1>2, <2>1 DEF FindInv, Finds
  <2>7. CASE IsUserManaged(v)
    <3>1. IsUserManaged(obj(s)) /\ obj(s).spec.override
      BY <2>4, <2>5, <2>7 DEF IsUserManaged, SkipListeners
    <3>2. ctx[s].lb = obj(s).spec.id
      BY <2>6, <3>1 DEF WorksOn, Found, Removing, PC, obj
    <3>. QED BY <1>2, <2>1, <2>4, <2>7, <3>1, <3>2
  <2>8. CASE ~IsUserManaged(v)
    <3>1. ~IsUserManaged(obj(s))
      BY <2>4, <2>8 DEF IsUserManaged
    <3>2. nlb[l].by = s
      BY <1>2, <2>1, <2>5, <2>6, <3>1 DEF WorksOn, Found, PC, obj
    <3>3. nlb[l].name = s
      BY <3>2 DEF OwnNamed
    <3>. QED BY <1>2, <2>5, <2>8, <3>3 DEF Findable
  <2>. QED BY <2>7, <2>8
<1>. QED BY <1>0, <1>1, <1>2, ListenerBack

\* A version with its own hash label asks for every port that s listens on.
LEMMA LabelsMatch ==
  ASSUME NEW CONSTANT R, Onwards(R), IInv, IInv', DangInv(R), [Next]_vars,
         NEW s \in Service, NEW l \in LB, NEW p \in Port, Owns(s, l, p)',
         NEW v \in Versions(s)', v.hash = GetServiceHash(v)
  PROVE  p \in LocalPorts(v)
<1>. USE DEF DangInv
<1>0. /\ Preorder(R) /\ lis'[l][p] # None /\ lis'[l][p].by = s
      /\ Fresh /\ Chain(R) /\ Labels(R) /\ ~Going(l, p)'
  BY DEF Onwards, Owns, HasLis, VersionInv
<1>1. /\ VersionStep(s) /\ api[s] \in Versions(s)
      /\ api[s] \in Object /\ api'[s] \in Object /\ cache[s] \in Object
  BY <1>0, VersionMoves DEF IInv, TypeOK, Versions
<1>2. v \in Versions(s) \/ (v = api'[s] /\ (Wrote(s) \/ Finalized(s)))
  BY <1>1, NewVersions
<1>3. v \in Object /\ v.hash # None
  BY <1>1, <1>2, VersionsType, ObjectFields, HashAssumption
<1>4. CASE Owns(s, l, p)
  <2>1. Matches(s, p)
    BY <1>4 DEF ListenInv
  <2>2. CASE v \in Versions(s)
    BY <2>1, <2>2 DEF Matches
  <2>3. CASE v = api'[s] /\ (Wrote(s) \/ Finalized(s)) /\ v.hash = api[s].hash
    <3>1. HashUpto(R, GetServiceHash(v), cache[s])
      BY <1>0, <1>1, <1>3, <2>3 DEF Labels
    <3>2. Upto(R, cache[s], api[s]) /\ Upto(R, api[s], v)
      BY <1>0, <1>1, <2>3, ObjFirst, WriteFollows
    <3>3. HashUpto(R, GetServiceHash(v), api[s])
      BY <1>0, <1>1, <1>3, <3>1, <3>2, UptoOrder, ObjectFields
    <3>4. /\ v.spec = api[s].spec /\ v.deleting = api[s].deleting
          /\ LocalPorts(v) = LocalPorts(api[s])
      BY <1>1, <1>3, <3>2, <3>3, SameVersion
    <3>5. api[s].hash = GetServiceHash(api[s])
      BY <2>3, <3>4 DEF GetServiceHash
    <3>. QED BY <1>1, <2>1, <3>4, <3>5 DEF Matches
  <2>4. CASE pc[s] = "addlabels" /\ v.hash = GetServiceHash(obj(s))
    <3>1. v.spec = obj(s).spec /\ v.deleting = obj(s).deleting
      BY <2>4 DEF GetServiceHash
    <3>2. LocalPorts(v) = LocalPorts(obj(s))
      BY <3>1 DEF LocalPorts, NeedDeleteLoadBalancer
    <3>. QED BY <2>1, <2>4, <3>2 DEF Matches
  <2>. QED BY <1>2, <1>3, <2>2, <2>3, <2>4 DEF Wrote, Finalized
<1>5. ASSUME NEW r \in Service,
             /\ lis'[l][p] = Desired(r, p) /\ l = ctx[r].lb
             /\ pc[r] = "putlis" /\ p \in ctx[r].todo /\ CanPutListener(r, p)
             /\ pc'[r] = "putlis" /\ ctx'[r].obj = ctx[r].obj
             /\ UNCHANGED <<kube, nlb, grp>>
      PROVE  p \in LocalPorts(v)
  <2>1. r = s
    BY <1>0, <1>5 DEF Desired
  <2>2. v \in Versions(s) /\ pc[s] # "idle"
    BY <1>5, <2>1 DEF Versions
  <2>3. obj(s) \in Object
    BY <2>2 DEF IInv, PassesOK, PassAt, obj
  <2>4. HashUpto(R, GetServiceHash(v), obj(s)) /\ Upto(R, obj(s), v)
    BY <1>0, <1>3, <2>2, ObjFirst DEF Labels
  <2>5. LocalPorts(v) = LocalPorts(obj(s))
    BY <1>3, <2>3, <2>4, SameVersion
  <2>. QED BY <1>5, <2>1, <2>5, PutsWell
<1>6. ASSUME Remains(l, p) PROVE Owns(s, l, p)
  <2>1. nlb[l].live
    BY <1>6 DEF ListenInv, ListensOn, Remains
  <2>. QED BY <1>0, <1>6, <2>1, OwnsBack DEF Owns, HasLis
<1>. QED BY <1>0, <1>4, <1>5, <1>6, ListenerBack

\* A pass that is done with the groups still knows every port s listens on.
LEMMA GroupStepMatches ==
  ASSUME IInv, FindInv, ListenInv, NEW s \in Service, NEW l \in LB, NEW p \in Port,
         Owns(s, l, p), GroupWork(s),
         pc'[s] \in {"dellis", "putlis", "cleanup", "addlabels"}
  PROVE  pc'[s] # "dellis" /\ p \in LocalPorts(ctx'[s].obj)
<1>0. Matches(s, p) /\ ctx[s] \in Ctx /\ TypeOK
  BY DEF ListenInv, IInv, TypeOK
<1>1. CASE VGroupsApplied(s)
  <2>1. /\ pc[s] = "vgroups" /\ ctx' = ctx
        /\ pc'[s] = IF IsServiceHashChanged(obj(s)) /\ ctx[s].lb # None
                    THEN "listeners" ELSE "cleanup"
    BY <1>0, <1>1, PassAfter DEF VGroupsApplied
  <2>2. ctx[s].lb = l /\ l # None
    BY <2>1, RightLB, ConstantsAssumption DEF Found, Removing, PC
  <2>3. obj(s).hash = GetServiceHash(obj(s)) /\ obj(s) \in Versions(s)
    BY <2>1, <2>2 DEF IsServiceHashChanged, Versions, obj
  <2>. QED BY <1>0, <2>1, <2>2, <2>3 DEF Matches, obj
<1>2. CASE DeleteServerGroup(s)
  <2>1. PICK g : Learn(s, [ctx[s] EXCEPT !.sgs = @ \ {g}])
    BY <1>2 DEF DeleteServerGroup
  <2>2. ctx'[s].obj = ctx[s].obj
    BY <1>0, <2>1, PassAfter, CtxDrop
  <2>3. pc[s] = "cleanup" /\ pc'[s] = "cleanup"
    BY <1>2 DEF DeleteServerGroup
  <2>. QED BY <1>0, <2>2, <2>3 DEF Matches, obj
<1>3. CASE CleanupDone(s)
  <2>1. pc[s] = "cleanup" /\ ctx' = ctx /\ pc'[s] # "dellis"
    BY <1>0, <1>3, PassAfter DEF CleanupDone
  <2>. QED BY <1>0, <2>1 DEF Matches, obj
<1>4. CASE ListNLBServerGroups(s)
  BY <1>0, <1>4, PassAfter DEF ListNLBServerGroups
<1>5. ASSUME NEW q \in Port,
             \/ UpdateServerGroup(s, q) \/ CreateNLBServerGroup(s, q)
             \/ TagServerGroup(s, q) \/ BatchAddServers(s, q)
             \/ ServersUnfinished(s, q)
      PROVE  FALSE
  BY <1>0, <1>5, PassAfter DEF UpdateServerGroup, CreateNLBServerGroup,
     TagServerGroup, BatchAddServers, ServersUnfinished
<1>. QED BY <1>1, <1>2, <1>3, <1>4, <1>5 DEF GroupStep, GroupWork

\* A pass at the listeners deletes or has deleted those of other ports.
LEMMA ListenerStepMatches ==
  ASSUME IInv, FindInv, ListenInv, NEW s \in Service, NEW l \in LB, NEW p \in Port,
         Owns(s, l, p), Owns(s, l, p)', ListenerWork(s), pc'[s] # "idle"
  PROVE  /\ pc'[s] = "dellis" => p \in LocalPorts(ctx'[s].obj) \cup ctx'[s].todo
         /\ pc'[s] # "dellis" => p \in LocalPorts(ctx'[s].obj)
<1>0. /\ Matches(s, p) /\ ctx[s] \in Ctx /\ TypeOK
      /\ lis \in [LB -> [Port -> Listener \cup {None}]]
  BY DEF ListenInv, IInv, TypeOK
<1>1. CASE ListNLBListeners(s)
  <2>1. pc[s] = "listeners"
    BY <1>1 DEF ListNLBListeners
  <2>2. ctx[s].lb = l /\ (IsUserManaged(obj(s)) => obj(s).spec.override)
    BY <2>1, RightLB DEF Found, Removing, PC
  <2>3. ~SkipListeners(obj(s))
    BY <2>2 DEF SkipListeners
  <2>4. PICK ports : ports = {q \in Port : Remote(s, q) # None}
    OBVIOUS
  <2>5. PICK t : t = UnmatchedListeners(s, ports)
    OBVIOUS
  <2>6. Learn(s, [ctx[s] EXCEPT !.seen = ports, !.todo = t]) /\ Goto(s, "dellis")
    BY <1>1, <2>3, <2>4, <2>5 DEF ListNLBListeners
  <2>7. pc'[s] = "dellis" /\ ctx'[s].obj = ctx[s].obj /\ ctx'[s].todo = t
    <3>1. ctx'[s] = [ctx[s] EXCEPT !.seen = ports, !.todo = t] /\ pc'[s] = "dellis"
      BY <1>0, <2>6, PassAfter
    <3>. QED BY <1>0, <3>1 DEF Ctx
  <2>8. p \in LocalPorts(obj(s)) \cup t
    BY <2>2, <2>4, <2>5 DEF Owns, HasLis, Remote, UnmatchedListeners
  <2>. QED BY <2>7, <2>8 DEF obj
<1>2. CASE ListenersDeleted(s)
  <2>1. pc[s] = "dellis" /\ ctx[s].todo = {}
    BY <1>2 DEF ListenersDeleted
  <2>2. pc'[s] = "putlis" /\ ctx'[s].obj = ctx[s].obj
    <3>1. PICK t : t = LocalPorts(obj(s))
      OBVIOUS
    <3>2. ctx'[s] = [ctx[s] EXCEPT !.todo = t] /\ pc'[s] = "putlis"
      BY <1>0, <1>2, <3>1, PassAfter DEF ListenersDeleted
    <3>. QED BY <1>0, <3>2, CtxLoop
  <2>. QED BY <1>0, <2>1, <2>2 DEF Matches, obj
<1>3. CASE ListenersApplied(s)
  <2>1. pc[s] = "putlis" /\ pc'[s] = "cleanup" /\ ctx' = ctx
    BY <1>0, <1>3, PassAfter DEF ListenersApplied
  <2>. QED BY <1>0, <2>1 DEF Matches, obj
<1>4. ASSUME NEW q \in Port, DeleteNLBListener(s, q)
      PROVE  /\ pc'[s] = "dellis" /\ p \in LocalPorts(ctx'[s].obj) \cup ctx'[s].todo
  <2>1. /\ pc[s] = "dellis" /\ pc' = pc /\ PutListener(s, q, None)
        /\ Learn(s, [ctx[s] EXCEPT !.todo = @ \ {q}])
    BY <1>0, <1>4, PassAfter DEF DeleteNLBListener
  <2>2. ctx[s].lb = l
    BY <2>1, RightLB DEF Found, Removing, PC
  <2>3. lis' = [lis EXCEPT ![l][q] = None]
    BY <2>1, <2>2 DEF PutListener
  <2>4. p # q
    BY <1>0, <2>3 DEF Owns, HasLis
  <2>5. ctx'[s].obj = ctx[s].obj /\ ctx'[s].todo = ctx[s].todo \ {q}
    <3>1. ctx'[s] = [ctx[s] EXCEPT !.todo = @ \ {q}]
      BY <1>0, <2>1, PassAfter
    <3>. QED BY <1>0, <3>1, CtxVisit
  <2>. QED BY <1>0, <2>1, <2>4, <2>5 DEF Matches, obj
<1>5. ASSUME NEW q \in Port, UpdateOrCreateNLBListener(s, q)
      PROVE  pc'[s] = "putlis" /\ p \in LocalPorts(ctx'[s].obj)
  <2>1. /\ pc[s] = "putlis" /\ pc' = pc
        /\ Learn(s, [ctx[s] EXCEPT !.todo = @ \ {q}])
    BY <1>0, <1>5, PassAfter DEF UpdateOrCreateNLBListener
  <2>2. ctx'[s].obj = ctx[s].obj
    <3>1. ctx'[s] = [ctx[s] EXCEPT !.todo = @ \ {q}]
      BY <1>0, <2>1, PassAfter
    <3>. QED BY <1>0, <3>1, CtxVisit
  <2>. QED BY <1>0, <2>1, <2>2 DEF Matches, obj
<1>6. ASSUME NEW q \in Port, DeleteNLBListenerUnfinished(s, q)
      PROVE  /\ pc'[s] = "dellis" /\ p \in LocalPorts(ctx'[s].obj) \cup ctx'[s].todo
  <2>1. pc[s] = "dellis" /\ PutListener(s, q, [Remote(s, q) EXCEPT !.going = TRUE])
        /\ pc' = pc /\ Learn(s, [ctx[s] EXCEPT !.todo = @ \ {q}])
    BY <1>0, <1>6, PassAfter DEF DeleteNLBListenerUnfinished
  <2>2. ctx[s].lb = l /\ lis[l][q] \in Listener
    <3>1. ctx[s].lb = l
      BY <2>1, RightLB DEF Found, Removing, PC
    <3>. QED BY <1>0, <1>6, <3>1 DEF DeleteNLBListenerUnfinished, Remote
  <2>3. lis' = [lis EXCEPT ![l][q] = [lis[l][q] EXCEPT !.going = TRUE]]
    BY <2>1, <2>2 DEF PutListener, Remote
  <2>4. lis'[l][q].going
    BY <1>0, <2>2, <2>3 DEF Listener
  <2>5. p # q
    BY <2>4 DEF Owns, Going
  <2>6. ctx'[s].obj = ctx[s].obj /\ ctx'[s].todo = ctx[s].todo \ {q}
    <3>1. ctx'[s] = [ctx[s] EXCEPT !.todo = @ \ {q}]
      BY <1>0, <2>1, PassAfter
    <3>. QED BY <1>0, <3>1, CtxVisit
  <2>. QED BY <1>0, <2>1, <2>5, <2>6 DEF Matches, obj
<1>. QED BY <1>1, <1>2, <1>3, <1>4, <1>5, <1>6 DEF ListenerStep, ListenerWork

\* A pass still knows every port that s listens on.
LEMMA MatchesStep ==
  ASSUME NEW CONSTANT R, Onwards(R), IInv, IInv', DangInv(R), [Next]_vars,
         NEW s \in Service, NEW l \in LB, NEW p \in Port, Owns(s, l, p)'
  PROVE  Matches(s, p)'
<1>. USE DEF DangInv
<1>0. lis'[l][p] # None /\ lis'[l][p].by = s /\ ~Going(l, p)'
  BY DEF Owns, HasLis
<1>1. \A v \in Versions(s)' : v.hash = GetServiceHash(v) => p \in LocalPorts(v)
  BY LabelsMatch
<1>2. ASSUME pc'[s] \in {"dellis", "putlis", "cleanup", "addlabels"}
      PROVE  /\ pc'[s] = "dellis" => p \in LocalPorts(ctx'[s].obj) \cup ctx'[s].todo
             /\ pc'[s] # "dellis" => p \in LocalPorts(ctx'[s].obj)
  <2>1. CASE Owns(s, l, p)
    <3>0. Matches(s, p)
      BY <2>1 DEF ListenInv
    <3>1. CASE pc'[s] = pc[s] /\ ctx'[s] = ctx[s]
      BY <1>2, <3>0, <3>1 DEF Matches, obj
    <3>2. CASE GroupWork(s)
      BY <1>2, <2>1, <3>2, GroupStepMatches
    <3>3. CASE ListenerWork(s)
      BY <1>2, <2>1, <3>3, ListenerStepMatches
    <3>. QED BY <1>2, <3>1, <3>2, <3>3, GroupedMoves DEF Grouped
  <2>2. ASSUME NEW r \in Service,
               /\ lis'[l][p] = Desired(r, p) /\ l = ctx[r].lb
               /\ pc[r] = "putlis" /\ p \in ctx[r].todo /\ CanPutListener(r, p)
               /\ pc'[r] = "putlis" /\ ctx'[r].obj = ctx[r].obj
        PROVE  pc'[s] = "putlis" /\ p \in LocalPorts(ctx'[s].obj)
    <3>1. r = s
      BY <1>0, <2>2 DEF Desired
    <3>. QED BY <2>2, <3>1, PutsWell DEF obj
  <2>3. ASSUME Remains(l, p) PROVE Owns(s, l, p)
    <3>1. nlb[l].live
      BY <2>3 DEF ListenInv, ListensOn, Remains
    <3>. QED BY <1>0, <2>3, <3>1, OwnsBack DEF Owns, HasLis
  <2>. QED BY <1>0, <2>1, <2>2, <2>3, ListenerBack
<1>. QED BY <1>1, <1>2 DEF Matches, obj

\* At first only the user listens, on load balancers that are alive.
LEMMA ListenInvInit == ASSUME Init PROVE ListenInv
<1>1. ASSUME NEW l \in LB, NEW p \in Port, lis[l][p] # None
      PROVE  lis[l][p].by = User /\ nlb[l].live
  BY <1>1 DEF Init, FreshNlb
<1>. QED BY <1>1, UserAssumption DEF ListenInv, ListensOn, Owns, HasLis

\* The invariant of this section holds at first and is kept.
LEMMA DangInvInit ==
  ASSUME NEW CONSTANT R, Preorder(R), Init PROVE DangInv(R)
<1>1. OwnNamed
  BY ConstantsAssumption, UserAssumption DEF Init, OwnNamed, FreshNlb
<1>. QED BY <1>1, VersionInvInit, FindInvInit, GroupInvInit, ListenInvInit DEF DangInv

\* Every step keeps it.
LEMMA DangInvStep ==
  ASSUME NEW CONSTANT R, Onwards(R), Unnamed, IInv, IInv', DangInv(R), [Next]_vars
  PROVE  DangInv(R)'
<1>1. VersionInv(R)'
  BY VersionInvStep DEF Onwards, DangInv
<1>2. FindInv' /\ GroupInv'
  BY FindInvStep, GroupInvStep DEF DangInv
<1>3. OwnNamed'
  BY OwnNamedStep DEF DangInv, VersionInv
<1>4. ASSUME NEW l \in LB, NEW p \in Port PROVE ListensOn(l, p)'
  BY ListensOnStep DEF DangInv
<1>5. ASSUME NEW s \in Service, NEW l \in LB, NEW p \in Port, Owns(s, l, p)'
      PROVE  LeadsTo(s, l)' /\ Matches(s, p)'
  BY <1>5, LeadsToStep, MatchesStep
<1>6. ListenInv'
  BY <1>4, <1>5 DEF ListenInv
<1>. QED BY <1>1, <1>2, <1>3, <1>6 DEF DangInv

(***************************************************************************)
(* Groups before listeners, listeners before the deletion of groups: no    *)
(* listener of a Service ever forwards to a deleted server group, unless   *)
(* the cloud has accepted to delete it or its load balancer, whatever      *)
(* fails, is not waited for or restarts in between and however old the     *)
(* Service is that a pass works on, as long as specs do not come back and  *)
(* the controller names its load balancers.                                *)
(***************************************************************************)
THEOREM NothingDangles ==
  ASSUME Unnamed, NeverBack PROVE Behaviour => []NoDanglingListener
<1>0. PICK R \in SUBSET (Spec \X Spec) : Onwards(R)
  BY DEF NeverBack
<1>. DEFINE Inv == DangInv(R)
<1>1. Init => Inv
  BY <1>0, DangInvInit DEF Onwards
<1>2. IInv /\ IInv' /\ Inv /\ [Next]_vars => Inv'
  BY <1>0, DangInvStep
<1>3. IInv /\ Inv => NoDanglingListener
  <2>1. None \notin Group
    BY ConstantsAssumption
  <2>. QED BY <2>1 DEF DangInv, ListenInv, ListensOn, NoDanglingListener
<1>. HIDE DEF Inv
<1>. QED BY <1>1, <1>2, <1>3, Invariance, PTL DEF Behaviour
-----------------------------------------------------------------------------
(***************************************************************************)
(* Services that share a load balancer of the user's.                      *)
(***************************************************************************)
\* The specs s may ever have: those it may be created with, and the edits of
\* a spec it may have.
Specs(s) ==
  {sp \in Spec : \A X \in SUBSET Spec :
     /\ \A f \in InitSpec : f[s] \in X
     /\ \A e \in Edit : e[1] \in X => e[2] \in X
     => sp \in X}

\* The ports s may ever ask for on l.
PortsOn(s, l) == UNION {sp.ports : sp \in {x \in Specs(s) : x.id = l}}

(***************************************************************************)
(* Services that reuse the same load balancer never ask for the same port. *)
(* Otherwise the one that comes last takes the port, and a pass of the     *)
(* other that has just listed its own listener there deletes a stranger's. *)
(***************************************************************************)
PortsApart ==
  \A s, r \in Service, l \in UserLB :
    s # r => PortsOn(s, l) \cap PortsOn(r, l) = {}

\* What a pass is about to delete is no port of its own, and on a load
\* balancer of the user's it is still a listener of s.
Deletes(s, at, c) ==
  at = "dellis" => \A p \in c.todo :
    /\ p \in Port /\ p \notin LocalPorts(c.obj)
    /\ c.lb \in UserLB => /\ p \in PortsOn(s, c.lb)
                          /\ lis[c.lb][p] # None => lis[c.lb][p].by = s

ShareInv ==
  \A s \in Service :
    /\ \A v \in Versions(s) : v.spec \in Specs(s)
    /\ \A l \in UserLB, p \in Port : HasLis(s, l, p) => p \in PortsOn(s, l)
    /\ Deletes(s, pc[s], ctx[s])

\* A Service has the specs it is created with and every edit of one it has.
LEMMA SpecsGrow ==
  ASSUME NEW s \in Service
  PROVE  /\ Specs(s) \subseteq Spec
         /\ \A f \in InitSpec : f[s] \in Specs(s)
         /\ \A e \in Edit : e[1] \in Specs(s) => e[2] \in Specs(s)
<1>1. ASSUME NEW f \in InitSpec PROVE f[s] \in Specs(s)
  <2>1. f[s] \in Spec
    BY <1>1, ConstantsAssumption
  <2>. QED BY <1>1, <2>1 DEF Specs
<1>2. ASSUME NEW e \in Edit, e[1] \in Specs(s) PROVE e[2] \in Specs(s)
  <2>1. e[2] \in Spec
    BY <1>2, ConstantsAssumption
  <2>2. ASSUME NEW X \in SUBSET Spec, \A f \in InitSpec : f[s] \in X,
               \A d \in Edit : d[1] \in X => d[2] \in X
        PROVE  e[2] \in X
    <3>1. e[1] \in X
      BY <1>2, <2>2 DEF Specs
    <3>. QED BY <1>2, <2>2, <3>1
  <2>. QED BY <2>1, <2>2 DEF Specs
<1>3. Specs(s) \subseteq Spec
  BY DEF Specs
<1>. QED BY <1>1, <1>2, <1>3

\* Every version of s keeps to them.
LEMMA SpecsStep ==
  ASSUME IInv, Fresh, ShareInv, [Next]_vars, NEW s \in Service, NEW v \in Versions(s)'
  PROVE  v.spec \in Specs(s)
<1>1. VersionStep(s)
  BY VersionMoves
<1>2. \A w \in Versions(s) : w.spec \in Specs(s)
  BY DEF ShareInv
<1>3. v \in Versions(s) \/ (v = api'[s] /\ (Wrote(s) \/ Finalized(s)))
  BY <1>1, NewVersions
<1>4. api[s].spec \in Specs(s)
  BY <1>2 DEF Versions
<1>5. CASE v = api'[s] /\ (Wrote(s) \/ Finalized(s))
  <2>1. v.spec = api[s].spec \/ <<api[s].spec, v.spec>> \in Edit
    BY <1>5 DEF Wrote, Finalized
  <2>2. ASSUME <<api[s].spec, v.spec>> \in Edit PROVE v.spec \in Specs(s)
    <3>1. PICK e \in Edit : e = <<api[s].spec, v.spec>>
      BY <2>2
    <3>2. e[1] \in Specs(s) /\ e[2] = v.spec
      BY <1>4, <3>1
    <3>. QED BY <3>2, SpecsGrow
  <2>. QED BY <1>4, <2>1, <2>2
<1>. QED BY <1>2, <1>3, <1>5

\* A pass puts listeners on the ports of its own on the user's load balancer.
LEMMA PutsOwnPort ==
  ASSUME IInv, FindInv, GroupInv, ShareInv, NEW s \in Service, NEW p \in Port,
         pc[s] = "putlis", p \in ctx[s].todo, ctx[s].lb \in UserLB
  PROVE  p \in PortsOn(s, ctx[s].lb)
<1>1. IsUserManaged(obj(s)) /\ obj(s) \in Versions(s)
  BY DEF IInv, PassesOK, PassAt, Versions, obj
<1>2. ctx[s].lb = obj(s).spec.id
  <2>1. WorksOn(s, "putlis", ctx[s])
    BY DEF FindInv, Finds
  <2>. QED BY <1>1, <2>1 DEF WorksOn, Found, Removing, PC, obj
<1>3. p \in LocalPorts(obj(s))
  BY DEF GroupInv, GroupsAt, LoopAt, obj
<1>4. p \in obj(s).spec.ports /\ obj(s).spec \in Specs(s)
  BY <1>1, <1>3 DEF LocalPorts, ShareInv
<1>. QED BY <1>2, <1>4 DEF PortsOn

\* Whatever s listens on there is a port of its own.
LEMMA PortsOwnedStep ==
  ASSUME IInv, FindInv, GroupInv, ShareInv, [Next]_vars, NEW s \in Service,
         NEW l \in UserLB, NEW p \in Port, HasLis(s, l, p)'
  PROVE  p \in PortsOn(s, l)
<1>0. l \in LB /\ lis'[l][p] # None /\ lis'[l][p].by = s
  BY ConstantsAssumption DEF HasLis
<1>1. CASE Remains(l, p)
  BY <1>0, <1>1 DEF ShareInv, HasLis, Remains, Goes
<1>2. ASSUME NEW r \in Service, lis'[l][p] = Desired(r, p), l = ctx[r].lb,
             pc[r] = "putlis", p \in ctx[r].todo
      PROVE  p \in PortsOn(s, l)
  <2>1. r = s
    BY <1>0, <1>2 DEF Desired
  <2>. QED BY <1>2, <2>1, PutsOwnPort
<1>. QED BY <1>0, <1>1, <1>2, ListenerBack

\* What a pass is about to delete stays its own while others work.
LEMMA DeletesStay ==
  ASSUME PortsApart, IInv, FindInv, GroupInv, ShareInv, [Next]_vars, NEW s \in Service,
         NEW l \in UserLB, NEW p \in Port, p \in PortsOn(s, l),
         lis[l][p] # None => lis[l][p].by = s, lis'[l][p] # None
  PROVE  lis'[l][p].by = s
<1>0. l \in LB
  BY ConstantsAssumption
<1>1. ASSUME NEW r \in Service, lis'[l][p] = Desired(r, p), l = ctx[r].lb,
             pc[r] = "putlis", p \in ctx[r].todo
      PROVE  r = s /\ lis'[l][p].by = s
  <2>1. r = s
    BY <1>1, PutsOwnPort DEF PortsApart
  <2>. QED BY <1>1, <2>1 DEF Desired
<1>2. ASSUME Remains(l, p) PROVE lis'[l][p].by = s
  BY <1>2 DEF Remains, Goes
<1>. QED BY <1>0, <1>1, <1>2, ListenerBack

\* The pass that lists the listeners takes its own that no port asks for.
LEMMA DeletesListed ==
  ASSUME IInv, FindInv, ShareInv, NEW s \in Service, ListNLBListeners(s), pc'[s] = "dellis"
  PROVE  /\ lis' = lis /\ ctx'[s].obj = ctx[s].obj /\ ctx'[s].lb = ctx[s].lb
         /\ \A p \in ctx'[s].todo :
              /\ p \in Port /\ p \notin LocalPorts(obj(s))
              /\ ctx[s].lb \in UserLB => HasLis(s, ctx[s].lb, p)
<1>0. ctx[s] \in Ctx /\ TypeOK /\ pc[s] = "listeners" /\ lis' = lis
  BY DEF IInv, TypeOK, ListNLBListeners
<1>1. ~SkipListeners(obj(s))
  BY <1>0, PassAfter DEF ListNLBListeners
<1>2. PICK ports : ports = {q \in Port : Remote(s, q) # None}
  OBVIOUS
<1>3. PICK t : t = UnmatchedListeners(s, ports)
  OBVIOUS
<1>4. ctx'[s] = [ctx[s] EXCEPT !.seen = ports, !.todo = t]
  BY <1>0, <1>1, <1>2, <1>3, PassAfter DEF ListNLBListeners
<1>5. ctx'[s].obj = ctx[s].obj /\ ctx'[s].lb = ctx[s].lb /\ ctx'[s].todo = t
  BY <1>0, <1>4 DEF Ctx
<1>6. ctx[s].lb \in UserLB => IsUserManaged(obj(s))
  BY DEF IInv, PassesOK, PassAt, obj
<1>. QED BY <1>0, <1>2, <1>3, <1>5, <1>6 DEF UnmatchedListeners, Remote, HasLis

\* A pass keeps deleting what is its own.
LEMMA DeletesStep ==
  ASSUME PortsApart, IInv, FindInv, GroupInv, ShareInv, [Next]_vars, NEW s \in Service
  PROVE  Deletes(s, pc[s], ctx[s])'
<1>. SUFFICES ASSUME pc'[s] = "dellis", NEW p \in ctx'[s].todo
              PROVE  /\ p \in Port /\ p \notin LocalPorts(ctx'[s].obj)
                     /\ ctx'[s].lb \in UserLB =>
                          /\ p \in PortsOn(s, ctx'[s].lb)
                          /\ lis'[ctx'[s].lb][p] # None => lis'[ctx'[s].lb][p].by = s
  BY DEF Deletes
<1>0. TypeOK /\ ctx[s] \in Ctx
  BY DEF IInv, TypeOK
<1>1. ASSUME pc[s] = "dellis", ctx'[s].obj = ctx[s].obj, ctx'[s].lb = ctx[s].lb,
             p \in ctx[s].todo
      PROVE  /\ p \in Port /\ p \notin LocalPorts(ctx'[s].obj)
             /\ ctx'[s].lb \in UserLB =>
                  /\ p \in PortsOn(s, ctx'[s].lb)
                  /\ lis'[ctx'[s].lb][p] # None => lis'[ctx'[s].lb][p].by = s
  <2>1. Deletes(s, pc[s], ctx[s])
    BY DEF ShareInv
  <2>2. /\ p \in Port /\ p \notin LocalPorts(ctx[s].obj)
        /\ ctx[s].lb \in UserLB =>
             /\ p \in PortsOn(s, ctx[s].lb)
             /\ lis[ctx[s].lb][p] # None => lis[ctx[s].lb][p].by = s
    BY <1>1, <2>1 DEF Deletes
  <2>. QED BY <1>1, <2>2, DeletesStay
<1>2. CASE pc'[s] = pc[s] /\ ctx'[s] = ctx[s]
  BY <1>1, <1>2
<1>3. CASE GroupWork(s)
  <2>1. pc'[s] # "dellis"
    <3>1. CASE VGroupsApplied(s) \/ CleanupDone(s) \/ ListNLBServerGroups(s)
      BY <1>0, <3>1, PassAfter DEF VGroupsApplied, CleanupDone, ListNLBServerGroups
    <3>2. CASE DeleteServerGroup(s)
      BY <3>2 DEF DeleteServerGroup
    <3>3. ASSUME NEW q \in Port,
                 \/ UpdateServerGroup(s, q) \/ CreateNLBServerGroup(s, q)
                 \/ TagServerGroup(s, q) \/ BatchAddServers(s, q)
                 \/ ServersUnfinished(s, q)
          PROVE  pc'[s] # "dellis"
      BY <1>0, <3>3, PassAfter DEF UpdateServerGroup, CreateNLBServerGroup,
         TagServerGroup, BatchAddServers, ServersUnfinished
    <3>. QED BY <1>3, <3>1, <3>2, <3>3 DEF GroupStep, GroupWork
  <2>. QED BY <2>1
<1>4. CASE ListNLBListeners(s)
  <2>1. /\ lis' = lis /\ ctx'[s].obj = ctx[s].obj /\ ctx'[s].lb = ctx[s].lb
        /\ p \in Port /\ p \notin LocalPorts(obj(s))
        /\ ctx[s].lb \in UserLB => HasLis(s, ctx[s].lb, p)
    BY <1>4, DeletesListed
  <2>. QED BY <2>1 DEF ShareInv, HasLis, obj
<1>5. CASE ListenersDeleted(s) \/ ListenersApplied(s)
  BY <1>0, <1>5, PassAfter DEF ListenersDeleted, ListenersApplied
<1>6. ASSUME NEW q \in Port,
             DeleteNLBListener(s, q) \/ DeleteNLBListenerUnfinished(s, q)
      PROVE  /\ pc[s] = "dellis" /\ ctx'[s].obj = ctx[s].obj /\ ctx'[s].lb = ctx[s].lb
             /\ p \in ctx[s].todo
  <2>1. pc[s] = "dellis" /\ ctx'[s] = [ctx[s] EXCEPT !.todo = @ \ {q}]
    BY <1>0, <1>6, PassAfter DEF DeleteNLBListener, DeleteNLBListenerUnfinished
  <2>. QED BY <1>0, <2>1, CtxVisit
<1>7. ASSUME NEW q \in Port, UpdateOrCreateNLBListener(s, q) PROVE FALSE
  BY <1>0, <1>7, PassAfter DEF UpdateOrCreateNLBListener
<1>8. CASE ListenerWork(s)
  BY <1>1, <1>4, <1>5, <1>6, <1>7, <1>8 DEF ListenerStep, ListenerWork
<1>. QED BY <1>2, <1>3, <1>8, GroupedMoves DEF Grouped

\* At first nobody listens but the user, and every Service is as created.
LEMMA ShareInvInit == ASSUME Init PROVE ShareInv
<1>1. PICK sp \in InitSpec :
        api = [s \in Service |->
                 [exists |-> TRUE, spec |-> sp[s], deleting |-> FALSE,
                  finalizer |-> FALSE, hash |-> None, host |-> None]]
  BY DEF Init
<1>. SUFFICES ASSUME NEW s \in Service
              PROVE  /\ \A v \in Versions(s) : v.spec \in Specs(s)
                     /\ \A l \in UserLB, p \in Port : HasLis(s, l, p) => p \in PortsOn(s, l)
                     /\ Deletes(s, pc[s], ctx[s])
  BY DEF ShareInv
<1>2. pc[s] = "idle" /\ watch[s] = << >> /\ cache = api
  BY DEF Init
<1>3. Versions(s) = {api[s]}
  BY <1>2 DEF Versions
<1>4. api[s].spec = sp[s] /\ sp[s] \in Specs(s)
  BY <1>1, SpecsGrow
<1>5. ASSUME NEW l \in UserLB, NEW p \in Port PROVE ~HasLis(s, l, p)
  BY UserAssumption, ConstantsAssumption DEF Init, HasLis
<1>. QED BY <1>2, <1>3, <1>4, <1>5 DEF Deletes

\* The inductive step.
LEMMA ShareInvStep ==
  ASSUME PortsApart, IInv, Fresh, FindInv, GroupInv, ShareInv, [Next]_vars
  PROVE  ShareInv'
<1>1. ASSUME NEW s \in Service
      PROVE  /\ \A v \in Versions(s)' : v.spec \in Specs(s)
             /\ \A l \in UserLB, p \in Port : HasLis(s, l, p)' => p \in PortsOn(s, l)
             /\ Deletes(s, pc[s], ctx[s])'
  BY SpecsStep, PortsOwnedStep, DeletesStep
<1>. QED BY <1>1 DEF ShareInv

(***************************************************************************)
(* Whatever fails, restarts or is edited between the listing of the        *)
(* listeners and the calls, a listener on a load balancer of the user's is *)
(* changed or deleted only by a Service that forces the override, and only *)
(* if it is that Service's own or on one of its ports, for any number of   *)
(* Services that share load balancers but never a port on one.             *)
(***************************************************************************)
THEOREM UserListenersSafe == ASSUME PortsApart PROVE Behaviour => UserListenersKept
<1>. DEFINE Any == Spec \X Spec
            Inv == VersionInv(Any) /\ FindInv /\ GroupInv /\ ShareInv
            Keeps == \A l \in UserLB, p \in Port :
                       lis[l][p] # None /\ lis'[l][p] # lis[l][p]
                       /\ nlb'[l].live /\ ~Removed(l, p)
                       => \E s \in Service : pc[s] \in {"dellis", "putlis"}
                                             /\ MayTouch(s, l, p)
<1>1. Init => Inv
  BY AnyOrder, VersionInvInit, FindInvInit, GroupInvInit, ShareInvInit
<1>2. IInv /\ IInv' /\ Inv /\ [Next]_vars => Inv'
  <2>. SUFFICES ASSUME IInv, IInv', Inv, [Next]_vars PROVE Inv'
    OBVIOUS
  <2>1. VersionInv(Any)'
    BY AnyOrder, VersionInvStep
  <2>2. FindInv' /\ GroupInv'
    BY FindInvStep, GroupInvStep
  <2>3. ShareInv'
    BY ShareInvStep DEF VersionInv
  <2>. QED BY <2>1, <2>2, <2>3
<1>3. IInv /\ Inv /\ [Next]_vars => Keeps
  <2>. SUFFICES ASSUME IInv, Inv, [Next]_vars, NEW l \in UserLB, NEW p \in Port,
                       lis[l][p] # None, lis'[l][p] # lis[l][p], nlb'[l].live,
                       ~Removed(l, p)
                PROVE  \E s \in Service : pc[s] \in {"dellis", "putlis"}
                                          /\ MayTouch(s, l, p)
    OBVIOUS
  <2>0. l \in LB
    BY ConstantsAssumption
  <2>5. ASSUME NEW k \in LB, NEW q \in Port PROVE ~ListenerJobEnds(k, q)
    <3>. SUFFICES ASSUME ListenerJobEnds(k, q) PROVE FALSE
      OBVIOUS
    <3>1. lis' = [lis EXCEPT ![k][q] = None] /\ lis[k][q].going
      BY DEF ListenerJobEnds
    <3>0. lis \in [LB -> [Port -> Listener \cup {None}]]
      BY DEF IInv, TypeOK
    <3>2. CASE k = l /\ q = p
      BY <2>0, <3>0, <3>1, <3>2 DEF Removed
    <3>3. CASE k # l
      BY <2>0, <3>0, <3>1, <3>3
    <3>4. CASE k = l /\ q # p
      BY <2>0, <3>0, <3>1, <3>4
    <3>. QED BY <3>2, <3>3, <3>4
  <2>1. PICK s \in Service, q \in Port : Touched(s, q)
    BY <2>0, <2>5, ListenerMoves DEF Wiped
  <2>2. l = ctx[s].lb /\ q = p /\ pc[s] \in {"dellis", "putlis"} /\ p \in ctx[s].todo
    BY <2>0, <2>1 DEF Touched
  <2>3. obj(s).spec.override
    <3>1. PassAt(pc[s], ctx[s])
      BY DEF IInv, PassesOK
    <3>. QED BY <2>2, <3>1 DEF PassAt, SkipListeners, obj
  <2>4. lis[l][p].by = s \/ p \in obj(s).spec.ports
    <3>1. CASE pc[s] = "dellis"
      BY <2>2, <3>1 DEF ShareInv, Deletes
    <3>2. CASE pc[s] = "putlis"
      <4>1. p \in LocalPorts(obj(s))
        BY <2>2, <3>2 DEF GroupInv, GroupsAt, LoopAt, obj
      <4>. QED BY <4>1 DEF LocalPorts
    <3>. QED BY <2>2, <3>1, <3>2
  <2>. QED BY <2>2, <2>3, <2>4 DEF MayTouch
<1>4. (Behaviour => [][Keeps]_vars) => (Behaviour => UserListenersKept)
  BY DEF UserListenersKept
<1>. HIDE DEF Inv, Keeps
<1>. QED BY <1>1, <1>2, <1>3, <1>4, Invariance, PTL DEF Behaviour
-----------------------------------------------------------------------------
(***************************************************************************)
(* A Service at rest is in sync.                                           *)
(***************************************************************************)
(***************************************************************************)
(* The hypotheses, besides Unnamed, NeverBack and PortsApart: a Service    *)
(* that needs no load balancer any more stays so; what is reused was made  *)
(* by the user; and nobody deletes a load balancer of the controller's on  *)
(* the console.                                                            *)
(***************************************************************************)
StaysOff == \A e \in Edit : e[1].type = "none" => e[2].type = "none"

ReusesUsers == \A sp \in UsedSpec : sp.id # None => sp.id \in UserLB

OwnStay == Deletable \subseteq UserLB

\* Edits lead onwards in R and never turn a load balancer on again.
Forward(R) ==
  /\ Onwards(R)
  /\ \A a, b \in Spec : <<a, b>> \in R /\ a.type = "none" => b.type = "none"

\* Of the versions of s none was there again after it was gone.
Exists(s) == api[s].exists => \A v \in Versions(s) : v.exists

\* The load balancer made for s stays as long as a version of s wants it.
Alive(s) ==
  \A l \in LB :
    nlb[l].by = s /\ (\E v \in Versions(s) : ~Off(v)) => nlb[l].live /\ ~nlb[l].going

\* The load balancer o asks for is l.
Target(s, o, l) == IF IsUserManaged(o) THEN l = o.spec.id ELSE nlb[l].by = s

\* The status names the load balancer of s, and once it does so it stays.
Hosts(s) ==
  ~Off(api[s]) => \A v \in Versions(s) : v.host # None =>
    api[s].host # None /\ v.host \in LB /\ Target(s, v, v.host)

\* s has the listeners ps of o, unless the load balancer is or will be deleted.
Listens(s, o, ps) ==
  \A l \in LB, p \in ps :
    Target(s, o, l) /\ nlb[l].live /\ ~nlb[l].going => Owns(s, l, p)

Labelled(o) == o.hash = GetServiceHash(o) /\ ~Off(o)

\* What the hash label of a version says of the label, the load balancer and
\* the listeners of s.
Tells(s, v) ==
  /\ GetServiceHash(api[s]) = GetServiceHash(v) => api[s].hash = v.hash
  /\ ~IsUserManaged(v) => \E l \in LB : nlb[l].by = s
  /\ ~SkipListeners(v) => Listens(s, v, v.spec.ports)

\* The groups of s on ports ps hold the backends b, unless a job was not over.
Filled(s, ps, b) ==
  \A g \in Group :
    grp[g].live /\ grp[g].tag = s /\ grp[g].port \in ps
    => grp[g].servers \in {b, Unfinished}

\* The pass is done with the groups, and has not come to a cleanup's end.
After == {"listeners", "dellis", "putlis", "cleanup", "addlabels", "addstatus"}

\* What a pass has done so far: it has its load balancer, the groups of the
\* ports it is done with hold the backends, and s has their listeners.
Placed(at, c) ==
  at \in Found \ ({"lbattr"} \cup Removing) /\ ~Off(c.obj) => c.lb # None

Serving(s, at, c) ==
  /\ at \in Applying =>
       \A p \in LocalPorts(c.obj) \ c.todo :
         grp[c.bind[p]].servers \in {c.eps, Unfinished}
  /\ at \in After => Filled(s, LocalPorts(c.obj), c.eps)

Listening(s, at, c) ==
  /\ at = "putlis" => Listens(s, c.obj, LocalPorts(c.obj) \ c.todo)
  /\ at \in {"cleanup", "addlabels"} /\ ~SkipListeners(c.obj) =>
       Listens(s, c.obj, LocalPorts(c.obj))

HasDone(s, at, c) == Placed(at, c) /\ Serving(s, at, c) /\ Listening(s, at, c)

\* No change that the handlers saw is waiting for the next pass.
Heeded(s) == s \notin queue /\ api[s].exists /\ NeedNLB(cache[s])

\* No change of what the user wrote is on its way to the cache.
Caught(s) == ~Off(api[s]) /\ GetServiceHash(cache[s]) = GetServiceHash(api[s])

\* A pass that need not be repeated works on what is current, and leaves the
\* label, the status and the backends right.
Current(s) ==
  Heeded(s) =>
    /\ pc[s] # "idle" => GetServiceHash(obj(s)) = GetServiceHash(cache[s])
    /\ pc[s] \in Found \ Removing => ctx[s].eps = eps[s]
    /\ Caught(s) =>
         /\ pc[s] \in {"addstatus", "idle"} => api[s].hash = GetServiceHash(api[s])
         /\ pc[s] = "idle" => /\ api[s].host # None
                              /\ Filled(s, api[s].spec.ports, eps[s])

SyncInv ==
  \A s \in Service :
    /\ Exists(s) /\ Alive(s) /\ Ways(s) /\ Hosts(s)
    /\ \A v \in Versions(s) : Labelled(v) => Tells(s, v)
    /\ HasDone(s, pc[s], ctx[s])
    /\ Current(s)

Rules(R) == Forward(R) /\ Unnamed /\ PortsApart /\ ReusesUsers /\ OwnStay

RestInv(R) == DangInv(R) /\ ShareInv /\ SyncInv

\* Later versions reuse the same load balancer, and none is turned on again.
LEMMA ForwardFacts ==
  ASSUME NEW R, Forward(R), NEW v \in Object, NEW w \in Object, Upto(R, v, w)
  PROVE  /\ Off(v) => Off(w)
         /\ v.spec.id = w.spec.id /\ IsUserManaged(v) = IsUserManaged(w)
         /\ ~SkipListeners(v) => ~SkipListeners(w)
         /\ Upto(R, w, v) => GetServiceHash(v) = GetServiceHash(w)
<1>1. v.spec \in Spec /\ w.spec \in Spec /\ <<v.spec, w.spec>> \in R
  BY ObjectFields DEF Upto
<1>2. /\ v.spec.id = w.spec.id /\ (v.spec.override => w.spec.override)
      /\ <<w.spec, v.spec>> \in R => v.spec = w.spec
      /\ v.spec.type = "none" => w.spec.type = "none"
  BY <1>1 DEF Forward, Onwards
<1>3. v.deleting \in BOOLEAN /\ w.deleting \in BOOLEAN
  BY ObjectFields
<1>4. ASSUME Upto(R, w, v) PROVE GetServiceHash(v) = GetServiceHash(w)
  BY <1>2, <1>3, <1>4 DEF Upto, GetServiceHash
<1>. QED BY <1>2, <1>4 DEF Upto, Off, NeedDeleteLoadBalancer, IsUserManaged, SkipListeners

\* What equal hashes have in common.
LEMMA SameHash ==
  ASSUME NEW v, NEW w, GetServiceHash(v) = GetServiceHash(w)
  PROVE  /\ v.spec = w.spec /\ v.deleting = w.deleting
         /\ Off(v) = Off(w) /\ NeedNLB(v) = NeedNLB(w)
         /\ IsUserManaged(v) = IsUserManaged(w)
         /\ SkipListeners(v) = SkipListeners(w) /\ LocalPorts(v) = LocalPorts(w)
<1>1. v.spec = w.spec /\ v.deleting = w.deleting
  BY DEF GetServiceHash
<1>. QED BY <1>1 DEF Off, NeedDeleteLoadBalancer, NeedNLB, IsUserManaged, SkipListeners,
     LocalPorts

\* Every version of s is followed by the one of the API server.
LEMMA ApiLast ==
  ASSUME NEW R, Preorder(R), IInv, Fresh, Chain(R), NEW s \in Service,
         NEW v \in Versions(s)
  PROVE  Upto(R, v, api[s])
<1>0. /\ api[s] \in Object /\ cache[s] \in Object /\ watch[s] \in Seq(Object)
      /\ v \in Object
  BY VersionsType DEF IInv, TypeOK
<1>1. Upto(R, cache[s], api[s]) /\ Upto(R, api[s], api[s])
  BY <1>0, ObjFirst, UptoOrder
<1>2. CASE v \in {api[s], cache[s]}
  BY <1>1, <1>2
<1>3. ASSUME NEW i \in DOMAIN watch[s], v = watch[s][i] PROVE Upto(R, v, api[s])
  <2>1. Len(watch[s]) \in DOMAIN watch[s] /\ i <= Len(watch[s]) /\ watch[s] # << >>
    BY <1>0, <1>3
  <2>2. watch[s][Len(watch[s])] = api[s]
    BY <2>1 DEF Fresh, Last
  <2>. QED BY <1>3, <2>1, <2>2 DEF Chain, Ordered
<1>4. CASE pc[s] # "idle" /\ v = ctx[s].obj
  <2>1. Upto(R, v, cache[s])
    BY <1>4 DEF Chain, obj
  <2>. QED BY <1>0, <1>1, <2>1, UptoOrder
<1>. QED BY <1>2, <1>3, <1>4 DEF Versions

\* A pass that takes the load balancer down knows what all versions say.
LEMMA AllOff ==
  ASSUME NEW CONSTANT R, Rules(R), IInv, RestInv(R), NEW s \in Service,
         pc[s] # "idle", Off(obj(s)), NEW v \in Versions(s)
  PROVE  Off(v)
<1>1. Upto(R, obj(s), v)
  BY ObjFirst DEF Rules, Forward, Onwards, RestInv, DangInv, VersionInv
<1>2. v \in Object /\ obj(s) \in Object
  BY VersionsType DEF IInv, PassesOK, PassAt, obj
<1>. QED BY <1>1, <1>2, ForwardFacts DEF Rules

\* A version with its own label is the one a pass works on.
LEMMA LabelledObj ==
  ASSUME NEW CONSTANT R, Rules(R), IInv, RestInv(R), NEW s \in Service,
         pc[s] # "idle", NEW v \in Versions(s), Labelled(v)
  PROVE  GetServiceHash(v) = GetServiceHash(obj(s))
<1>1. Upto(R, obj(s), v)
  BY ObjFirst DEF Rules, Forward, Onwards, RestInv, DangInv, VersionInv
<1>2. v \in Object /\ obj(s) \in Object
  BY VersionsType DEF IInv, PassesOK, PassAt, obj
<1>3. v.hash # None /\ v.hash = GetServiceHash(v)
  BY <1>2, ObjectFields, HashAssumption DEF Labelled
<1>4. HashUpto(R, GetServiceHash(v), obj(s))
  BY <1>3 DEF RestInv, DangInv, VersionInv, Labels
<1>5. v.spec = obj(s).spec /\ v.deleting = obj(s).deleting
  BY <1>1, <1>2, <1>4, SameVersion DEF Rules, Forward
<1>. QED BY <1>5 DEF GetServiceHash

\* What is written to the Service, and by whom.
ApiStep(s) ==
  /\ api'[s].exists => api[s].exists
  /\ \/ api'[s].host = api[s].host
     \/ pc[s] = "rmstatus"
     \/ pc[s] = "addstatus" /\ api'[s].host = NewHost(s)
  /\ \/ api'[s].hash = api[s].hash
     \/ pc[s] = "rmlabels"
     \/ pc[s] = "addlabels" /\ api'[s].hash = GetServiceHash(obj(s))

\* The patches of labels and status change what they are for.
LEMMA StatusPatches ==
  ASSUME IInv, NEW s \in Service, StatusStep(s)
  PROVE  ApiStep(s)
<1>0. api[s] \in Object /\ TypeOK
  BY DEF IInv, TypeOK
<1>1. CASE api'[s] = api[s]
  BY <1>1 DEF ApiStep
<1>2. CASE addServiceLabels(s)
  <2>1. PICK x : x = IF IsServiceHashChanged(obj(s)) THEN GetServiceHash(obj(s))
                     ELSE api[s].hash
    OBVIOUS
  <2>2. api' = api \/ Write(s, [api[s] EXCEPT !.hash = x])
    BY <1>2, <2>1 DEF addServiceLabels
  <2>3. pc[s] = "addlabels"
    BY <1>2 DEF addServiceLabels
  <2>4. api'[s] = api[s] \/ api'[s] = [api[s] EXCEPT !.hash = x]
    BY <1>0, <2>2 DEF Write, TypeOK
  <2>5. ASSUME api'[s] = [api[s] EXCEPT !.hash = x]
        PROVE  /\ api'[s].exists = api[s].exists /\ api'[s].host = api[s].host
               /\ api'[s].hash = x
    BY <1>0, <2>5 DEF Object
  <2>. QED BY <1>0, <1>1, <2>1, <2>3, <2>4, <2>5 DEF ApiStep
<1>3. CASE removeServiceLabels(s)
  <2>1. PICK x : x = IF obj(s).hash = None THEN api[s].hash ELSE None
    OBVIOUS
  <2>2. api' = api \/ Write(s, [api[s] EXCEPT !.hash = x])
    BY <1>3, <2>1 DEF removeServiceLabels
  <2>3. pc[s] = "rmlabels"
    BY <1>3 DEF removeServiceLabels
  <2>4. api'[s] = api[s] \/ api'[s] = [api[s] EXCEPT !.hash = x]
    BY <1>0, <2>2 DEF Write, TypeOK
  <2>5. ASSUME api'[s] = [api[s] EXCEPT !.hash = x]
        PROVE  /\ api'[s].exists = api[s].exists /\ api'[s].host = api[s].host
               /\ api'[s].hash = x
    BY <1>0, <2>5 DEF Object
  <2>. QED BY <1>0, <1>1, <2>3, <2>4, <2>5 DEF ApiStep
<1>4. CASE updateServiceStatus(s)
  <2>1. PICK x : x = IF api[s].exists /\ cache[s].host # NewHost(s)
                     THEN NewHost(s) ELSE api[s].host
    OBVIOUS
  <2>2. api' = api \/ Write(s, [api[s] EXCEPT !.host = x])
    BY <1>4, <2>1 DEF updateServiceStatus
  <2>3. pc[s] = "addstatus"
    BY <1>4 DEF updateServiceStatus
  <2>4. api'[s] = api[s] \/ api'[s] = [api[s] EXCEPT !.host = x]
    BY <1>0, <2>2 DEF Write, TypeOK
  <2>5. ASSUME api'[s] = [api[s] EXCEPT !.host = x]
        PROVE  /\ api'[s].exists = api[s].exists /\ api'[s].hash = api[s].hash
               /\ api'[s].host = x
    BY <1>0, <2>5 DEF Object
  <2>. QED BY <1>0, <1>1, <2>1, <2>3, <2>4, <2>5 DEF ApiStep
<1>5. CASE removeServiceStatus(s)
  <2>1. PICK x : x = IF /\ obj(s).host # None /\ api[s].exists
                        /\ cache[s].exists /\ cache[s].host # None
                     THEN None ELSE api[s].host
    OBVIOUS
  <2>2. Write(s, [api[s] EXCEPT !.host = x])
    BY <1>5, <2>1 DEF removeServiceStatus
  <2>3. pc[s] = "rmstatus"
    BY <1>5 DEF removeServiceStatus
  <2>4. api'[s] = [api[s] EXCEPT !.host = x]
    BY <1>0, <2>2 DEF Write, TypeOK
  <2>5. api'[s].exists = api[s].exists /\ api'[s].hash = api[s].hash
    BY <1>0, <2>4 DEF Object
  <2>. QED BY <1>0, <2>3, <2>4, <2>5 DEF ApiStep
<1>. QED BY <1>2, <1>3, <1>4, <1>5 DEF StatusStep

\* So do the user's edits and the patches of the finalizer.
LEMMA ObjectPatches ==
  ASSUME IInv, Fresh, NEW s \in Service,
         \/ EditService(s) \/ DeleteService(s)
         \/ RemoveFinalizersPatch(s) \/ RemoveFinalizersLost(s)
         \/ AddFinalizersPatch(s)
  PROVE  ApiStep(s)
<1>0. api[s] \in Object /\ TypeOK
  BY DEF IInv, TypeOK
<1>. SUFFICES api'[s].host = api[s].host /\ api'[s].hash = api[s].hash
              /\ (api'[s].exists => api[s].exists)
  BY DEF ApiStep
<1>1. ASSUME NEW o, Write(s, o) PROVE api'[s] = o
  BY <1>0, <1>1 DEF Write, TypeOK
<1>2. CASE EditService(s)
  <2>1. PICK sp : Write(s, [api[s] EXCEPT !.spec = sp])
    BY <1>2 DEF EditService
  <2>2. api'[s] = [api[s] EXCEPT !.spec = sp]
    BY <1>1, <2>1
  <2>. QED BY <1>0, <2>2 DEF Object
<1>3. CASE DeleteService(s)
  <2>1. \/ Write(s, [api[s] EXCEPT !.deleting = TRUE])
        \/ Write(s, [api[s] EXCEPT !.exists = FALSE])
    BY <1>3 DEF DeleteService
  <2>2. \/ api'[s] = [api[s] EXCEPT !.deleting = TRUE]
        \/ api'[s] = [api[s] EXCEPT !.exists = FALSE]
    BY <1>1, <2>1
  <2>. QED BY <1>0, <2>2 DEF Object
<1>4. CASE RemoveFinalizersPatch(s) \/ RemoveFinalizersLost(s)
  <2>1. PICK y : Write(s, [api[s] EXCEPT !.finalizer = FALSE, !.exists = y])
    BY <1>4 DEF RemoveFinalizersPatch, RemoveFinalizersLost
  <2>2. api[s].exists
    BY <1>4 DEF RemoveFinalizersPatch, RemoveFinalizersLost, Fresh, Last, UpToDate
  <2>3. api'[s] = [api[s] EXCEPT !.finalizer = FALSE, !.exists = y]
    BY <1>1, <2>1
  <2>. QED BY <1>0, <2>2, <2>3 DEF Object
<1>5. CASE AddFinalizersPatch(s)
  <2>1. Write(s, [api[s] EXCEPT !.finalizer = TRUE])
    BY <1>5 DEF AddFinalizersPatch
  <2>2. api'[s] = [api[s] EXCEPT !.finalizer = TRUE]
    BY <1>1, <2>1
  <2>. QED BY <1>0, <2>2 DEF Object
<1>. QED BY <1>2, <1>3, <1>4, <1>5

\* No other step writes to the Service.
LEMMA ApiMoves ==
  ASSUME IInv, Fresh, [Next]_vars, NEW s \in Service
  PROVE  ApiStep(s)
<1>1. ASSUME api'[s] = api[s] PROVE ApiStep(s)
  BY <1>1 DEF ApiStep
<1>2. CASE Untouched(s) \/ Restart \/ ServiceEvent(s)
  BY <1>1, <1>2 DEF Untouched, Still, Restart, ServiceEvent
<1>3. CASE \/ EditService(s) \/ DeleteService(s) \/ RemoveFinalizersPatch(s)
           \/ RemoveFinalizersLost(s) \/ AddFinalizersPatch(s)
  BY <1>3, ObjectPatches
<1>4. CASE StatusStep(s)
  BY <1>4, StatusPatches
<1>5. CASE \/ ReconcileSkip(s) \/ ReconcileStart(s) \/ AddFinalizersHas(s)
           \/ AddFinalizersError(s) \/ RemoveFinalizersHasNot(s)
           \/ RemoveFinalizersError(s) \/ CallFails(s) \/ CreateNLBLost(s)
           \/ \E p \in Port : CreateNLBServerGroupLost(s, p)
  BY <1>1, <1>5 DEF ReconcileSkip, ReconcileStart, AddFinalizersHas,
     AddFinalizersError, RemoveFinalizersHasNot, RemoveFinalizersError, CallFails,
     CreateNLBLost, CreateNLBServerGroupLost
<1>9. CASE Unwaited(s)
  BY <1>1, <1>9, UnwaitedPass DEF kube
<1>6. CASE LoadBalancerStep(s)
  BY <1>1, <1>6 DEF LoadBalancerStep, FindNLB, FindNLBGone, DeleteNLBSkip, DeleteNLB,
     CreateNLB, CreateNLBRefused, UpdateNLB, UpdateNLBRefused, TagNLBResource
<1>7. CASE GroupStep(s)
  BY <1>1, <1>7 DEF GroupStep, ListNLBServerGroups, VGroupsApplied, UpdateServerGroup,
     CreateNLBServerGroup, TagServerGroup, BatchAddServers, DeleteServerGroup,
     CleanupDone
<1>8. CASE ListenerStep(s)
  BY <1>1, <1>8 DEF ListenerStep, ListNLBListeners, ListenersDeleted, ListenersApplied,
     DeleteNLBListener, UpdateOrCreateNLBListener
<1>. QED BY <1>2, <1>3, <1>4, <1>5, <1>6, <1>7, <1>8, <1>9, Bystander
     DEF Mine, Worker, Faulty, FinalizerStep, Unwaited
-----------------------------------------------------------------------------
(***************************************************************************)
(* The load balancers and the listeners of s stay.                         *)
(***************************************************************************)
\* Only these steps end a load balancer.
LEMMA Dies ==
  ASSUME IInv, [Next]_vars, NEW l \in LB, nlb[l].live, ~nlb'[l].live
  PROVE  \/ \E s \in Service : DeleteNLB(s) /\ ctx[s].lb = l
         \/ ConsoleDeleteNLB(l) \/ NLBJobEnds(l)
<1>0. nlb \in [LB -> Nlb]
  BY DEF IInv, TypeOK
<1>1. ASSUME NEW s \in Service, CreateNLB(s) \/ CreateNLBLost(s) PROVE FALSE
  <2>1. PICK k \in LB : NewNLB(s, k)
    BY <1>1 DEF CreateNLB, CreateNLBLost
  <2>. QED BY <1>0, <2>1 DEF NewNLB
<1>2. ASSUME NEW s \in Service, TagNLBResource(s) PROVE FALSE
  <2>1. nlb' = [nlb EXCEPT ![ctx[s].lb].tag = s]
    BY <1>2 DEF TagNLBResource
  <2>. QED BY <1>0, <2>1 DEF Nlb
<1>3. ASSUME NEW s \in Service, UpdateNLB(s) PROVE FALSE
  <2>1. PICK n : nlb' = [nlb EXCEPT ![ctx[s].lb].name = n]
    BY <1>3 DEF UpdateNLB
  <2>. QED BY <1>0, <2>1 DEF Nlb
<1>4. ASSUME NEW s \in Service, DeleteNLB(s) PROVE ctx[s].lb = l
  <2>1. \E n : nlb' = [nlb EXCEPT ![ctx[s].lb] = n]
    BY <1>4 DEF DeleteNLB
  <2>. QED BY <1>0, <2>1
<1>5. ASSUME NEW k \in LB, ConsoleDeleteNLB(k) PROVE k = l
  <2>1. \E n : nlb' = [nlb EXCEPT ![k] = n]
    BY <1>5 DEF ConsoleDeleteNLB
  <2>. QED BY <1>0, <2>1
<1>6. ASSUME NEW k \in LB, NLBJobEnds(k) PROVE k = l
  <2>1. \E n : nlb' = [nlb EXCEPT ![k] = n]
    BY <1>6 DEF NLBJobEnds
  <2>. QED BY <1>0, <2>1
<1>7. ASSUME NEW s \in Service, DeleteNLBUnfinished(s) PROVE FALSE
  <2>1. nlb' = [nlb EXCEPT ![ctx[s].lb].going = TRUE]
    BY <1>7 DEF DeleteNLBUnfinished
  <2>. QED BY <1>0, <2>1 DEF Nlb
<1>. QED BY <1>1, <1>2, <1>3, <1>4, <1>5, <1>6, <1>7, LBCalls DEF LBCall

\* A load balancer of s was its own before, or has just been made for it.
LEMMA OwnBack ==
  ASSUME IInv, IInv', [Next]_vars, NEW s \in Service, NEW l \in LB, nlb'[l].by = s
  PROVE  nlb[l].by = s \/ (Made(s, l) /\ nlb'[l].live /\ ~nlb'[l].going)
<1>0. s # None /\ s # User
  BY ConstantsAssumption, UserAssumption
<1>1. l \notin UserLB
  BY <1>0 DEF IInv, UserNLBUnmarked
<1>2. ASSUME nlb'[l] # nlb[l] PROVE LBStep(l)
  BY <1>2, LBMoves DEF LBStep
<1>3. ASSUME NEW r \in Service, Made(r, l)
      PROVE  r = s /\ nlb'[l].live /\ ~nlb'[l].going
  BY <1>3 DEF Made
<1>4. ASSUME NEW r \in Service, Tagged(r, l) \/ Renamed(r, l) \/ Leaves(r, l)
      PROVE  nlb[l].by = s
  BY <1>4 DEF Tagged, Renamed, Leaves
<1>5. ASSUME Gone(l) PROVE nlb[l].by = s
  BY <1>1, <1>5 DEF Gone
<1>. QED BY <1>2, <1>3, <1>4, <1>5 DEF LBStep

\* A dead load balancer never lives again, unless it is made.
LEMMA StaysDead ==
  ASSUME IInv, [Next]_vars, NEW l \in LB, ~nlb[l].live, nlb'[l].live
  PROVE  l \notin UserLB /\ nlb[l].by = None
<1>1. LBStep(l)
  BY LBMoves DEF LBStep
<1>2. \E s \in Service : Made(s, l)
  BY <1>1 DEF LBStep, Gone, Tagged, Renamed, Leaves
<1>. QED BY <1>2 DEF Made, FreeLB

\* The versions of s stay once they exist.
LEMMA ExistsStep ==
  ASSUME IInv, Fresh, SyncInv, [Next]_vars, NEW s \in Service
  PROVE  Exists(s)'
<1>1. VersionStep(s) /\ ApiStep(s)
  BY VersionMoves, ApiMoves
<1>2. \A v \in Versions(s)' : v \in Versions(s) \/ v = api'[s]
  BY <1>1, NewVersions
<1>3. Exists(s) /\ (api'[s].exists => api[s].exists)
  BY <1>1 DEF SyncInv, ApiStep
<1>. QED BY <1>2, <1>3 DEF Exists

\* A version that wants its load balancer comes after one that did.
LEMMA WantedBack ==
  ASSUME NEW CONSTANT R, Rules(R), IInv, IInv', RestInv(R), [Next]_vars,
         NEW s \in Service, NEW v \in Versions(s)', ~Off(v)
  PROVE  \E w \in Versions(s) : ~Off(w) /\ w \in Object /\ Upto(R, w, v)
<1>1. PICK w \in Versions(s) : Upto(R, w, v)
  BY VersionsBack DEF Rules, Forward, Onwards, RestInv, DangInv
<1>2. v \in Versions(s) \/ v = api'[s]
  BY VersionsBack DEF Rules, Forward, Onwards, RestInv, DangInv
<1>3. w \in Object /\ v \in Object
  BY <1>2, VersionsType DEF IInv, TypeOK
<1>. QED BY <1>1, <1>3, ForwardFacts DEF Rules

\* The load balancer of s lives on.
LEMMA AliveStep ==
  ASSUME NEW CONSTANT R, Rules(R), IInv, IInv', RestInv(R), [Next]_vars,
         NEW s \in Service
  PROVE  Alive(s)'
<1>. SUFFICES ASSUME NEW l \in LB, nlb'[l].by = s, NEW v \in Versions(s)', ~Off(v)
              PROVE  nlb'[l].live /\ ~nlb'[l].going
  BY DEF Alive
<1>0. s # None /\ s # User
  BY ConstantsAssumption, UserAssumption
<1>1. PICK w \in Versions(s) : ~Off(w)
  BY WantedBack
<1>2. CASE nlb[l].by = s
  <2>1. nlb[l].live /\ ~nlb[l].going
    BY <1>1, <1>2 DEF RestInv, SyncInv, Alive
  <2>2. ASSUME NEW r \in Service, CanDeleteNLB(r), ctx[r].lb = l PROVE FALSE
    <3>1. pc[r] = "lbattr" /\ Off(obj(r)) /\ ~IsUserManaged(obj(r)) /\ ctx[r].lb # None
      BY <2>2 DEF CanDeleteNLB, SkipDelete, Off
    <3>2. nlb[l].by = r
      BY <2>2, <3>1 DEF RestInv, DangInv, FindInv, Finds, WorksOn, Found, PC, obj
    <3>3. r = s /\ pc[s] # "idle" /\ Off(obj(s))
      BY <1>2, <3>1, <3>2
    <3>. QED BY <1>1, <3>3, AllOff
  <2>3. ASSUME ConsoleDeleteNLB(l) PROVE FALSE
    <3>1. l \in UserLB
      BY <2>3 DEF ConsoleDeleteNLB, Rules, OwnStay
    <3>. QED BY <1>0, <1>2, <3>1 DEF IInv, UserNLBUnmarked
  <2>4. nlb'[l].live
    BY <2>1, <2>2, <2>3, Dies DEF DeleteNLB, NLBJobEnds
  <2>5. ASSUME nlb'[l].going PROVE FALSE
    <3>1. LBStep(l)
      BY <2>1, <2>5, LBMoves DEF LBStep
    <3>2. ASSUME NEW r \in Service, Made(r, l) PROVE FALSE
      BY <2>5, <3>2 DEF Made
    <3>3. ASSUME NEW r \in Service, Tagged(r, l) \/ Renamed(r, l) PROVE FALSE
      BY <2>1, <2>5, <3>3 DEF Tagged, Renamed
    <3>. QED BY <2>2, <2>5, <3>1, <3>2, <3>3 DEF LBStep, Gone, Leaves
  <2>. QED BY <2>4, <2>5
<1>. QED BY <1>2, OwnBack

\* While a version wants it, the load balancer of s is found.
LEMMA OwnFound ==
  ASSUME NEW CONSTANT R, RestInv(R), NEW s \in Service, NEW l \in LB, nlb[l].by = s,
         NEW v \in Versions(s), ~Off(v)
  PROVE  nlb[l].live /\ ~nlb[l].going /\ Findable(s, l)
<1>1. nlb[l].live /\ ~nlb[l].going /\ nlb[l].name = s
  BY DEF RestInv, SyncInv, Alive, DangInv, OwnNamed
<1>. QED BY <1>1 DEF Findable

\* None is made for a Service whose label says that it has one.
LEMMA NoneMade ==
  ASSUME NEW CONSTANT R, IInv, RestInv(R), NEW s \in Service, NEW v \in Versions(s),
         Labelled(v), ~IsUserManaged(v), NEW l \in LB
  PROVE  ~Made(s, l)
<1>. SUFFICES ASSUME CanCreateNLB(s) PROVE FALSE
  BY DEF Made
<1>1. PICK k \in LB : nlb[k].by = s
  BY DEF RestInv, SyncInv, Tells
<1>2. Findable(s, k)
  BY <1>1, OwnFound DEF Labelled
<1>. QED BY <1>2, CreatesFirst DEF RestInv, DangInv

\* A pass of another Service leaves the listeners of s alone.
LEMMA OwnsStays ==
  ASSUME NEW CONSTANT R, Rules(R), IInv, RestInv(R), [Next]_vars,
         NEW s \in Service, NEW l \in LB, NEW p \in Port, Owns(s, l, p),
         nlb'[l].live, ~nlb'[l].going, ~(pc[s] = "dellis" /\ p \in ctx[s].todo)
  PROVE  Owns(s, l, p)'
<1>. SUFFICES ASSUME lis'[l][p] # lis[l][p] PROVE Owns(s, l, p)'
  BY DEF Owns, HasLis, Going
<1>0. s # None /\ l # None
  BY ConstantsAssumption
<1>5. ASSUME NEW k \in LB, NEW q \in Port PROVE ~ListenerJobEnds(k, q)
  <2>. SUFFICES ASSUME ListenerJobEnds(k, q) PROVE FALSE
    OBVIOUS
  <2>0. lis \in [LB -> [Port -> Listener \cup {None}]]
    BY DEF IInv, TypeOK
  <2>1. lis' = [lis EXCEPT ![k][q] = None] /\ lis[k][q].going
    BY DEF ListenerJobEnds
  <2>2. ~lis[l][p].going
    BY DEF Owns, Going
  <2>3. CASE k # l
    BY <2>0, <2>1, <2>3
  <2>4. CASE k = l
    BY <2>0, <2>1, <2>2, <2>4
  <2>. QED BY <2>3, <2>4
<1>1. PICK r \in Service, q \in Port : Touched(r, q)
  BY <1>5, ListenerMoves DEF Wiped
<1>2. l = ctx[r].lb /\ q = p /\ pc[r] \in {"dellis", "putlis"} /\ p \in ctx[r].todo
  BY <1>1 DEF Touched
<1>3. CASE r = s
  <2>1. lis'[l][p] = Desired(s, p) /\ p \in ctx[s].todo /\ CanPutListener(s, p)
        /\ pc[s] = "putlis"
    BY <1>1, <1>2, <1>3 DEF Touched
  <2>2. ctx[s].bind[p] \in Group
    BY <2>1, PutsWell DEF RestInv, DangInv
  <2>3. /\ Desired(s, p).by = s /\ ~Desired(s, p).going
        /\ Desired(s, p) \in Listener
    BY <2>2 DEF Desired, Listener
  <2>4. None # Desired(s, p)
    BY <2>3, ListenerAssumption
  <2>. QED BY <2>1, <2>3, <2>4 DEF Owns, HasLis, Going
<1>4. CASE r # s
  <2>1. WorksOn(r, pc[r], ctx[r]) /\ obj(r) \in Versions(r)
    BY <1>2 DEF RestInv, DangInv, FindInv, Finds, Versions, obj
  <2>2. CASE IsUserManaged(obj(r))
    <3>1. l = obj(r).spec.id /\ obj(r).spec \in UsedSpec
      BY <1>2, <2>1, <2>2 DEF WorksOn, Found, Removing, PC, obj, RestInv, DangInv,
         VersionInv, SpecsUsed
    <3>2. l \in UserLB
      BY <1>0, <3>1 DEF Rules, ReusesUsers
    <3>3. CASE pc[r] = "dellis"
      BY <1>2, <1>4, <3>2, <3>3 DEF RestInv, ShareInv, Deletes, Owns, HasLis
    <3>4. CASE pc[r] = "putlis"
      <4>1. p \in PortsOn(r, l)
        BY <1>2, <3>2, <3>4, PutsOwnPort DEF RestInv, DangInv
      <4>2. p \in PortsOn(s, l)
        BY <3>2 DEF RestInv, ShareInv, Owns
      <4>. QED BY <1>4, <3>2, <4>1, <4>2 DEF Rules, PortsApart
    <3>. QED BY <1>2, <3>3, <3>4
  <2>3. CASE ~IsUserManaged(obj(r))
    <3>1. nlb[l].by = r
      BY <1>0, <1>2, <2>1, <2>3 DEF WorksOn, Found, PC, obj
    <3>2. LeadsTo(s, l) /\ api[s] \in Versions(s)
      BY DEF RestInv, DangInv, ListenInv, Versions
    <3>3. CASE IsUserManaged(api[s])
      <4>1. l = api[s].spec.id /\ api[s].spec \in UsedSpec
        BY <3>2, <3>3 DEF LeadsTo, RestInv, DangInv, VersionInv, SpecsUsed
      <4>2. l \in UserLB
        BY <1>0, <4>1 DEF Rules, ReusesUsers
      <4>. QED BY <3>1, <4>2, ConstantsAssumption, UserAssumption DEF IInv, UserNLBUnmarked
    <3>4. CASE ~IsUserManaged(api[s])
      <4>1. Findable(s, l)
        BY <3>2, <3>4 DEF LeadsTo
      <4>2. nlb[l].by = s
        BY <4>1 DEF Findable, RestInv, DangInv, FindInv, Marked
      <4>. QED BY <1>4, <3>1, <4>2
    <3>. QED BY <3>3, <3>4
  <2>. QED BY <2>2, <2>3
<1>. QED BY <1>3, <1>4

\* So s keeps listening.
LEMMA ListensStay ==
  ASSUME NEW CONSTANT R, Rules(R), IInv, IInv', RestInv(R), [Next]_vars,
         NEW s \in Service, NEW o, NEW ps \in SUBSET Port, Listens(s, o, ps),
         o.spec \in UsedSpec, ~IsUserManaged(o) => \A l \in LB : ~Made(s, l),
         pc[s] = "dellis" => ps \cap ctx[s].todo = {}
  PROVE  Listens(s, o, ps)'
<1>0. s # None
  BY ConstantsAssumption
<1>. SUFFICES ASSUME NEW l \in LB, NEW p \in ps, Target(s, o, l)', nlb'[l].live,
                     ~nlb'[l].going
              PROVE  Owns(s, l, p)'
  BY DEF Listens
<1>1. Target(s, o, l)
  BY OwnBack DEF Target
<1>2. nlb[l].live
  <2>. SUFFICES ASSUME ~nlb[l].live PROVE FALSE
    OBVIOUS
  <2>1. l \notin UserLB /\ nlb[l].by = None
    BY StaysDead
  <2>. QED BY <1>0, <1>1, <2>1, ConstantsAssumption
       DEF Target, IsUserManaged, Rules, ReusesUsers
<1>4. ~nlb[l].going
  BY GoingStays DEF RestInv, DangInv
<1>3. Owns(s, l, p) /\ p \in Port
  BY <1>1, <1>2, <1>4 DEF Listens
<1>. QED BY <1>3, OwnsStays
-----------------------------------------------------------------------------
(***************************************************************************)
(* What the label and the status of a version tell stays true.             *)
(***************************************************************************)
\* A label is that of an earlier version, or the pass has just written it.
LEMMA LabelBack ==
  ASSUME NEW CONSTANT R, Rules(R), IInv, IInv', RestInv(R), [Next]_vars,
         NEW s \in Service, NEW v \in Versions(s)', Labelled(v)
  PROVE  \E w \in Versions(s) :
           /\ GetServiceHash(w) = GetServiceHash(v)
           /\ Labelled(w) \/ (pc[s] = "addlabels" /\ w = obj(s))
<1>. USE DEF RestInv, DangInv, VersionInv
<1>0. Preorder(R) /\ Onwards(R)
  BY DEF Rules, Forward, Onwards
<1>1. /\ VersionStep(s) /\ ApiStep(s) /\ api[s] \in Versions(s)
      /\ api[s] \in Object /\ api'[s] \in Object /\ cache[s] \in Object
  BY VersionMoves, ApiMoves DEF IInv, TypeOK, Versions
<1>2. v \in Versions(s) \/ (v = api'[s] /\ (Wrote(s) \/ Finalized(s)))
  BY <1>1, NewVersions
<1>3. v \in Object /\ v.hash # None /\ v.hash = GetServiceHash(v) /\ ~Off(v)
  BY <1>1, <1>2, VersionsType, ObjectFields, HashAssumption DEF Labelled
<1>4. CASE v = api'[s] /\ (Wrote(s) \/ Finalized(s)) /\ v.hash = api[s].hash
  <2>1. HashUpto(R, GetServiceHash(v), cache[s])
    BY <1>1, <1>3, <1>4 DEF Labels
  <2>2. Upto(R, cache[s], api[s]) /\ Upto(R, api[s], v)
    BY <1>0, <1>1, <1>4, ObjFirst, WriteFollows
  <2>3. HashUpto(R, GetServiceHash(v), api[s])
    BY <1>0, <1>1, <1>3, <2>1, <2>2, UptoOrder, ObjectFields
  <2>4. v.spec = api[s].spec /\ v.deleting = api[s].deleting
    BY <1>0, <1>1, <1>3, <2>2, <2>3, SameVersion
  <2>5. GetServiceHash(api[s]) = GetServiceHash(v)
    BY <2>4 DEF GetServiceHash
  <2>6. Labelled(api[s])
    BY <1>3, <1>4, <2>5, SameHash DEF Labelled
  <2>. QED BY <1>1, <2>5, <2>6
<1>5. CASE v = api'[s] /\ pc[s] = "addlabels" /\ v.hash = GetServiceHash(obj(s))
  <2>1. obj(s) \in Versions(s)
    BY <1>5 DEF Versions, obj
  <2>. QED BY <1>3, <1>5, <2>1
<1>. QED BY <1>2, <1>3, <1>4, <1>5 DEF Labelled, Wrote, Finalized

\* The label of the API server is not older than that of any version.
LEMMA LabelStays ==
  ASSUME NEW CONSTANT R, Rules(R), IInv, IInv', RestInv(R), [Next]_vars,
         NEW s \in Service, NEW v \in Versions(s)', Labelled(v),
         GetServiceHash(api'[s]) = GetServiceHash(v)
  PROVE  api'[s].hash = v.hash
<1>. USE DEF RestInv, DangInv, VersionInv
<1>0. Preorder(R) /\ Forward(R)
  BY DEF Rules, Forward, Onwards
<1>1. /\ VersionStep(s) /\ ApiStep(s) /\ api[s] \in Versions(s)
      /\ api[s] \in Object /\ api'[s] \in Object
  BY VersionMoves, ApiMoves DEF IInv, TypeOK, Versions
<1>2. v \in Versions(s) \/ v = api'[s]
  BY <1>1, NewVersions
<1>3. CASE v \in Versions(s)
  <2>1. Upto(R, v, api[s]) /\ v \in Object
    BY <1>0, <1>3, ApiLast, VersionsType
  <2>2. Upto(R, api[s], api'[s])
    <3>1. api'[s] = api[s] \/ Wrote(s) \/ Finalized(s)
      BY <1>1 DEF VersionStep, Untouched, Still, Heard, Relisted, Works
    <3>. QED BY <1>0, <1>1, <3>1, WriteFollows, UptoOrder
  <2>3. Upto(R, api[s], v)
    BY <2>2, SameHash DEF Upto
  <2>4. GetServiceHash(api[s]) = GetServiceHash(v)
    BY <1>0, <1>1, <2>1, <2>3, ForwardFacts
  <2>5. api[s].hash = v.hash
    BY <1>3, <2>4 DEF SyncInv, Tells
  <2>6. CASE api'[s].hash = api[s].hash
    BY <2>5, <2>6
  <2>7. CASE pc[s] = "rmlabels"
    <3>1. Off(obj(s))
      BY <2>7 DEF SyncInv, Ways, Removing
    <3>2. Off(v)
      BY <1>3, <2>7, <3>1, AllOff
    <3>. QED BY <3>2 DEF Labelled
  <2>8. CASE pc[s] = "addlabels" /\ api'[s].hash = GetServiceHash(obj(s))
    <3>1. GetServiceHash(v) = GetServiceHash(obj(s))
      BY <1>3, <2>8, LabelledObj
    <3>. QED BY <2>8, <3>1 DEF Labelled
  <2>. QED BY <1>1, <2>6, <2>7, <2>8 DEF ApiStep
<1>. QED BY <1>2, <1>3

\* Where a pass that is done with the listeners leaves them.
LEMMA PassLB ==
  ASSUME NEW CONSTANT R, IInv, RestInv(R), NEW s \in Service,
         pc[s] \in Found \ ({"lbattr"} \cup Removing), ~Off(obj(s))
  PROVE  /\ ctx[s].lb \in LB /\ ctx[s].lb # None
         /\ IsUserManaged(obj(s)) => ctx[s].lb = obj(s).spec.id
         /\ ~IsUserManaged(obj(s)) => nlb[ctx[s].lb].by = s
<1>1. ctx[s].lb # None
  BY DEF RestInv, SyncInv, HasDone, Placed, obj
<1>2. ctx[s].lb \in LB
  BY <1>1, CtxFields DEF IInv, TypeOK
<1>3. WorksOn(s, pc[s], ctx[s])
  BY DEF RestInv, DangInv, FindInv, Finds
<1>. QED BY <1>1, <1>2, <1>3 DEF WorksOn, obj

\* What a label tells stays true.
LEMMA TellsStep ==
  ASSUME NEW CONSTANT R, Rules(R), IInv, IInv', RestInv(R), [Next]_vars,
         NEW s \in Service, NEW v \in Versions(s)', Labelled(v)
  PROVE  Tells(s, v)'
<1>1. PICK w \in Versions(s) :
        /\ GetServiceHash(w) = GetServiceHash(v)
        /\ Labelled(w) \/ (pc[s] = "addlabels" /\ w = obj(s))
  BY LabelBack
<1>2. /\ w.spec = v.spec /\ IsUserManaged(w) = IsUserManaged(v) /\ ~Off(w)
      /\ SkipListeners(w) = SkipListeners(v) /\ LocalPorts(w) = v.spec.ports
      /\ w.spec \in UsedSpec /\ v.spec.ports \subseteq Port
  <2>1. ~Off(v) /\ ~Off(w) /\ w.spec = v.spec
    BY <1>1, SameHash DEF Labelled
  <2>2. w \in Object /\ LocalPorts(w) \subseteq Port
    BY VersionsType, ObjectFields
  <2>. QED BY <1>1, <2>1, <2>2, SameHash
       DEF LocalPorts, Off, RestInv, DangInv, VersionInv, SpecsUsed
<1>3. GetServiceHash(api'[s]) = GetServiceHash(v) => api'[s].hash = v.hash
  BY LabelStays
<1>4. ASSUME ~IsUserManaged(v) PROVE \E l \in LB : nlb'[l].by = s
  <2>1. CASE Labelled(w)
    <3>1. PICK l \in LB : nlb[l].by = s
      BY <1>2, <1>4, <2>1 DEF RestInv, SyncInv, Tells
    <3>. QED BY <3>1, OwnerStays
  <2>2. CASE pc[s] = "addlabels" /\ w = obj(s)
    <3>1. ctx[s].lb \in LB /\ nlb[ctx[s].lb].by = s
      BY <1>2, <1>4, <2>2, PassLB DEF Found, Removing, PC
    <3>. QED BY <3>1, OwnerStays
  <2>. QED BY <1>1, <2>1, <2>2
<1>5. ASSUME ~SkipListeners(v) PROVE Listens(s, v, v.spec.ports)'
  <2>1. Listens(s, w, v.spec.ports)
    <3>1. CASE Labelled(w)
      BY <1>2, <1>5, <3>1 DEF RestInv, SyncInv, Tells
    <3>2. CASE pc[s] = "addlabels" /\ w = obj(s)
      BY <1>2, <1>5, <3>2 DEF RestInv, SyncInv, HasDone, Listening, obj
    <3>. QED BY <1>1, <3>1, <3>2
  <2>2. ASSUME ~IsUserManaged(w), NEW l \in LB PROVE ~Made(s, l)
    <3>1. CASE Labelled(w)
      BY <2>2, <3>1, NoneMade
    <3>2. CASE pc[s] = "addlabels"
      BY <3>2 DEF Made, CanCreateNLB
    <3>. QED BY <1>1, <3>1, <3>2
  <2>3. ASSUME pc[s] = "dellis" PROVE v.spec.ports \cap ctx[s].todo = {}
    <3>1. Labelled(w) /\ GetServiceHash(w) = GetServiceHash(obj(s))
      BY <1>1, <2>3, LabelledObj
    <3>2. LocalPorts(obj(s)) = v.spec.ports
      BY <1>2, <3>1, SameHash
    <3>. QED BY <2>3, <3>2 DEF RestInv, ShareInv, Deletes, obj
  <2>4. Listens(s, w, v.spec.ports)'
    BY <1>2, <2>1, <2>2, <2>3, ListensStay
  <2>. QED BY <1>2, <2>4 DEF Listens, Target, IsUserManaged
<1>. QED BY <1>3, <1>4, <1>5 DEF Tells

\* The load balancer a status names is still the right one.
LEMMA TargetStays ==
  ASSUME NEW CONSTANT R, Forward(R), IInv, [Next]_vars, NEW s \in Service,
         NEW l \in LB, NEW v \in Object, NEW w \in Object, Upto(R, v, w), Target(s, v, l)
  PROVE  Target(s, w, l)'
<1>1. v.spec.id = w.spec.id /\ IsUserManaged(v) = IsUserManaged(w)
  BY ForwardFacts
<1>. QED BY <1>1, OwnerStays DEF Target

\* So the status still names the load balancer of s.
LEMMA HostsStep ==
  ASSUME NEW CONSTANT R, Rules(R), IInv, IInv', RestInv(R), [Next]_vars,
         NEW s \in Service
  PROVE  Hosts(s)'
<1>. USE DEF RestInv, DangInv, VersionInv
<1>. SUFFICES ASSUME ~Off(api'[s]), NEW v \in Versions(s)', v.host # None
              PROVE  api'[s].host # None /\ v.host \in LB /\ Target(s, v, v.host)'
  BY DEF Hosts
<1>0. Preorder(R) /\ Forward(R)
  BY DEF Rules, Forward, Onwards
<1>1. /\ VersionStep(s) /\ ApiStep(s) /\ api[s] \in Versions(s)
      /\ api[s] \in Object /\ api'[s] \in Object
  BY VersionMoves, ApiMoves DEF IInv, TypeOK, Versions
<1>2. v \in Versions(s) \/ v = api'[s]
  BY <1>1, NewVersions
<1>3. Upto(R, api[s], api'[s])
  <2>1. api'[s] = api[s] \/ Wrote(s) \/ Finalized(s)
    BY <1>1 DEF VersionStep, Untouched, Still, Heard, Relisted, Works
  <2>. QED BY <1>0, <1>1, <2>1, WriteFollows, UptoOrder
<1>4. ~Off(api[s]) /\ Hosts(s)
  BY <1>0, <1>1, <1>3, ForwardFacts DEF SyncInv
<1>5. ASSUME pc[s] # "idle" PROVE ~Off(obj(s)) /\ obj(s) \in Object
  BY <1>1, <1>4, <1>5, AllOff DEF IInv, PassesOK, PassAt, obj
<1>6. CASE v \in Versions(s) /\ api'[s].host = api[s].host
  <2>1. api[s].host # None /\ v.host \in LB /\ Target(s, v, v.host)
    BY <1>4, <1>6 DEF Hosts
  <2>2. v \in Object /\ Upto(R, v, v)
    BY <1>0, <1>6, VersionsType, UptoOrder
  <2>. QED BY <1>0, <1>6, <2>1, <2>2, TargetStays
<1>7. CASE v = api'[s] /\ api'[s].host = api[s].host
  <2>1. api[s].host \in LB /\ Target(s, api[s], api[s].host)
    BY <1>1, <1>4, <1>7 DEF Hosts
  <2>. QED BY <1>0, <1>1, <1>3, <1>7, <2>1, TargetStays
<1>8. CASE pc[s] = "rmstatus"
  BY <1>5, <1>8 DEF SyncInv, Ways, Removing
<1>9. CASE pc[s] = "addstatus" /\ api'[s].host = NewHost(s)
  <2>1. /\ ctx[s].lb \in LB /\ ctx[s].lb # None
        /\ Target(s, obj(s), ctx[s].lb)
    BY <1>5, <1>9, PassLB DEF Found, Removing, PC, Target
  <2>2. api'[s].host = ctx[s].lb
    BY <1>9, <2>1 DEF NewHost
  <2>3. CASE v = api'[s]
    <3>1. Upto(R, obj(s), api[s])
      BY <1>0, <1>1, <1>9, ObjFirst
    <3>2. Upto(R, obj(s), api'[s])
      BY <1>0, <1>1, <1>3, <1>5, <1>9, <3>1, UptoOrder
    <3>. QED BY <1>0, <1>1, <1>5, <1>9, <2>1, <2>2, <2>3, <3>2, TargetStays
  <2>4. CASE v \in Versions(s)
    <3>1. v.host \in LB /\ Target(s, v, v.host)
      BY <1>4, <2>4 DEF Hosts
    <3>2. v \in Object /\ Upto(R, v, v)
      BY <1>0, <2>4, VersionsType, UptoOrder
    <3>. QED BY <1>0, <2>1, <2>2, <3>1, <3>2, TargetStays
  <2>. QED BY <1>2, <2>3, <2>4
<1>. QED BY <1>1, <1>2, <1>6, <1>7, <1>8, <1>9 DEF ApiStep
-----------------------------------------------------------------------------
(***************************************************************************)
(* What a pass has done so far.                                            *)
(***************************************************************************)
\* The groups of s are only changed by its own pass.
LEMMA GroupSame ==
  ASSUME IInv, GroupInv, [Next]_vars, NEW s \in Service, ~GroupWork(s),
         NEW g \in Group, grp[g].tag = s
  PROVE  grp'[g] = grp[g]
<1>0. /\ grp \in [Group -> ServerGroup] /\ s # None /\ None \notin Group
      /\ grp[g].svc = s
  BY ConstantsAssumption DEF IInv, TypeOK, GroupInv, Tags
<1>1. ASSUME NEW h \in Group, NEW e, grp' = [grp EXCEPT ![h] = e], grp[h].svc # s
      PROVE  grp'[g] = grp[g]
  BY <1>0, <1>1
<1>2. ASSUME NEW r \in Service, r # s, NEW p \in Port,
             TagServerGroup(r, p) \/ AddsServers(r, p)
      PROVE  grp'[g] = grp[g]
  <2>5. ASSUME AddsServers(r, p)
        PROVE  pc[r] = "addservers" /\ Filling(r, ctx[r].bind[p])
    BY <2>5, Adding
  <2>1. pc[r] \in {"taggroup", "addservers"} /\ ctx[r].bind[p] # None
    BY <1>0, <1>2, <2>5 DEF TagServerGroup, Filling
  <2>2. PICK h \in Group : h = ctx[r].bind[p]
    BY <2>1, CtxFields DEF IInv, TypeOK
  <2>3. grp[h].svc = r
    BY <2>1, <2>2 DEF GroupInv, GroupsAt, BindsOne, Grouped
  <2>4. \E e : grp' = [grp EXCEPT ![h] = e]
    BY <1>2, <2>2, <2>5 DEF TagServerGroup, Filling
  <2>. QED BY <1>1, <1>2, <2>3, <2>4
<1>3. ASSUME NEW r \in Service, r # s, NEW p \in Port, UpdatesServers(r, p)
      PROVE  grp'[g] = grp[g]
  <2>1. PICK h \in Named(r, p) : Filling(r, h)
    BY <1>3, Updating
  <2>2. h \in Group /\ grp[h].svc = r
    BY <2>1 DEF Named, Filling
  <2>3. \E e : grp' = [grp EXCEPT ![h] = e]
    BY <2>1 DEF Filling
  <2>. QED BY <1>1, <1>3, <2>2, <2>3
<1>4. ASSUME NEW r \in Service, NEW p \in Port,
             CreateNLBServerGroup(r, p) \/ CreateNLBServerGroupLost(r, p)
      PROVE  grp'[g] = grp[g]
  <2>1. PICK h \in Group : FreeGroup(h) /\ NewGroup(r, p, h)
    BY <1>4 DEF CreateNLBServerGroup, CreateNLBServerGroupLost
  <2>. QED BY <1>0, <1>1, <2>1 DEF FreeGroup, NewGroup
<1>5. ASSUME NEW r \in Service, r # s, DeleteServerGroup(r)
      PROVE  grp'[g] = grp[g]
  <2>1. PICK h \in UnusedGroups(r) : grp' = [grp EXCEPT ![h].live = FALSE]
    BY <1>5 DEF DeleteServerGroup
  <2>2. h \in Group /\ grp[h].svc = r
    BY CtxFields DEF IInv, TypeOK, UnusedGroups
  <2>. QED BY <1>1, <1>5, <2>1, <2>2
<1>6. ASSUME NEW r \in Service,
             ListNLBServerGroups(r) \/ VGroupsApplied(r) \/ CleanupDone(r)
      PROVE  UNCHANGED grp
  BY <1>6 DEF ListNLBServerGroups, VGroupsApplied, CleanupDone
<1>7. ASSUME NEW r \in Service, GroupWork(r) PROVE grp'[g] = grp[g]
  BY <1>2, <1>3, <1>4, <1>5, <1>6, <1>7, Unfinishing
     DEF GroupWork, GroupStep, UpdatesServers, AddsServers
<1>. QED BY <1>4, <1>7, GroupCalls

\* So they keep their backends.
LEMMA FilledStays ==
  ASSUME IInv, GroupInv, [Next]_vars, NEW s \in Service, ~GroupWork(s),
         pc[s] # "taggroup", NEW ps, NEW b, Filled(s, ps, b)
  PROVE  Filled(s, ps, b)'
<1>. SUFFICES ASSUME NEW g \in Group, grp'[g].live, grp'[g].tag = s, grp'[g].port \in ps
              PROVE  grp'[g].servers \in {b, Unfinished}
  BY DEF Filled
<1>1. grp[g].live /\ grp[g].tag = s
  BY NewlyTagged
<1>2. grp'[g] = grp[g]
  BY <1>1, GroupSame
<1>. QED BY <1>1, <1>2 DEF Filled

\* The load balancer a pass works on is the one its Service asks for.
LEMMA OnlyLB ==
  ASSUME NEW CONSTANT R, IInv, RestInv(R), NEW s \in Service,
         pc[s] \in Found \ ({"lbattr"} \cup Removing), ~Off(obj(s)),
         NEW l \in LB, Target(s, obj(s), l)
  PROVE  l = ctx[s].lb
<1>1. CASE IsUserManaged(obj(s))
  BY <1>1, PassLB DEF Target
<1>2. CASE ~IsUserManaged(obj(s))
  <2>1. nlb[l].by = s /\ obj(s) \in Versions(s)
    BY <1>2 DEF Target, Versions, Found, obj
  <2>2. Findable(s, l)
    BY <2>1, OwnFound
  <2>3. WorksOn(s, pc[s], ctx[s])
    BY DEF RestInv, DangInv, FindInv, Finds
  <2>. QED BY <1>2, <2>2, <2>3 DEF WorksOn, Leaving, obj
<1>. QED BY <1>1, <1>2

\* A pass goes past the load balancer only with one.
LEMMA PlacedStep ==
  ASSUME NEW CONSTANT R, Rules(R), IInv, RestInv(R), [Next]_vars, NEW s \in Service
  PROVE  Placed(pc[s], ctx[s])'
<1>. SUFFICES ASSUME pc'[s] \in Found \ ({"lbattr"} \cup Removing), ~Off(ctx'[s].obj)
              PROVE  ctx'[s].lb # None
  BY DEF Placed
<1>0. Placed(pc[s], ctx[s]) /\ ctx[s] \in Ctx /\ None \notin LB /\ TypeOK
  BY ConstantsAssumption DEF RestInv, SyncInv, HasDone, IInv, TypeOK
<1>1. CASE pc'[s] = pc[s] /\ ctx'[s] = ctx[s]
  BY <1>0, <1>1 DEF Placed
<1>2. CASE pc'[s] = "idle"
  BY <1>2 DEF Found
<1>3. CASE Begins(s)
  BY <1>0, <1>3, PassAfter DEF Begins, ReconcileStart, AddFinalizersHas,
     AddFinalizersPatch, Found
<1>4. CASE FindNLB(s)
  <2>1. pc[s] = "find" /\ pc'[s] = AfterFind(obj(s))
    BY <1>0, <1>4, PassAfter DEF FindNLB
  <2>2. obj(s) \in Versions(s) /\ obj(s) = ctx'[s].obj
    BY <1>4, <2>1, LookedUp DEF Versions, obj, RestInv, DangInv
  <2>3. Labelled(obj(s)) /\ ~Off(obj(s))
    BY <2>1, <2>2 DEF AfterFind, IsServiceHashChanged, Labelled
  <2>4. CASE IsUserManaged(obj(s))
    BY <1>4, <2>4, LookedUp DEF RestInv, DangInv, IsUserManaged
  <2>5. CASE ~IsUserManaged(obj(s))
    <3>1. PICK l \in LB : nlb[l].by = s
      BY <2>2, <2>3, <2>5 DEF RestInv, SyncInv, Tells
    <3>2. Findable(s, l)
      BY <2>2, <2>3, <3>1, OwnFound
    <3>3. ctx'[s].lb = l
      BY <1>4, <2>5, <3>2, LookedUp DEF RestInv, DangInv
    <3>. QED BY <1>0, <3>3
  <2>. QED BY <2>4, <2>5
<1>5. CASE FindNLBGone(s)
  BY <1>0, <1>2, <1>5, PassAfter DEF FindNLBGone, Removing
<1>6. CASE DropsNLB(s)
  <2>1. Off(obj(s)) /\ \E x : ctx'[s] = [ctx[s] EXCEPT !.lb = x]
    BY <1>6 DEF DropsNLB, CanDeleteNLB, Off
  <2>2. ctx'[s].obj = obj(s)
    BY <1>0, <2>1, CtxLB DEF obj
  <2>. QED BY <2>1, <2>2
<1>7. CASE CreateNLB(s)
  <2>1. PICK l \in LB : ctx'[s] = [ctx[s] EXCEPT !.lb = l]
    BY <1>0, <1>7, PassAfter DEF CreateNLB
  <2>2. ctx'[s].lb = l
    BY <1>0, <2>1, CtxLB
  <2>. QED BY <1>0, <2>2
<1>8. CASE Onward(s)
  BY <1>0, <1>8 DEF Onward, Placed, obj
<1>. QED BY <1>1, <1>2, <1>3, <1>4, <1>5, <1>6, <1>7, <1>8, PassMoves DEF PassStep

\* Where a pass that is about to write the status came from.
LEMMA StatusMoves ==
  ASSUME IInv, [Next]_vars, NEW s \in Service, pc'[s] = "addstatus"
  PROVE  (pc'[s] = pc[s] /\ ctx'[s] = ctx[s]) \/ addServiceLabels(s)
<1>. USE DEF IInv
<1>1. CASE Untouched(s) \/ ServiceEvent(s) \/ EditService(s) \/ DeleteService(s) \/ ReconcileSkip(s)
  BY <1>1 DEF Untouched, ServiceEvent, EditService, DeleteService, ReconcileSkip
<1>2. CASE Restart
  BY <1>2 DEF Restart
<1>3. CASE ReconcileStart(s) \/ FinalizerStep(s)
  BY <1>3, PassAfter DEF ReconcileStart, FinalizerStep, AddFinalizersHas,
     AddFinalizersPatch, AddFinalizersError, RemoveFinalizersHasNot,
     RemoveFinalizersPatch, RemoveFinalizersError
<1>4. CASE LoadBalancerStep(s)
  BY <1>4, PassAfter DEF LoadBalancerStep, FindNLB, FindNLBGone, DeleteNLBSkip,
     DeleteNLB, CreateNLB, CreateNLBRefused, UpdateNLB, UpdateNLBRefused,
     TagNLBResource, AfterFind
<1>5. CASE GroupStep(s)
  BY <1>5, PassAfter DEF GroupStep, ListNLBServerGroups, VGroupsApplied,
     UpdateServerGroup, CreateNLBServerGroup, TagServerGroup, BatchAddServers,
     DeleteServerGroup, CleanupDone
<1>6. CASE ListenerStep(s)
  BY <1>6, PassAfter DEF ListenerStep, ListNLBListeners, ListenersDeleted,
     ListenersApplied, DeleteNLBListener, UpdateOrCreateNLBListener
<1>7. CASE StatusStep(s)
  BY <1>7, PassAfter DEF StatusStep, updateServiceStatus, removeServiceLabels,
     removeServiceStatus
<1>8. CASE Faulty(s)
  BY <1>8, PassAfter, UnwaitedPass DEF Faulty, CallFails, CreateNLBLost,
     RemoveFinalizersLost, CreateNLBServerGroupLost, Unwaited
<1>. QED BY <1>1, <1>2, <1>3, <1>4, <1>5, <1>6, <1>7, <1>8, Bystander DEF Mine, Worker

\* A group of the loop is filled.
LEMMA GroupFills ==
  ASSUME IInv, GroupInv, NEW s \in Service, NEW p \in Port,
         UpdatesServers(s, p) \/ AddsServers(s, p), Serving(s, pc[s], ctx[s])
  PROVE  Serving(s, pc[s], ctx[s])'
<1>0. /\ ctx[s] \in Ctx /\ grp \in [Group -> ServerGroup] /\ TypeOK
      /\ None \notin Group /\ ctx[s].todo \subseteq Port /\ ctx[s].sgs \subseteq Group
  BY ConstantsAssumption, CtxFields DEF IInv, TypeOK
<1>1. /\ pc[s] \in {"vgroups", "addservers"} /\ pc'[s] = "vgroups" /\ p \in ctx[s].todo
      /\ \E g :
           /\ Filling(s, g)
           /\ \/ ctx'[s] = [ctx[s] EXCEPT !.bind[p] = g, !.todo = @ \ {p}]
              \/ g = ctx[s].bind[p] /\ ctx'[s] = [ctx[s] EXCEPT !.todo = @ \ {p}]
  <2>1. CASE UpdatesServers(s, p)
    BY <2>1, Updating
  <2>2. CASE AddsServers(s, p)
    BY <2>2, Adding
  <2>. QED BY <2>1, <2>2
<1>2. PICK g \in Group, e \in {ctx[s].eps, Unfinished} :
        /\ grp' = [grp EXCEPT ![g].servers = e]
        /\ \/ ctx'[s] = [ctx[s] EXCEPT !.bind[p] = g, !.todo = @ \ {p}]
           \/ g = ctx[s].bind[p] /\ ctx'[s] = [ctx[s] EXCEPT !.todo = @ \ {p}]
  BY <1>1 DEF Filling
<1>3. /\ ctx'[s].obj = ctx[s].obj /\ ctx'[s].eps = ctx[s].eps
      /\ ctx'[s].todo = ctx[s].todo \ {p} /\ ctx'[s].bind[p] = g
      /\ \A q \in Port \ {p} : ctx'[s].bind[q] = ctx[s].bind[q]
  <2>1. CASE ctx'[s] = [ctx[s] EXCEPT !.bind[p] = g, !.todo = @ \ {p}]
    BY <1>0, <2>1 DEF Ctx
  <2>2. CASE g = ctx[s].bind[p] /\ ctx'[s] = [ctx[s] EXCEPT !.todo = @ \ {p}]
    BY <1>0, <2>2, CtxVisit
  <2>. QED BY <1>2, <2>1, <2>2
<1>4. /\ \A q \in LocalPorts(ctx[s].obj) \ ctx[s].todo :
           /\ grp[ctx[s].bind[q]].servers \in {ctx[s].eps, Unfinished}
           /\ ctx[s].bind[q] # None
      /\ LocalPorts(ctx[s].obj) \subseteq Port
  BY <1>1, ObjectFields DEF Serving, Applying, GroupInv, GroupsAt, LoopAt, IInv,
     PassesOK, PassAt
<1>5. ASSUME NEW q \in LocalPorts(ctx[s].obj) \ ctx'[s].todo
      PROVE  grp'[ctx'[s].bind[q]].servers \in {ctx[s].eps, Unfinished}
  <2>1. CASE q = p
    BY <1>0, <1>2, <1>3, <2>1 DEF ServerGroup
  <2>2. CASE q # p
    <3>1. /\ q \in Port /\ ctx'[s].bind[q] = ctx[s].bind[q] /\ ctx[s].bind[q] # None
          /\ grp[ctx[s].bind[q]].servers \in {ctx[s].eps, Unfinished}
      BY <1>3, <1>4, <1>5, <2>2
    <3>2. ctx[s].bind[q] \in Group
      BY <1>0, <3>1, CtxFields
    <3>. QED BY <1>0, <1>2, <3>1, <3>2 DEF ServerGroup
  <2>. QED BY <2>1, <2>2
<1>. QED BY <1>1, <1>3, <1>5 DEF Serving, After

\* A group is created or tagged; the filled ones stay.
LEMMA GroupsStayFilled ==
  ASSUME IInv, GroupInv, NEW s \in Service, NEW p \in Port,
         CreateNLBServerGroup(s, p) \/ TagServerGroup(s, p), Serving(s, pc[s], ctx[s])
  PROVE  Serving(s, pc[s], ctx[s])'
<1>0. /\ ctx[s] \in Ctx /\ grp \in [Group -> ServerGroup] /\ TypeOK
      /\ None \notin Group /\ s # None
  BY ConstantsAssumption DEF IInv, TypeOK
<1>1. /\ pc[s] \in {"vgroups", "taggroup"} /\ pc'[s] \in {"taggroup", "addservers"}
      /\ p \in ctx[s].todo
      /\ ctx'[s] = ctx[s] \/ \E g : ctx'[s] = [ctx[s] EXCEPT !.bind[p] = g]
  BY <1>0, PassAfter DEF CreateNLBServerGroup, TagServerGroup
<1>2. /\ ctx'[s].obj = ctx[s].obj /\ ctx'[s].eps = ctx[s].eps
      /\ ctx'[s].todo = ctx[s].todo
      /\ \A q \in Port \ {p} : ctx'[s].bind[q] = ctx[s].bind[q]
  BY <1>0, <1>1 DEF Ctx
<1>3. /\ \A q \in LocalPorts(ctx[s].obj) \ ctx[s].todo :
           /\ grp[ctx[s].bind[q]].servers \in {ctx[s].eps, Unfinished}
           /\ ctx[s].bind[q] # None
      /\ LocalPorts(ctx[s].obj) \subseteq Port
  BY <1>1, ObjectFields DEF Serving, Applying, GroupInv, GroupsAt, LoopAt, IInv,
     PassesOK, PassAt
<1>4. ASSUME NEW h \in Group, grp[h].svc = s PROVE grp'[h].servers = grp[h].servers
  <2>1. CASE CreateNLBServerGroup(s, p)
    <3>1. PICK g \in Group : FreeGroup(g) /\ NewGroup(s, p, g)
      BY <2>1 DEF CreateNLBServerGroup
    <3>. QED BY <1>0, <1>4, <3>1 DEF FreeGroup, NewGroup
  <2>2. CASE TagServerGroup(s, p)
    <3>1. PICK g \in Group : grp' = [grp EXCEPT ![g].tag = s]
      BY <1>0, <2>2, CtxFields DEF TagServerGroup
    <3>. QED BY <1>0, <3>1 DEF ServerGroup
  <2>. QED BY <2>1, <2>2
<1>5. ASSUME NEW q \in LocalPorts(ctx[s].obj) \ ctx'[s].todo
      PROVE  grp'[ctx'[s].bind[q]].servers \in {ctx[s].eps, Unfinished}
  <2>1. /\ q \in Port /\ ctx'[s].bind[q] = ctx[s].bind[q]
        /\ ctx[s].bind[q] # None
        /\ grp[ctx[s].bind[q]].servers \in {ctx[s].eps, Unfinished}
    BY <1>1, <1>2, <1>3, <1>5
  <2>2. ctx[s].bind[q] \in Group
    BY <1>0, <2>1, CtxFields
  <2>3. grp[ctx[s].bind[q]].svc = s
    BY <1>1, <2>1 DEF GroupInv, GroupsAt, BindsOne, Grouped
  <2>. QED BY <1>4, <2>1, <2>2, <2>3
<1>. QED BY <1>1, <1>2, <1>5 DEF Serving, After

\* The loop over the groups ends: every group of s is filled.
LEMMA AllFilled ==
  ASSUME IInv, GroupInv, NEW s \in Service, pc[s] = "vgroups", ctx[s].todo = {},
         Serving(s, pc[s], ctx[s])
  PROVE  Filled(s, LocalPorts(obj(s)), ctx[s].eps)
<1>. SUFFICES ASSUME NEW g \in Group, grp[g].live, grp[g].tag = s,
                     grp[g].port \in LocalPorts(ctx[s].obj)
              PROVE  grp[g].servers \in {ctx[s].eps, Unfinished}
  BY DEF Filled, obj
<1>0. s # None /\ LocalPorts(ctx[s].obj) \subseteq Port
  BY ObjectFields, ConstantsAssumption DEF IInv, PassesOK, PassAt
<1>1. PICK p \in Port : p = grp[g].port
  BY <1>0
<1>2. /\ ctx[s].bind[p] # None /\ BindsOne(s, "vgroups", ctx[s], p)
      /\ grp[ctx[s].bind[p]].servers \in {ctx[s].eps, Unfinished}
  BY <1>1 DEF Serving, Applying, GroupInv, GroupsAt, LoopAt, Grouped
<1>3. PICK h \in Group : h = ctx[s].bind[p]
  BY <1>2, CtxFields DEF IInv, TypeOK
<1>4. grp[h].live /\ grp[h].tag = s /\ grp[h].port = p
  BY <1>2, <1>3 DEF BindsOne
<1>5. h = g
  BY <1>0, <1>1, <1>4 DEF GroupInv, OneGroup
<1>. QED BY <1>2, <1>3, <1>5

\* The groups of the ports a pass is done with hold the backends.
LEMMA ServingStep ==
  ASSUME NEW CONSTANT R, IInv, RestInv(R), [Next]_vars, NEW s \in Service
  PROVE  Serving(s, pc[s], ctx[s])'
<1>. USE DEF RestInv, DangInv
<1>0. /\ Serving(s, pc[s], ctx[s]) /\ ctx[s] \in Ctx /\ TypeOK
      /\ grp \in [Group -> ServerGroup]
      /\ None \notin Group
  BY ConstantsAssumption DEF SyncInv, HasDone, IInv, TypeOK
<1>. SUFFICES ASSUME pc'[s] \in Applying \cup After PROVE Serving(s, pc[s], ctx[s])'
  BY DEF Serving
<1>1. CASE pc'[s] = pc[s] /\ ctx'[s] = ctx[s] /\ ~GroupWork(s)
  <2>1. CASE pc[s] \in Applying
    <3>1. ASSUME NEW p \in LocalPorts(ctx[s].obj) \ ctx[s].todo
          PROVE  grp'[ctx[s].bind[p]].servers \in {ctx[s].eps, Unfinished}
      <4>1. ctx[s].bind[p] # None /\ p \in Port
        BY <2>1, ObjectFields DEF GroupInv, GroupsAt, LoopAt, Applying, IInv, PassesOK, PassAt
      <4>2. ctx[s].bind[p] \in Group
        BY <1>0, <4>1, CtxFields
      <4>3. grp[ctx[s].bind[p]].tag = s
        BY <2>1, <3>1, <4>1 DEF GroupInv, GroupsAt, BindsOne, Grouped, Applying
      <4>4. grp'[ctx[s].bind[p]] = grp[ctx[s].bind[p]]
        BY <1>1, <4>2, <4>3, GroupSame
      <4>. QED BY <1>0, <2>1, <4>4 DEF Serving
    <3>. QED BY <1>1, <2>1, <3>1 DEF Serving, Applying, After
  <2>2. CASE pc[s] \in After
    <3>1. Filled(s, LocalPorts(ctx[s].obj), ctx[s].eps)'
      BY <1>0, <1>1, <2>2, FilledStays DEF Serving, After
    <3>. QED BY <1>1, <2>2, <3>1 DEF Serving, Applying, After
  <2>. QED BY <1>1, <2>1, <2>2
<1>2. CASE ListNLBServerGroups(s)
  <2>1. PICK x, y : /\ y = LocalPorts(obj(s)) /\ pc'[s] = "vgroups"
                    /\ ctx'[s] = [ctx[s] EXCEPT !.sgs = x, !.todo = y]
    BY <1>0, <1>2, PassAfter DEF ListNLBServerGroups
  <2>2. ctx'[s].obj = ctx[s].obj /\ ctx'[s].todo = y
    BY <1>0, <2>1 DEF Ctx
  <2>. QED BY <2>1, <2>2 DEF Serving, Applying, After, obj
<1>3. ASSUME Filled(s, LocalPorts(ctx[s].obj), ctx[s].eps), UNCHANGED grp,
             ctx'[s].obj = ctx[s].obj, ctx'[s].eps = ctx[s].eps, pc'[s] \notin Applying
      PROVE  Serving(s, pc[s], ctx[s])'
  BY <1>3 DEF Serving, Filled
<1>4. CASE VGroupsApplied(s)
  <2>1. /\ pc[s] = "vgroups" /\ pc'[s] \in {"listeners", "cleanup"}
        /\ ctx'[s] = ctx[s] /\ ctx[s].todo = {} /\ UNCHANGED grp
    BY <1>0, <1>4, PassAfter DEF VGroupsApplied
  <2>2. Filled(s, LocalPorts(ctx[s].obj), ctx[s].eps)
    BY <1>0, <2>1, AllFilled DEF obj
  <2>. QED BY <1>3, <2>1, <2>2 DEF Applying
<1>5. CASE CleanupDone(s)
  <2>1. /\ pc[s] = "cleanup" /\ pc'[s] \in {"addlabels", "rmlabels"}
        /\ ctx'[s] = ctx[s] /\ UNCHANGED grp
    BY <1>0, <1>5, PassAfter DEF CleanupDone
  <2>. QED BY <1>0, <1>3, <2>1 DEF Serving, Applying, After
<1>6. CASE DeleteServerGroup(s)
  <2>1. PICK g \in UnusedGroups(s) :
          /\ grp' = [grp EXCEPT ![g].live = FALSE]
          /\ ctx'[s] = [ctx[s] EXCEPT !.sgs = @ \ {g}]
    BY <1>0, <1>6, PassAfter DEF DeleteServerGroup
  <2>2. pc[s] = "cleanup" /\ pc'[s] = "cleanup"
    BY <1>6 DEF DeleteServerGroup
  <2>3. ctx'[s].obj = ctx[s].obj /\ ctx'[s].eps = ctx[s].eps
    BY <1>0, <2>1, CtxDrop
  <2>4. \A h \in Group : grp'[h].live => grp'[h] = grp[h]
    BY <1>0, <2>1 DEF ServerGroup
  <2>5. Filled(s, LocalPorts(ctx[s].obj), ctx[s].eps)
    BY <1>0, <2>2 DEF Serving, After
  <2>. QED BY <2>2, <2>3, <2>4, <2>5 DEF Serving, Filled, Applying
<1>7. CASE ListenerWork(s)
  <2>1. UNCHANGED grp /\ pc[s] \in {"listeners", "dellis", "putlis"}
    BY <1>7 DEF ListenerWork, ListenerStep, ListNLBListeners, ListenersDeleted,
       ListenersApplied, DeleteNLBListener, UpdateOrCreateNLBListener,
       DeleteNLBListenerUnfinished
  <2>2. pc'[s] \notin Applying
    BY <1>0, <1>7, PassAfter DEF Applying, ListenerWork, ListenerStep,
       ListNLBListeners, ListenersDeleted, ListenersApplied, DeleteNLBListener,
       UpdateOrCreateNLBListener, DeleteNLBListenerUnfinished
  <2>3. \/ pc'[s] = pc[s] /\ ctx'[s] = ctx[s]
        \/ Onward(s)
    BY <2>1, PassMoves DEF PassStep, Begins, ReconcileStart, AddFinalizersHas,
       AddFinalizersPatch, FindNLB, FindNLBGone, DropsNLB, CanDeleteNLB, CreateNLB,
       CanCreateNLB, Applying, After
  <2>4. ctx'[s].obj = ctx[s].obj /\ ctx'[s].eps = ctx[s].eps
    BY <2>3 DEF Onward
  <2>. QED BY <1>0, <1>3, <2>1, <2>2, <2>4 DEF Serving, After
<1>8. CASE addServiceLabels(s) /\ pc'[s] = "addstatus"
  <2>1. UNCHANGED grp /\ pc[s] = "addlabels" /\ ctx'[s] = ctx[s]
    BY <1>0, <1>8, PassAfter DEF addServiceLabels
  <2>. QED BY <1>0, <1>3, <1>8, <2>1 DEF Serving, Applying, After
<1>9. CASE GroupWork(s)
  BY <1>0, <1>2, <1>4, <1>5, <1>6, <1>9, GroupFills, GroupsStayFilled, Unfinishing
     DEF GroupWork, GroupStep, UpdatesServers, AddsServers
<1>10. CASE pc'[s] = "addstatus"
  BY <1>1, <1>8, <1>9, <1>10, StatusMoves
<1>11. CASE pc'[s] # "addstatus"
  <2>1. pc'[s] \in Grouped \cup {"addlabels"}
    BY <1>11 DEF Grouped, Applying, After
  <2>. QED BY <1>1, <1>7, <1>9, <2>1, GroupedMoves
<1>. QED BY <1>10, <1>11

\* After the listeners, or without a look at them, s has those of its ports.
LEMMA SkipsWell ==
  ASSUME NEW CONSTANT R, IInv, RestInv(R), NEW s \in Service, VGroupsApplied(s),
         pc'[s] = "cleanup", ~SkipListeners(obj(s))
  PROVE  Listens(s, obj(s), LocalPorts(obj(s)))
<1>1. /\ pc[s] = "vgroups" /\ obj(s) \in Versions(s)
      /\ ~(IsServiceHashChanged(obj(s)) /\ ctx[s].lb # None)
  BY PassAfter DEF VGroupsApplied, IInv, Versions, obj
<1>2. CASE Off(obj(s))
  BY <1>2 DEF Listens, LocalPorts, Off
<1>3. CASE ~Off(obj(s))
  <2>1. ctx[s].lb # None
    BY <1>1, <1>3, PassLB DEF Found, Removing, PC
  <2>2. Labelled(obj(s))
    BY <1>1, <1>3, <2>1 DEF IsServiceHashChanged, Labelled
  <2>3. Tells(s, obj(s))
    BY <1>1, <2>2 DEF RestInv, SyncInv
  <2>. QED BY <1>3, <2>3 DEF Tells, LocalPorts, Off
<1>. QED BY <1>2, <1>3

\* A pass puts the listener of a port.
LEMMA PutsListener ==
  ASSUME NEW CONSTANT R, Rules(R), IInv, IInv', RestInv(R), [Next]_vars,
         NEW s \in Service, NEW p \in Port, UpdateOrCreateNLBListener(s, p),
         pc'[s] = "putlis"
  PROVE  Listens(s, ctx[s].obj, LocalPorts(ctx[s].obj) \ ctx[s].todo)'
<1>0. /\ ctx[s] \in Ctx /\ TypeOK /\ lis \in [LB -> [Port -> Listener \cup {None}]]
  BY DEF IInv, TypeOK
<1>1. /\ pc[s] = "putlis" /\ p \in ctx[s].todo /\ CanPutListener(s, p)
      /\ PutListener(s, p, Desired(s, p)) /\ UNCHANGED nlb
      /\ ctx'[s] = [ctx[s] EXCEPT !.todo = @ \ {p}]
  BY <1>0, PassAfter DEF UpdateOrCreateNLBListener
<1>2. ctx'[s].obj = obj(s) /\ ctx'[s].todo = ctx[s].todo \ {p}
  BY <1>0, <1>1, CtxVisit DEF obj
<1>3. /\ ctx[s].lb \in LB /\ ctx[s].bind[p] \in Group /\ p \in LocalPorts(obj(s))
  BY <1>1, PutsWell DEF RestInv, DangInv
<1>4. PICK ps \in SUBSET Port : ps = LocalPorts(obj(s)) \ ctx[s].todo
  BY <1>1, ObjectFields DEF IInv, PassesOK, PassAt, obj
<1>5. Listens(s, obj(s), ps)
  BY <1>1, <1>4 DEF RestInv, SyncInv, HasDone, Listening, obj
<1>6. Listens(s, ctx[s].obj, ps)'
  <2>1. obj(s).spec \in UsedSpec
    BY <1>1, ObjUsed DEF RestInv, DangInv, VersionInv
  <2>2. \A l \in LB : ~Made(s, l)
    BY <1>1 DEF Made, CanCreateNLB
  <2>3. PICK o : o = obj(s)
    OBVIOUS
  <2>4. Listens(s, o, ps)'
    BY <1>1, <1>5, <2>1, <2>2, <2>3, ListensStay
  <2>. QED BY <1>2, <2>3, <2>4
<1>7. ASSUME NEW l \in LB, Target(s, ctx[s].obj, l)', nlb'[l].live, ~nlb'[l].going
      PROVE  Owns(s, l, p)'
  <2>1. Target(s, obj(s), l) /\ ~Off(obj(s))
    BY <1>1, <1>2, <1>3, <1>7 DEF Target, LocalPorts, Off
  <2>2. l = ctx[s].lb
    BY <1>1, <2>1, OnlyLB DEF Found, Removing, PC
  <2>3. lis'[l][p] = Desired(s, p)
    BY <1>0, <1>1, <1>3, <2>2 DEF PutListener
  <2>4. /\ Desired(s, p) \in Listener /\ Desired(s, p).by = s
        /\ ~Desired(s, p).going
    BY <1>3 DEF Desired, Listener
  <2>. QED BY <1>7, <2>3, <2>4, ListenerAssumption DEF Owns, HasLis, Going
<1>8. LocalPorts(ctx'[s].obj) \ ctx'[s].todo \subseteq ps \cup {p}
  BY <1>2, <1>4
<1>. QED BY <1>6, <1>7, <1>8 DEF Listens

\* The pass has the listeners of the ports it is done with.
LEMMA ListeningStep ==
  ASSUME NEW CONSTANT R, Rules(R), IInv, IInv', RestInv(R), [Next]_vars,
         NEW s \in Service
  PROVE  Listening(s, pc[s], ctx[s])'
<1>0. /\ Listening(s, pc[s], ctx[s]) /\ ctx[s] \in Ctx /\ TypeOK
  BY DEF RestInv, SyncInv, HasDone, IInv, TypeOK
<1>. SUFFICES ASSUME pc'[s] \in {"putlis", "cleanup", "addlabels"}
              PROVE  Listening(s, pc[s], ctx[s])'
  BY DEF Listening
<1>1. ASSUME NEW o, NEW ps, Listens(s, o, ps), UNCHANGED <<nlb, lis>>
      PROVE  Listens(s, o, ps)'
  BY <1>1 DEF Listens, Target, Owns, HasLis, Going
<1>2. CASE pc'[s] = pc[s] /\ ctx'[s] = ctx[s]
  <2>1. pc[s] # "idle" /\ pc[s] # "dellis" /\ \A l \in LB : ~Made(s, l)
    BY <1>2 DEF Made, CanCreateNLB
  <2>2. obj(s).spec \in UsedSpec /\ LocalPorts(obj(s)) \subseteq Port
    BY <2>1, ObjUsed, ObjectFields DEF RestInv, DangInv, VersionInv, IInv, PassesOK,
       PassAt, obj
  <2>3. ASSUME NEW ps \in SUBSET Port, Listens(s, obj(s), ps)
        PROVE  Listens(s, ctx[s].obj, ps)'
    <3>1. PICK o : o = obj(s)
      OBVIOUS
    <3>2. Listens(s, o, ps)'
      BY <2>1, <2>2, <2>3, <3>1, ListensStay
    <3>. QED BY <1>2, <3>1, <3>2 DEF obj
  <2>. QED BY <1>0, <1>2, <2>2, <2>3 DEF Listening, obj
<1>3. ASSUME ctx'[s].obj = ctx[s].obj, UNCHANGED <<nlb, lis>>, pc'[s] # "putlis",
             ~SkipListeners(ctx[s].obj) => Listens(s, ctx[s].obj, LocalPorts(ctx[s].obj))
      PROVE  Listening(s, pc[s], ctx[s])'
  BY <1>1, <1>3 DEF Listening
<1>4. CASE VGroupsApplied(s)
  <2>1. ctx'[s] = ctx[s] /\ UNCHANGED <<nlb, lis>> /\ pc'[s] \in {"listeners", "cleanup"}
    BY <1>0, <1>4, PassAfter DEF VGroupsApplied
  <2>. QED BY <1>3, <1>4, <2>1, SkipsWell DEF obj
<1>5. CASE CleanupDone(s)
  <2>1. /\ ctx'[s] = ctx[s] /\ UNCHANGED <<nlb, lis>> /\ pc[s] = "cleanup"
        /\ pc'[s] \in {"addlabels", "rmlabels"}
    BY <1>0, <1>5, PassAfter DEF CleanupDone
  <2>. QED BY <1>0, <1>3, <2>1 DEF Listening
<1>6. CASE DeleteServerGroup(s)
  <2>1. /\ \E g : ctx'[s] = [ctx[s] EXCEPT !.sgs = @ \ {g}]
        /\ UNCHANGED <<nlb, lis>> /\ pc[s] = "cleanup" /\ pc'[s] = "cleanup"
    BY <1>0, <1>6, PassAfter DEF DeleteServerGroup
  <2>2. ctx'[s].obj = ctx[s].obj
    BY <1>0, <2>1, CtxDrop
  <2>. QED BY <1>0, <1>3, <2>1, <2>2 DEF Listening
<1>7. ASSUME NEW p \in Port, \/ UpdateServerGroup(s, p) \/ CreateNLBServerGroup(s, p)
                             \/ TagServerGroup(s, p) \/ BatchAddServers(s, p)
                             \/ ServersUnfinished(s, p)
      PROVE  FALSE
  BY <1>0, <1>7, PassAfter DEF UpdateServerGroup, CreateNLBServerGroup,
     TagServerGroup, BatchAddServers, ServersUnfinished
<1>8. CASE ListNLBServerGroups(s)
  BY <1>0, <1>8, PassAfter DEF ListNLBServerGroups
<1>9. CASE GroupWork(s)
  BY <1>4, <1>5, <1>6, <1>7, <1>8, <1>9 DEF GroupWork, GroupStep
<1>10. CASE ListNLBListeners(s)
  <2>1. pc'[s] = "cleanup" /\ ctx'[s] = ctx[s] /\ SkipListeners(obj(s))
    BY <1>0, <1>10, PassAfter DEF ListNLBListeners
  <2>. QED BY <2>1 DEF Listening, obj
<1>11. CASE ListenersDeleted(s)
  <2>1. PICK y : /\ y = LocalPorts(obj(s)) /\ pc'[s] = "putlis"
                 /\ ctx'[s] = [ctx[s] EXCEPT !.todo = y]
    BY <1>0, <1>11, PassAfter DEF ListenersDeleted
  <2>2. ctx'[s].obj = obj(s) /\ ctx'[s].todo = y
    BY <1>0, <2>1, CtxLoop DEF obj
  <2>. QED BY <2>1, <2>2 DEF Listening, Listens
<1>12. CASE ListenersApplied(s)
  <2>1. /\ pc[s] = "putlis" /\ pc'[s] = "cleanup" /\ ctx'[s] = ctx[s]
        /\ ctx[s].todo = {} /\ UNCHANGED <<nlb, lis>>
    BY <1>0, <1>12, PassAfter DEF ListenersApplied
  <2>2. LocalPorts(ctx[s].obj) \ ctx[s].todo = LocalPorts(ctx[s].obj)
    BY <2>1
  <2>3. Listens(s, ctx[s].obj, LocalPorts(ctx[s].obj))
    BY <1>0, <2>1, <2>2 DEF Listening
  <2>. QED BY <1>3, <2>1, <2>3
<1>13. ASSUME NEW p \in Port,
              DeleteNLBListener(s, p) \/ DeleteNLBListenerUnfinished(s, p)
       PROVE  FALSE
  BY <1>0, <1>13, PassAfter DEF DeleteNLBListener, DeleteNLBListenerUnfinished
<1>14. ASSUME NEW p \in Port, UpdateOrCreateNLBListener(s, p)
       PROVE  Listening(s, pc[s], ctx[s])'
  <2>1. pc'[s] = "putlis"
    BY <1>0, <1>14, PassAfter DEF UpdateOrCreateNLBListener
  <2>. QED BY <1>14, <2>1, PutsListener DEF Listening
<1>15. CASE ListenerWork(s)
  BY <1>10, <1>11, <1>12, <1>13, <1>14, <1>15 DEF ListenerWork, ListenerStep
<1>. QED BY <1>2, <1>9, <1>15, GroupedMoves DEF Grouped
-----------------------------------------------------------------------------
(***************************************************************************)
(* What a pass that need not be repeated leaves behind.                    *)
(***************************************************************************)
\* Who changes the cache and the backends, and who takes a key.
EventStep(s) ==
  /\ cache'[s] = cache[s] \/ ServiceEvent(s) \/ Restart
  /\ eps'[s] = eps[s] \/ BackendsChange(s)
  /\ s \in queue => s \in queue' \/ ReconcileSkip(s) \/ ReconcileStart(s) \/ Restart

\* Only events change the cache and the backends; only a pass takes a key.
LEMMA EventMoves ==
  ASSUME IInv, [Next]_vars, NEW s \in Service
  PROVE  EventStep(s)
<1>0. cache \in [Service -> Object] /\ eps \in [Service -> Backends]
  BY DEF IInv, TypeOK
<1>1. ASSUME UNCHANGED <<cache, eps>>, queue \subseteq queue' PROVE EventStep(s)
  BY <1>1 DEF EventStep
<1>2. ASSUME NEW r, Return(r) \/ ReturnError(r) \/ UNCHANGED queue
      PROVE  queue \subseteq queue'
  BY <1>2 DEF Return, ReturnError
<1>3. CASE UNCHANGED vars
  BY <1>1, <1>3 DEF vars
<1>4. ASSUME NEW r \in Service, ReconcileSkip(r) \/ ReconcileStart(r)
      PROVE  EventStep(s)
  <2>1. UNCHANGED <<cache, eps>> /\ queue' = queue \ {r}
    BY <1>4 DEF ReconcileSkip, ReconcileStart
  <2>. QED BY <1>4, <2>1 DEF EventStep
<1>5. ASSUME NEW r \in Service, FinalizerStep(r) PROVE EventStep(s)
  BY <1>1, <1>2, <1>5 DEF FinalizerStep, AddFinalizersHas, AddFinalizersPatch,
     AddFinalizersError, RemoveFinalizersHasNot, RemoveFinalizersPatch,
     RemoveFinalizersError
<1>6. ASSUME NEW r \in Service, LoadBalancerStep(r) PROVE EventStep(s)
  BY <1>1, <1>2, <1>6 DEF LoadBalancerStep, FindNLB, FindNLBGone, DeleteNLBSkip,
     DeleteNLB, CreateNLB, CreateNLBRefused, UpdateNLB, UpdateNLBRefused,
     TagNLBResource
<1>7. ASSUME NEW r \in Service, GroupStep(r) PROVE EventStep(s)
  BY <1>1, <1>2, <1>7 DEF GroupStep, ListNLBServerGroups, VGroupsApplied,
     UpdateServerGroup, CreateNLBServerGroup, TagServerGroup, BatchAddServers,
     DeleteServerGroup, CleanupDone
<1>8. ASSUME NEW r \in Service, ListenerStep(r) PROVE EventStep(s)
  <2>1. UNCHANGED <<cache, eps>>
    BY <1>8 DEF ListenerStep, ListNLBListeners, ListenersDeleted, ListenersApplied,
       DeleteNLBListener, UpdateOrCreateNLBListener
  <2>2. UNCHANGED queue \/ ReturnError(r)
    BY <1>8 DEF ListenerStep, ListNLBListeners, ListenersDeleted, ListenersApplied,
       DeleteNLBListener, UpdateOrCreateNLBListener
  <2>. QED BY <1>1, <1>2, <2>1, <2>2
<1>9. ASSUME NEW r \in Service, StatusStep(r) PROVE EventStep(s)
  <2>1. UNCHANGED <<cache, eps>>
    BY <1>9 DEF StatusStep, addServiceLabels, updateServiceStatus,
       removeServiceLabels, removeServiceStatus
  <2>2. UNCHANGED queue \/ Return(r) \/ ReturnError(r)
    BY <1>9 DEF StatusStep, addServiceLabels, updateServiceStatus,
       removeServiceLabels, removeServiceStatus
  <2>. QED BY <1>1, <1>2, <2>1, <2>2
<1>10. ASSUME NEW r \in Service, Faulty(r) PROVE EventStep(s)
  <2>1. CASE DeleteNLBUnfinished(r)
    BY <1>1, <1>2, <2>1 DEF DeleteNLBUnfinished
  <2>2. ASSUME NEW p \in Port,
               ServersUnfinished(r, p) \/ DeleteNLBListenerUnfinished(r, p)
        PROVE  EventStep(s)
    BY <1>1, <1>2, <2>2 DEF ServersUnfinished, DeleteNLBListenerUnfinished
  <2>. QED BY <1>1, <1>2, <1>10, <2>1, <2>2 DEF Faulty, CallFails, CreateNLBLost,
       RemoveFinalizersLost, CreateNLBServerGroupLost
<1>11. ASSUME NEW r \in Service, ServiceEvent(r) PROVE EventStep(s)
  <2>1. UNCHANGED eps /\ queue \subseteq queue' /\ (r # s => cache'[s] = cache[s])
    BY <1>0, <1>11 DEF ServiceEvent
  <2>. QED BY <1>11, <2>1 DEF EventStep
<1>12. ASSUME NEW r \in Service, BackendsChange(r) PROVE EventStep(s)
  <2>1. UNCHANGED cache /\ queue \subseteq queue' /\ (r # s => eps'[s] = eps[s])
    BY <1>0, <1>12 DEF BackendsChange
  <2>. QED BY <1>12, <2>1 DEF EventStep
<1>13. ASSUME NEW r \in Service, EditService(r) \/ DeleteService(r) PROVE EventStep(s)
  BY <1>1, <1>2, <1>13 DEF EditService, DeleteService
<1>14. CASE Restart
  BY <1>14 DEF Restart, EventStep
<1>15. ASSUME NEW l \in LB, ConsoleDeleteNLB(l) PROVE EventStep(s)
  BY <1>1, <1>2, <1>15 DEF ConsoleDeleteNLB
<1>16. CASE JobEnds
  BY <1>1, <1>2, <1>16 DEF JobEnds, NLBJobEnds, ListenerJobEnds
<1>. QED BY <1>3, <1>4, <1>5, <1>6, <1>7, <1>8, <1>9, <1>10, <1>11, <1>12, <1>13,
            <1>14, <1>15, <1>16 DEF Next, Worker, UserAction

\* How a pass ends that is not to be repeated.
LEMMA EndsWell ==
  ASSUME IInv, [Next]_vars, NEW s \in Service, pc[s] # "idle", pc'[s] = "idle",
         s \notin queue', ~Restart
  PROVE  pc[s] = "rmfinalizer" \/ updateServiceStatus(s)
<1>. USE DEF IInv
<1>1. CASE Untouched(s) \/ ServiceEvent(s) \/ EditService(s) \/ DeleteService(s)
           \/ ReconcileSkip(s)
  BY <1>1 DEF Untouched, ServiceEvent, EditService, DeleteService, ReconcileSkip
<1>2. ASSUME ReturnError(s) PROVE FALSE
  BY <1>2 DEF ReturnError
<1>3. CASE ReconcileStart(s) \/ FinalizerStep(s)
  BY <1>2, <1>3, PassAfter DEF ReconcileStart, FinalizerStep, AddFinalizersHas,
     AddFinalizersPatch, AddFinalizersError, RemoveFinalizersHasNot,
     RemoveFinalizersPatch, RemoveFinalizersError
<1>4. CASE LoadBalancerStep(s)
  BY <1>2, <1>4, PassAfter DEF LoadBalancerStep, FindNLB, FindNLBGone, DeleteNLBSkip,
     DeleteNLB, CreateNLB, CreateNLBRefused, UpdateNLB, UpdateNLBRefused,
     TagNLBResource, AfterFind
<1>5. CASE GroupStep(s)
  BY <1>5, PassAfter DEF GroupStep, ListNLBServerGroups, VGroupsApplied,
     UpdateServerGroup, CreateNLBServerGroup, TagServerGroup, BatchAddServers,
     DeleteServerGroup, CleanupDone
<1>6. CASE ListenerStep(s)
  BY <1>2, <1>6, PassAfter DEF ListenerStep, ListNLBListeners, ListenersDeleted,
     ListenersApplied, DeleteNLBListener, UpdateOrCreateNLBListener
<1>7. CASE StatusStep(s)
  BY <1>2, <1>7, PassAfter DEF StatusStep, addServiceLabels, removeServiceLabels,
     removeServiceStatus
<1>9. ASSUME NEW p \in Port,
             ServersUnfinished(s, p) \/ DeleteNLBListenerUnfinished(s, p)
      PROVE  FALSE
  BY <1>2, <1>9, PassAfter DEF ServersUnfinished, DeleteNLBListenerUnfinished
<1>10. CASE DeleteNLBUnfinished(s)
  BY <1>2, <1>10, PassAfter DEF DeleteNLBUnfinished
<1>8. CASE Faulty(s)
  BY <1>2, <1>8, <1>9, <1>10 DEF Faulty, CallFails, CreateNLBLost,
     RemoveFinalizersLost, CreateNLBServerGroupLost
<1>. QED BY <1>1, <1>3, <1>4, <1>5, <1>6, <1>7, <1>8, Bystander DEF Mine, Worker

\* The handlers queue every change: if none is waiting now, none was before,
\* unless a pass has just taken the key.
LEMMA HeededBack ==
  ASSUME IInv, Fresh, SyncInv, [Next]_vars, NEW s \in Service, Heeded(s)'
  PROVE  \/ ReconcileSkip(s) \/ ReconcileStart(s)
         \/ /\ Heeded(s) /\ GetServiceHash(cache'[s]) = GetServiceHash(cache[s])
            /\ eps'[s] = eps[s]
            /\ pc'[s] = "idle" => pc[s] \in {"idle", "rmfinalizer"}
                                  \/ updateServiceStatus(s)
<1>. SUFFICES ASSUME ~ReconcileSkip(s), ~ReconcileStart(s)
              PROVE  /\ Heeded(s) /\ GetServiceHash(cache'[s]) = GetServiceHash(cache[s])
                     /\ eps'[s] = eps[s]
                     /\ pc'[s] = "idle" => pc[s] \in {"idle", "rmfinalizer"}
                                           \/ updateServiceStatus(s)
  OBVIOUS
<1>0. /\ s \notin queue' /\ api'[s].exists /\ NeedNLB(cache'[s])
      /\ EventStep(s) /\ ApiStep(s) /\ Exists(s) /\ TypeOK
  BY EventMoves, ApiMoves DEF Heeded, SyncInv, IInv
<1>1. api[s].exists /\ \A v \in Versions(s) : v.exists
  BY <1>0 DEF ApiStep, Exists
<1>2. ~Restart
  <2>. SUFFICES ASSUME Restart PROVE FALSE
    OBVIOUS
  <2>1. cache'[s] = api[s] /\ queue' = {r \in Service : api[r].exists /\ needAdd(api[r])}
    BY DEF Restart
  <2>. QED BY <1>0, <1>1, <2>1 DEF needAdd
<1>3. GetServiceHash(cache'[s]) = GetServiceHash(cache[s])
  <2>1. CASE cache'[s] = cache[s]
    BY <2>1
  <2>2. CASE ServiceEvent(s)
    <3>1. ~(cache'[s].exists /\ needUpdate(cache[s], cache'[s]))
      BY <1>0, <2>2 DEF ServiceEvent
    <3>2. cache'[s].exists
      <4>1. watch[s] \in Seq(Object) /\ watch[s] # << >> /\ cache'[s] = Head(watch[s])
        BY <1>0, <2>2 DEF ServiceEvent, TypeOK
      <4>2. Head(watch[s]) = watch[s][1] /\ 1 \in DOMAIN watch[s]
        BY <4>1, Taken
      <4>. QED BY <1>1, <4>1, <4>2 DEF Versions
    <3>. QED BY <1>0, <3>1, <3>2 DEF needUpdate
  <2>. QED BY <1>0, <1>2, <2>1, <2>2 DEF EventStep
<1>4. NeedNLB(cache[s]) /\ cache[s].exists
  BY <1>0, <1>1, <1>3, SameHash DEF Versions
<1>5. eps'[s] = eps[s]
  <2>1. ASSUME BackendsChange(s) PROVE s \in queue'
    BY <1>4, <2>1 DEF BackendsChange
  <2>. QED BY <1>0, <2>1 DEF EventStep
<1>6. Heeded(s)
  BY <1>0, <1>1, <1>2, <1>4 DEF Heeded, EventStep
<1>7. pc'[s] = "idle" => pc[s] \in {"idle", "rmfinalizer"} \/ updateServiceStatus(s)
  BY <1>0, <1>2, EndsWell
<1>. QED BY <1>3, <1>5, <1>6, <1>7

\* A pass works on the Service that the cache shows.
LEMMA WorksOnCurrent ==
  ASSUME IInv, Fresh, [Next]_vars, NEW s \in Service, pc'[s] # "idle",
         GetServiceHash(cache'[s]) = GetServiceHash(cache[s]),
         pc[s] # "idle" => GetServiceHash(obj(s)) = GetServiceHash(cache[s])
  PROVE  GetServiceHash(ctx'[s].obj) = GetServiceHash(cache'[s])
<1>1. VersionStep(s)
  BY VersionMoves
<1>2. CASE Finalized(s)
  <2>1. cache[s] = api[s]
    BY <1>2 DEF Finalized, Fresh, Last
  <2>. QED BY <1>2, <2>1 DEF Finalized, GetServiceHash
<1>. QED BY <1>1, <1>2 DEF VersionStep, Untouched, Still, Heard, Relisted, Wrote, Works, obj

\* It builds the model with the backends of the moment.
LEMMA BackendsCurrent ==
  ASSUME IInv, [Next]_vars, NEW s \in Service, pc'[s] \in Found \ Removing,
         eps'[s] = eps[s], pc[s] \in Found \ Removing => ctx[s].eps = eps[s]
  PROVE  ctx'[s].eps = eps'[s]
<1>0. ctx[s] \in Ctx /\ TypeOK
  BY DEF IInv, TypeOK
<1>1. CASE pc'[s] = pc[s] /\ ctx'[s] = ctx[s]
  BY <1>1
<1>2. CASE pc'[s] = "idle"
  BY <1>2 DEF Found
<1>3. CASE Begins(s)
  BY <1>0, <1>3, PassAfter DEF Begins, ReconcileStart, AddFinalizersHas,
     AddFinalizersPatch, Found
<1>4. CASE FindNLB(s)
  <2>1. \E x : ctx'[s] = [ctx[s] EXCEPT !.lb = x, !.eps = eps[s]]
    BY <1>0, <1>4, PassAfter DEF FindNLB
  <2>. QED BY <1>0, <2>1 DEF Ctx
<1>5. CASE FindNLBGone(s)
  BY <1>0, <1>2, <1>5, PassAfter DEF FindNLBGone, Removing
<1>6. CASE DropsNLB(s) \/ CreateNLB(s)
  <2>1. pc[s] = "lbattr" /\ \E x : ctx'[s] = [ctx[s] EXCEPT !.lb = x]
    BY <1>0, <1>6, PassAfter DEF DropsNLB, CanDeleteNLB, CreateNLB, CanCreateNLB
  <2>2. ctx'[s].eps = ctx[s].eps
    BY <1>0, <2>1, CtxLB
  <2>. QED BY <2>1, <2>2 DEF Found, Removing, PC
<1>7. CASE Onward(s)
  BY <1>7 DEF Onward
<1>. QED BY <1>1, <1>2, <1>3, <1>4, <1>5, <1>6, <1>7, PassMoves DEF PassStep

\* What is caught now was caught before, and the user wrote nothing.
LEMMA CaughtBack ==
  ASSUME NEW CONSTANT R, Rules(R), IInv, IInv', RestInv(R), [Next]_vars,
         NEW s \in Service, Caught(s)',
         GetServiceHash(cache'[s]) = GetServiceHash(cache[s])
  PROVE  Caught(s) /\ GetServiceHash(api'[s]) = GetServiceHash(api[s])
<1>0. Preorder(R) /\ Forward(R)
  BY DEF Rules, Forward, Onwards
<1>1. /\ VersionStep(s) /\ api[s] \in Versions(s) /\ cache[s] \in Object
      /\ api[s] \in Object /\ api'[s] \in Object
  BY VersionMoves DEF IInv, TypeOK, Versions, RestInv, DangInv, VersionInv
<1>2. Upto(R, cache[s], api[s])
  BY <1>0, <1>1, ObjFirst DEF RestInv, DangInv, VersionInv
<1>3. Upto(R, api[s], api'[s])
  <2>1. api'[s] = api[s] \/ Wrote(s) \/ Finalized(s)
    BY <1>1 DEF VersionStep, Untouched, Still, Heard, Relisted, Works
  <2>. QED BY <1>0, <1>1, <2>1, WriteFollows, UptoOrder
<1>4. GetServiceHash(cache[s]) = GetServiceHash(api'[s]) /\ ~Off(api'[s])
  BY DEF Caught
<1>5. Upto(R, api[s], cache[s])
  BY <1>3, <1>4, SameHash DEF Upto
<1>6. GetServiceHash(cache[s]) = GetServiceHash(api[s])
  BY <1>0, <1>1, <1>2, <1>5, ForwardFacts
<1>. QED BY <1>4, <1>6, SameHash DEF Caught

\* The label is that of what the user wrote last.
LEMMA LabelCurrent ==
  ASSUME NEW CONSTANT R, Rules(R), IInv, IInv', RestInv(R), [Next]_vars,
         NEW s \in Service, Heeded(s), Caught(s),
         GetServiceHash(api'[s]) = GetServiceHash(api[s]),
         \/ pc'[s] = "addstatus"
         \/ pc'[s] = "idle" /\ pc[s] \in {"idle", "addstatus"}
  PROVE  api'[s].hash = GetServiceHash(api'[s])
<1>0. ApiStep(s) /\ Current(s) /\ TypeOK
  BY ApiMoves DEF RestInv, SyncInv, DangInv, VersionInv, IInv
<1>1. CASE pc[s] \in {"idle", "addstatus"}
  <2>1. api[s].hash = GetServiceHash(api[s])
    BY <1>0, <1>1 DEF Current
  <2>. QED BY <1>0, <1>1, <2>1 DEF ApiStep
<1>2. CASE addServiceLabels(s) /\ pc'[s] = "addstatus"
  <2>1. PICK x : x = IF IsServiceHashChanged(obj(s)) THEN GetServiceHash(obj(s))
                     ELSE api[s].hash
    OBVIOUS
  <2>2. /\ pc[s] = "addlabels" /\ obj(s) \in Versions(s)
        /\ Write(s, [api[s] EXCEPT !.hash = x])
    BY <1>0, <1>2, <2>1, PassAfter DEF addServiceLabels, Versions, obj
  <2>3. api'[s].hash = x
    <3>1. api'[s] = [api[s] EXCEPT !.hash = x] /\ api[s] \in Object
      BY <1>0, <2>2 DEF Write, TypeOK
    <3>. QED BY <3>1 DEF Object
  <2>4. GetServiceHash(obj(s)) = GetServiceHash(api[s])
    BY <1>0, <2>2 DEF Current, Caught
  <2>5. CASE IsServiceHashChanged(obj(s))
    BY <2>1, <2>3, <2>4, <2>5
  <2>6. CASE ~IsServiceHashChanged(obj(s))
    <3>1. Labelled(obj(s))
      BY <2>4, <2>6, SameHash DEF IsServiceHashChanged, Labelled, Caught
    <3>2. api[s].hash = obj(s).hash
      BY <2>2, <2>4, <3>1 DEF RestInv, SyncInv, Tells
    <3>. QED BY <2>1, <2>3, <2>4, <2>6, <3>2 DEF IsServiceHashChanged
  <2>. QED BY <2>5, <2>6
<1>. QED BY <1>1, <1>2, StatusMoves

\* A pass that ends with the status has the host there and the groups filled.
LEMMA EndsInSync ==
  ASSUME NEW CONSTANT R, Rules(R), IInv, IInv', RestInv(R), [Next]_vars,
         NEW s \in Service, Heeded(s), Caught(s), updateServiceStatus(s),
         GetServiceHash(api'[s]) = GetServiceHash(api[s]), eps'[s] = eps[s]
  PROVE  api'[s].host # None /\ Filled(s, api[s].spec.ports, eps[s])'
<1>0. /\ pc[s] = "addstatus" /\ Current(s) /\ HasDone(s, pc[s], ctx[s]) /\ Hosts(s)
      /\ Exists(s) /\ TypeOK /\ api[s] \in Object /\ None \notin LB
  BY ConstantsAssumption DEF updateServiceStatus, RestInv, SyncInv, IInv, TypeOK
<1>1. {obj(s), cache[s], api[s]} \subseteq Versions(s) /\ ~Off(api[s])
  BY <1>0 DEF Versions, Caught, obj
<1>2. ~Off(obj(s))
  BY <1>0, <1>1, AllOff
<1>3. ctx[s].lb \in LB /\ NewHost(s) = ctx[s].lb
  BY <1>0, <1>2, PassLB DEF NewHost, Found, Removing, PC
<1>4. \A v \in Versions(s) : v.host # None => api[s].host # None
  BY <1>0, <1>1 DEF Hosts
<1>5. api'[s].host # None
  <2>1. CASE obj(s).host = NewHost(s)
    <3>1. api' = api
      BY <2>1 DEF updateServiceStatus
    <3>. QED BY <1>0, <1>1, <1>3, <1>4, <2>1, <3>1
  <2>2. CASE obj(s).host # NewHost(s)
    <3>1. cache[s].exists /\ api[s].exists
      BY <1>0, <1>1 DEF Heeded, Exists
    <3>2. PICK x : x = IF api[s].exists /\ cache[s].host # NewHost(s)
                       THEN NewHost(s) ELSE api[s].host
      OBVIOUS
    <3>3. Write(s, [api[s] EXCEPT !.host = x])
      BY <2>2, <3>1, <3>2 DEF updateServiceStatus
    <3>4. api'[s].host = x
      <4>1. api'[s] = [api[s] EXCEPT !.host = x]
        BY <1>0, <3>3 DEF Write, TypeOK
      <4>. QED BY <1>0, <4>1 DEF Object
    <3>. QED BY <1>0, <1>1, <1>3, <1>4, <3>1, <3>2, <3>4
  <2>. QED BY <2>1, <2>2
<1>6. Filled(s, LocalPorts(obj(s)), ctx[s].eps) /\ ctx[s].eps = eps[s]
  BY <1>0 DEF HasDone, Serving, After, Current, Found, Removing, PC, obj
<1>7. LocalPorts(obj(s)) = api'[s].spec.ports
  <2>1. GetServiceHash(obj(s)) = GetServiceHash(api'[s])
    BY <1>0 DEF Current, Caught
  <2>. QED BY <1>2, <2>1, SameHash DEF LocalPorts, Off
<1>8. grp' = grp
  BY DEF updateServiceStatus
<1>. QED BY <1>5, <1>6, <1>7, <1>8 DEF Filled

\* Nothing a pass left right goes wrong without the next one being due.
LEMMA CurrentStep ==
  ASSUME NEW CONSTANT R, Rules(R), IInv, IInv', RestInv(R), [Next]_vars,
         NEW s \in Service
  PROVE  Current(s)'
<1>. SUFFICES ASSUME Heeded(s)' PROVE Current(s)'
  BY DEF Current
<1>0. /\ Fresh /\ SyncInv /\ GroupInv /\ Current(s) /\ Exists(s) /\ Ways(s) /\ TypeOK
      /\ ctx[s] \in Ctx
  BY DEF RestInv, DangInv, VersionInv, SyncInv, IInv, TypeOK
<1>1. CASE ReconcileSkip(s)
  <2>1. /\ pc'[s] = "idle" /\ UNCHANGED kube
        /\ ~cache[s].exists \/ NeedDeleteLoadBalancer(cache[s])
    BY <1>1 DEF ReconcileSkip
  <2>2. Off(cache[s])
    BY <1>0, <2>1 DEF Heeded, Exists, Versions, Off
  <2>3. ~Caught(s)'
    BY <2>1, <2>2, SameHash DEF Caught
  <2>. QED BY <2>1, <2>3 DEF Current, Found
<1>2. CASE ReconcileStart(s)
  <2>1. PICK x : x = NeedDeleteLoadBalancer(cache[s])
    OBVIOUS
  <2>2. /\ ctx'[s] = [ctx[s] EXCEPT !.clean = x, !.obj = cache[s]]
        /\ pc'[s] \in {"find", "finalizer"} /\ UNCHANGED kube
    BY <1>0, <1>2, <2>1, PassAfter DEF ReconcileStart
  <2>3. ctx'[s].obj = cache[s]
    BY <1>0, <2>2 DEF Ctx
  <2>. QED BY <2>2, <2>3 DEF Current, Found, obj
<1>3. CASE /\ Heeded(s) /\ GetServiceHash(cache'[s]) = GetServiceHash(cache[s])
           /\ eps'[s] = eps[s]
           /\ pc'[s] = "idle" => pc[s] \in {"idle", "rmfinalizer"}
                                 \/ updateServiceStatus(s)
  <2>1. pc'[s] # "idle" => GetServiceHash(ctx'[s].obj) = GetServiceHash(cache'[s])
    BY <1>0, <1>3, WorksOnCurrent DEF Current
  <2>2. pc'[s] \in Found \ Removing => ctx'[s].eps = eps'[s]
    BY <1>0, <1>3, BackendsCurrent DEF Current
  <2>3. ASSUME Caught(s)'
        PROVE  /\ pc'[s] \in {"addstatus", "idle"} => api'[s].hash = GetServiceHash(api'[s])
               /\ pc'[s] = "idle" => /\ api'[s].host # None
                                     /\ Filled(s, api[s].spec.ports, eps[s])'
    <3>1. Caught(s) /\ GetServiceHash(api'[s]) = GetServiceHash(api[s])
      BY <1>3, <2>3, CaughtBack
    <3>2. pc[s] # "rmfinalizer"
      <4>1. api[s] \in Versions(s) /\ ~Off(api[s])
        BY <3>1 DEF Versions, Caught
      <4>2. pc[s] # "idle" => ~Off(obj(s))
        BY <4>1, AllOff
      <4>. QED BY <1>0, <4>2 DEF Ways, Removing
    <3>3. updateServiceStatus(s) => pc[s] = "addstatus"
      BY DEF updateServiceStatus
    <3>4. pc'[s] \in {"addstatus", "idle"} => api'[s].hash = GetServiceHash(api'[s])
      BY <1>3, <3>1, <3>2, <3>3, LabelCurrent
    <3>5. ASSUME pc'[s] = "idle"
          PROVE  api'[s].host # None /\ Filled(s, api[s].spec.ports, eps[s])'
      <4>1. CASE updateServiceStatus(s)
        BY <1>3, <3>1, <4>1, EndsInSync
      <4>2. CASE pc[s] = "idle"
        <5>1. api[s].host # None /\ Filled(s, api[s].spec.ports, eps[s])
          BY <1>0, <1>3, <3>1, <4>2 DEF Current
        <5>2. api'[s].host = api[s].host
          BY <1>0, <4>2, ApiMoves DEF ApiStep
        <5>3. ~GroupWork(s)
          BY <4>2 DEF GroupWork, ServersUnfinished, GroupStep, ListNLBServerGroups,
             VGroupsApplied, UpdateServerGroup, CreateNLBServerGroup,
             TagServerGroup, BatchAddServers, DeleteServerGroup, CleanupDone
        <5>4. PICK ps, b : ps = api[s].spec.ports /\ b = eps[s]
          OBVIOUS
        <5>5. Filled(s, ps, b)'
          BY <1>0, <4>2, <5>1, <5>3, <5>4, FilledStays
        <5>6. api'[s].spec.ports = ps /\ eps'[s] = b
          BY <1>3, <3>1, <5>4, SameHash
        <5>. QED BY <5>1, <5>2, <5>5, <5>6
      <4>. QED BY <1>3, <3>2, <3>5, <4>1, <4>2
    <3>. QED BY <3>4, <3>5
  <2>. QED BY <2>1, <2>2, <2>3 DEF Current, obj
<1>. QED BY <1>0, <1>1, <1>2, <1>3, HeededBack
-----------------------------------------------------------------------------
\* At first every Service that needs a load balancer is queued.
LEMMA SyncInvInit == ASSUME Init PROVE SyncInv
<1>0. PICK sp \in InitSpec :
        api = [s \in Service |->
                 [exists |-> TRUE, spec |-> sp[s], deleting |-> FALSE,
                  finalizer |-> FALSE, hash |-> None, host |-> None]]
  BY DEF Init
<1>. SUFFICES ASSUME NEW s \in Service
              PROVE  /\ Exists(s) /\ Alive(s) /\ Ways(s) /\ Hosts(s)
                     /\ \A v \in Versions(s) : Labelled(v) => Tells(s, v)
                     /\ HasDone(s, pc[s], ctx[s])
                     /\ Current(s)
  BY DEF SyncInv
<1>1. /\ pc[s] = "idle" /\ watch[s] = << >> /\ cache = api
      /\ s \in queue <=> needAdd(api[s])
  BY DEF Init
<1>2. api[s].exists /\ api[s].hash = None /\ api[s].host = None
  BY <1>0
<1>3. Versions(s) = {api[s]}
  BY <1>1 DEF Versions
<1>4. \A l \in LB : nlb[l].by # s
  BY ConstantsAssumption, UserAssumption DEF Init, FreshNlb
<1>5. ~Labelled(api[s])
  <2>1. sp[s] \in Spec
    BY ConstantsAssumption
  <2>2. GetServiceHash(api[s]) \in Hash
    BY <1>0, <2>1 DEF GetServiceHash, Hash
  <2>. QED BY <1>2, <2>2, HashAssumption DEF Labelled
<1>6. Current(s)
  BY <1>1 DEF Current, Heeded, needAdd
<1>7. HasDone(s, pc[s], ctx[s])
  BY <1>1 DEF HasDone, Placed, Serving, Listening, Found, Applying, After
<1>. QED BY <1>1, <1>2, <1>3, <1>4, <1>5, <1>6, <1>7
     DEF Exists, Alive, Ways, Hosts, Removing

\* Every step keeps what Services at rest and passes under way are worth.
LEMMA RestInvStep ==
  ASSUME NEW CONSTANT R, Rules(R), IInv, IInv', RestInv(R), [Next]_vars
  PROVE  RestInv(R)'
<1>1. DangInv(R)'
  BY DangInvStep DEF RestInv, Rules, Forward
<1>2. ShareInv'
  BY ShareInvStep DEF RestInv, Rules, DangInv, VersionInv
<1>3. ASSUME NEW s \in Service
      PROVE  /\ Exists(s)' /\ Alive(s)' /\ Ways(s)' /\ Hosts(s)'
             /\ \A v \in Versions(s)' : Labelled(v) => Tells(s, v)'
             /\ HasDone(s, pc[s], ctx[s])'
             /\ Current(s)'
  <2>1. Exists(s)' /\ Ways(s)'
    BY ExistsStep, WaysStep DEF RestInv, DangInv, VersionInv, SyncInv
  <2>2. Alive(s)' /\ Hosts(s)' /\ Current(s)'
    BY AliveStep, HostsStep, CurrentStep
  <2>3. ASSUME NEW v \in Versions(s)', Labelled(v) PROVE Tells(s, v)'
    BY <2>3, TellsStep
  <2>4. HasDone(s, pc[s], ctx[s])'
    BY PlacedStep, ServingStep, ListeningStep DEF HasDone
  <2>. QED BY <2>1, <2>2, <2>3, <2>4
<1>4. SyncInv'
  BY <1>3 DEF SyncInv
<1>. QED BY <1>1, <1>2, <1>4 DEF RestInv

\* Edits that do not come back and do not turn a load balancer on again.
LEMMA ForwardOrder ==
  ASSUME NeverBack, StaysOff
  PROVE  \E R \in SUBSET (Spec \X Spec) : Forward(R)
<1>1. PICK Q \in SUBSET (Spec \X Spec) : Onwards(Q)
  BY DEF NeverBack
<1>. DEFINE R == {z \in Q : z[1].type = "none" => z[2].type = "none"}
<1>2. R \in SUBSET (Spec \X Spec)
  OBVIOUS
<1>3. \A a, b : <<a, b>> \in R <=> <<a, b>> \in Q /\ (a.type = "none" => b.type = "none")
  OBVIOUS
<1>4. Edit \subseteq R
  BY <1>1 DEF StaysOff, Onwards, Preorder
<1>. HIDE DEF R
<1>5. Preorder(R)
  <2>1. \A a \in Spec : <<a, a>> \in R
    BY <1>1, <1>3 DEF Onwards, Preorder
  <2>2. \A a, b, c \in Spec : <<a, b>> \in R /\ <<b, c>> \in R => <<a, c>> \in R
    BY <1>1, <1>3 DEF Onwards, Preorder
  <2>. QED BY <1>4, <2>1, <2>2 DEF Preorder
<1>6. Forward(R)
  BY <1>1, <1>3, <1>5 DEF Forward, Onwards
<1>. QED BY <1>2, <1>6

\* At rest, label, status, listeners and groups are what the user asks for.
LEMMA RestIsSync ==
  ASSUME NEW CONSTANT R, Rules(R), IInv, RestInv(R) PROVE QuiescentInSync
<1>. SUFFICES ASSUME NEW s \in Service, Settled(s), Wanted(s) PROVE InSync(s)
  BY DEF QuiescentInSync
<1>1. pc[s] = "idle" /\ cache[s] = api[s] /\ s \notin queue
  BY DEF Settled, UpToDate, RestInv, DangInv, VersionInv, Fresh, Last
<1>2. api[s].exists /\ NeedNLB(api[s]) /\ ~Off(api[s])
  BY DEF Wanted, Off, NeedDeleteLoadBalancer, NeedNLB
<1>3. Heeded(s) /\ Caught(s)
  BY <1>1, <1>2 DEF Heeded, Caught
<1>4. /\ api[s].hash = GetServiceHash(api[s]) /\ api[s].host # None
      /\ Filled(s, api[s].spec.ports, eps[s])
  BY <1>1, <1>3 DEF RestInv, SyncInv, Current
<1>5. api[s] \in Versions(s) /\ Labelled(api[s])
  BY <1>2, <1>4 DEF Versions, Labelled
<1>6. PICK l \in LB : l = api[s].host
  BY <1>2, <1>4, <1>5 DEF RestInv, SyncInv, Hosts
<1>7. Target(s, api[s], l)
  BY <1>2, <1>4, <1>5, <1>6 DEF RestInv, SyncInv, Hosts
<1>9. ~nlb[l].going
  <2>1. CASE IsUserManaged(api[s])
    <3>1. l = api[s].spec.id /\ api[s].spec \in UsedSpec /\ l # None
      BY <1>5, <1>7, <2>1, ConstantsAssumption
         DEF Target, RestInv, DangInv, VersionInv, SpecsUsed
    <3>2. l \in UserLB
      BY <3>1 DEF Rules, ReusesUsers
    <3>. QED BY <3>2 DEF IInv, UserNLBKept
  <2>2. CASE ~IsUserManaged(api[s])
    BY <1>2, <1>5, <1>7, <2>2 DEF Target, RestInv, SyncInv, Alive
  <2>. QED BY <2>1, <2>2
<1>8. ASSUME nlb[l].live, ~SkipListeners(api[s]), NEW p \in Port
      PROVE  IF p \in api[s].spec.ports THEN Serves(s, l, p)
             ELSE lis[l][p] # None => lis[l][p].by # s \/ lis[l][p].going
  <2>1. CASE p \in api[s].spec.ports
    <3>1. Owns(s, l, p)
      BY <1>5, <1>7, <1>8, <1>9, <2>1 DEF RestInv, SyncInv, Tells, Listens
    <3>2. PICK g \in Group : g = lis[l][p].group
      BY <3>1 DEF RestInv, DangInv, ListenInv, ListensOn, Owns, HasLis
    <3>3. grp[g].live /\ grp[g].svc = s /\ grp[g].tag = s /\ grp[g].port = p
      BY <3>1, <3>2 DEF RestInv, DangInv, ListenInv, ListensOn, Owns, HasLis
    <3>4. PICK b \in {eps[s], Unfinished} : grp[g].servers = b
      BY <1>4, <2>1, <3>3 DEF Filled
    <3>5. grp[g] \in ServerGroup /\ g # None
      BY ConstantsAssumption DEF IInv, TypeOK
    <3>6. grp[g] = [live |-> TRUE, svc |-> s, port |-> p, tag |-> s, servers |-> b]
      BY <3>3, <3>4, <3>5 DEF ServerGroup
    <3>. QED BY <2>1, <3>1, <3>2, <3>5, <3>6 DEF Serves, Owns, HasLis, Going
  <2>2. CASE p \notin api[s].spec.ports
    <3>1. ASSUME Owns(s, l, p) PROVE p \in LocalPorts(api[s])
      BY <1>4, <1>5, <3>1 DEF RestInv, DangInv, ListenInv, Matches
    <3>. QED BY <1>2, <1>9, <2>2, <3>1 DEF LocalPorts, Off, Owns, HasLis, Going
  <2>. QED BY <2>1, <2>2
<1>. QED BY <1>6, <1>7, <1>8 DEF InSync, Target

(***************************************************************************)
(* A Service that nothing is pending for is in sync: its status names its  *)
(* load balancer, each of its ports has a listener that forwards to a      *)
(* group with the backends of the moment, and no other port has one to     *)
(* stay.  Only a group whose last job was not over when the pass went on   *)
(* may hold something else.  The hash label that lets a pass skip the load *)
(* balancer and the listeners, failures, unfinished jobs and restarts      *)
(* halfway, and events that overtake a pass do not get in the way, under   *)
(* the hypotheses on what users may do.                                    *)
(***************************************************************************)
THEOREM RestsInSync ==
  ASSUME Unnamed, NeverBack, StaysOff, PortsApart, ReusesUsers, OwnStay
  PROVE  Behaviour => []QuiescentInSync
<1>0. PICK R \in SUBSET (Spec \X Spec) : Forward(R)
  BY ForwardOrder
<1>. DEFINE Inv == RestInv(R)
<1>1. Init => Inv
  BY <1>0, DangInvInit, ShareInvInit, SyncInvInit DEF RestInv, Forward, Onwards
<1>4. Rules(R)
  BY <1>0 DEF Rules
<1>2. IInv /\ IInv' /\ Inv /\ [Next]_vars => Inv'
  BY <1>4, RestInvStep
<1>3. IInv /\ Inv => QuiescentInSync
  BY <1>4, RestIsSync
<1>. HIDE DEF Inv
<1>. QED BY <1>1, <1>2, <1>3, Invariance, PTL DEF Behaviour
=============================================================================
