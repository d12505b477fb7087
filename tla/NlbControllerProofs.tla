------------------------ MODULE NlbControllerProofs ------------------------
(***************************************************************************)
(* Proofs about the NLB controller, for every set of Services, ports, load *)
(* balancers and groups, every relation of edits and every number of       *)
(* failures: type correctness, and that load balancers of the user are     *)
(* neither deleted nor changed against force-override-listeners.           *)
(***************************************************************************)
EXTENDS NlbController, TLAPS

USE DEF kube, cloud
-----------------------------------------------------------------------------
(***************************************************************************)
(* Record updates stay in their record sets.                               *)
(***************************************************************************)
\* Updates of a Service by the user or by a patch of the controller.
LEMMA ObjectUpdate ==
  ASSUME NEW o \in Object, NEW b \in BOOLEAN, NEW c \in BOOLEAN,
         NEW sp \in Spec, NEW h \in Hash \cup {None}, NEW n \in Host
  PROVE  /\ [o EXCEPT !.spec = sp] \in Object
         /\ [o EXCEPT !.deleting = b] \in Object
         /\ [o EXCEPT !.exists = b] \in Object
         /\ [o EXCEPT !.finalizer = b] \in Object
         /\ [o EXCEPT !.finalizer = b, !.exists = c] \in Object
         /\ [o EXCEPT !.hash = h] \in Object
         /\ [o EXCEPT !.host = n] \in Object
  BY DEF Object

\* Same(c, d): a pass went on with the Service and load balancer it had.
Same(c, d) == d \in Ctx /\ d.lb = c.lb /\ d.obj = c.obj

\* What AddFinalizers reads.
LEMMA ObjLearnt ==
  ASSUME NEW c \in Ctx, NEW o \in Object
  PROVE  /\ [c EXCEPT !.obj = o] \in Ctx
         /\ [c EXCEPT !.obj = o].obj = o
         /\ [c EXCEPT !.obj = o].lb = c.lb
  BY DEF Ctx

\* What a pass knows after it created or deleted the load balancer.
LEMMA LBLearnt ==
  ASSUME NEW c \in Ctx, NEW l \in LB \cup {None}
  PROVE  /\ [c EXCEPT !.lb = l] \in Ctx
         /\ [c EXCEPT !.lb = l].obj = c.obj
         /\ [c EXCEPT !.lb = l].lb = l
  BY DEF Ctx

\* The fields of a context that the invariant speaks of, after each update.
LEMMA CtxFields ==
  ASSUME NEW c \in Ctx
  PROVE  /\ c.lb \in LB \cup {None} /\ c.obj \in Object \cup {None}
         /\ c.eps \in Backends \cup {None}
         /\ c.sgs \subseteq Group /\ c.todo \subseteq Port
         /\ c.seen \subseteq Port /\ c.clean \in BOOLEAN
         /\ \A p \in Port : c.bind[p] \in Group \cup {None}
  BY DEF Ctx

\* The fields of a Service.
LEMMA ObjectFields ==
  ASSUME NEW o \in Object
  PROVE  /\ o.spec \in Spec /\ o.exists \in BOOLEAN /\ o.deleting \in BOOLEAN
         /\ o.finalizer \in BOOLEAN /\ o.hash \in Hash \cup {None}
         /\ o.host \in Host /\ GetServiceHash(o) \in Hash
         /\ LocalPorts(o) \subseteq Port
<1>1. /\ o.spec \in Spec /\ o.exists \in BOOLEAN /\ o.deleting \in BOOLEAN
      /\ o.finalizer \in BOOLEAN /\ o.hash \in Hash \cup {None}
      /\ o.host \in Host
  BY DEF Object
<1>2. GetServiceHash(o) \in Hash
  BY <1>1 DEF GetServiceHash, Hash
<1>3. LocalPorts(o) \subseteq Port
  BY <1>1 DEF LocalPorts, Spec
<1>. QED BY <1>1, <1>2, <1>3

\* Updates of a load balancer.
LEMMA NlbUpdate ==
  ASSUME NEW n \in Nlb, NEW b \in BOOLEAN, NEW u \in Service \cup {User, None},
         NEW t \in Service \cup {None}
  PROVE  /\ [n EXCEPT !.live = b] \in Nlb
         /\ [n EXCEPT !.live = b, !.going = b] \in Nlb
         /\ [n EXCEPT !.live = b, !.going = b, !.by = u] \in Nlb
         /\ [n EXCEPT !.going = b] \in Nlb
         /\ [n EXCEPT !.tag = t] \in Nlb
         /\ [n EXCEPT !.name = t] \in Nlb
  BY DEF Nlb

\* Updates of a server group.
LEMMA GroupUpdate ==
  ASSUME NEW g \in ServerGroup, NEW b \in BOOLEAN, NEW t \in Service \cup {None},
         NEW e \in Backends \cup {None, Unfinished}
  PROVE  /\ [g EXCEPT !.live = b] \in ServerGroup
         /\ [g EXCEPT !.tag = t] \in ServerGroup
         /\ [g EXCEPT !.servers = e] \in ServerGroup
  BY DEF ServerGroup

\* A pass starts from an empty context.
LEMMA FreshCtxType == FreshCtx \in Ctx /\ FreshCtx.lb = None
  BY DEF FreshCtx, Ctx
-----------------------------------------------------------------------------
(***************************************************************************)
(* The building blocks of the actions.                                     *)
(***************************************************************************)
\* What one write to the API server preserves.
LEMMA WriteType ==
  ASSUME TypeOK, NEW s \in Service, NEW o \in Object, Write(s, o)
  PROVE  api' \in [Service -> Object] /\ watch' \in [Service -> Seq(Object)]
  BY DEF TypeOK, Write

\* One pass moves on; the others stay where they are.
LEMMA PassMove ==
  ASSUME TypeOK, PassesOK, NEW s \in Service, NEW to \in PC, NEW c \in Ctx,
         pc' = [pc EXCEPT ![s] = to], ctx' = [ctx EXCEPT ![s] = c],
         PassAt(to, c)
  PROVE  pc' \in [Service -> PC] /\ ctx' \in [Service -> Ctx] /\ PassesOK'
<1>1. pc' \in [Service -> PC] /\ ctx' \in [Service -> Ctx]
  BY DEF TypeOK
<1>2. ASSUME NEW r \in Service PROVE PassAt(pc'[r], ctx'[r])
  <2>1. CASE r = s
    BY <2>1 DEF TypeOK
  <2>2. CASE r # s
    BY <2>2 DEF TypeOK, PassesOK
  <2>. QED BY <2>1, <2>2
<1>. QED BY <1>1, <1>2 DEF PassesOK

\* The end of a pass, with or without an error.
LEMMA PassEnd ==
  ASSUME TypeOK, PassesOK, NEW s \in Service, Return(s) \/ ReturnError(s)
  PROVE  /\ queue' \subseteq Service
         /\ pc' \in [Service -> PC]
         /\ ctx' \in [Service -> Ctx]
         /\ PassesOK'
<1>1. queue' \subseteq Service
  BY DEF TypeOK, Return, ReturnError
<1>2. PassAt("idle", FreshCtx)
  BY FreshCtxType, ConstantsAssumption DEF PassAt
<1>3. pc' = [pc EXCEPT ![s] = "idle"] /\ ctx' = [ctx EXCEPT ![s] = FreshCtx]
  BY DEF Return, ReturnError, Goto, Learn
<1>. QED BY <1>1, <1>2, <1>3, PassMove, FreshCtxType DEF PC

\* Steps that leave load balancers alone.
LEMMA NLBUnchanged ==
  ASSUME UserNLBUnmarked, UserNLBKept, UNCHANGED nlb
  PROVE  UserNLBUnmarked' /\ UserNLBKept'
  BY DEF UserNLBUnmarked, UserNLBKept

\* A pass goes on with the Service and the load balancer it had.
LEMMA PassGoesOn ==
  ASSUME TypeOK, PassesOK, NEW s \in Service, NEW to \in PC, NEW d,
         pc' = [pc EXCEPT ![s] = to], ctx' = [ctx EXCEPT ![s] = d],
         Same(ctx[s], d), pc[s] \notin {"idle", "finalizer", "find"},
         to \notin {"idle", "finalizer", "find", "taglb"},
         to \in {"listeners", "dellis", "putlis"} => ctx[s].lb \in LB,
         to \in {"dellis", "putlis"} => ~SkipListeners(obj(s))
  PROVE  pc' \in [Service -> PC] /\ ctx' \in [Service -> Ctx] /\ PassesOK'
<1>1. PassAt(pc[s], ctx[s])
  BY DEF PassesOK
<1>2. PassAt(to, d)
  BY <1>1 DEF PassAt, Same, obj
<1>. QED BY <1>2, PassMove DEF Same

\* A step of a pass that only changes pc.
LEMMA PassSkips ==
  ASSUME TypeOK, PassesOK, NEW s \in Service, NEW to \in PC,
         Goto(s, to), UNCHANGED ctx,
         pc[s] \notin {"idle", "finalizer", "find"},
         to \notin {"idle", "finalizer", "find", "taglb"},
         to \in {"listeners", "dellis", "putlis"} => ctx[s].lb \in LB,
         to \in {"dellis", "putlis"} => ~SkipListeners(obj(s))
  PROVE  pc' \in [Service -> PC] /\ ctx' \in [Service -> Ctx] /\ PassesOK'
<1>1. ctx' = [ctx EXCEPT ![s] = ctx[s]] /\ Same(ctx[s], ctx[s])
  BY DEF TypeOK, Same
<1>. QED BY <1>1, PassGoesOn DEF Goto

\* A step of a loop that stays where it is.
LEMMA PassStays ==
  ASSUME TypeOK, PassesOK, NEW s \in Service, NEW d, Learn(s, d), UNCHANGED pc,
         Same(ctx[s], d), pc[s] \notin {"idle", "finalizer", "find", "taglb"}
  PROVE  ctx' \in [Service -> Ctx] /\ PassesOK'
<1>1. pc' = [pc EXCEPT ![s] = pc[s]] /\ pc[s] \in PC
  BY DEF TypeOK
<1>2. PassAt(pc[s], ctx[s])
  BY DEF PassesOK
<1>3. /\ pc[s] \in {"listeners", "dellis", "putlis"} => ctx[s].lb \in LB
      /\ pc[s] \in {"dellis", "putlis"} => ~SkipListeners(obj(s))
  BY <1>2 DEF PassAt, obj
<1>. QED BY <1>1, <1>3, PassGoesOn DEF Learn
-----------------------------------------------------------------------------
(***************************************************************************)
(* Each group of actions preserves the invariant.                          *)
(***************************************************************************)
\* The initial states satisfy the invariant.
LEMMA IInvInit == Init => IInv
<1>. SUFFICES ASSUME Init PROVE IInv
  OBVIOUS
<1>. USE ConstantsAssumption
<1>1. api \in [Service -> Object]
  BY DEF Init, Object, Host
<1>2. nlb \in [LB -> Nlb] /\ UserNLBUnmarked /\ UserNLBKept
  BY DEF Init, Nlb, FreshNlb, UserNLBUnmarked, UserNLBKept
<1>3. grp \in [Group -> ServerGroup]
  BY DEF Init, ServerGroup, FreshGroup
<1>4. lis \in [LB -> [Port -> Listener \cup {None}]]
  BY DEF Init, Listener
<1>5. PassAt("idle", FreshCtx)
  BY FreshCtxType DEF PassAt
<1>6. PassesOK /\ pc \in [Service -> PC] /\ ctx \in [Service -> Ctx]
  BY <1>5, FreshCtxType DEF Init, PassesOK, PC
<1>7. TypeOK
  <2>1. /\ watch \in [Service -> Seq(Object)] /\ cache \in [Service -> Object]
        /\ eps \in [Service -> Backends] /\ queue \subseteq Service
    BY <1>1 DEF Init
  <2>2. faults \in 0..MaxFaults /\ edits \in 0..MaxEdits
    BY BoundsAssumption DEF Init
  <2>. QED BY <1>1, <1>2, <1>3, <1>4, <1>6, <2>1, <2>2 DEF TypeOK
<1>. QED BY <1>2, <1>6, <1>7 DEF IInv

\* The user, the informers, failures and restarts.
LEMMA EnvironmentStep ==
  ASSUME IInv,
         \/ \E s \in Service : ServiceEvent(s) \/ CallFails(s)
         \/ Restart
         \/ UserAction
  PROVE  IInv'
<1>. USE ConstantsAssumption, BoundsAssumption DEF IInv
<1>1. ASSUME NEW s \in Service, ServiceEvent(s) PROVE IInv'
  <2>1. /\ cache' \in [Service -> Object]
        /\ watch' \in [Service -> Seq(Object)]
        /\ queue' \subseteq Service
    BY <1>1 DEF ServiceEvent, TypeOK
  <2>2. PassesOK'
    BY <1>1 DEF ServiceEvent, PassesOK
  <2>. QED BY <1>1, <2>1, <2>2, NLBUnchanged DEF ServiceEvent, TypeOK
<1>2. ASSUME NEW s \in Service, CallFails(s) PROVE IInv'
  <2>1. /\ queue' \subseteq Service /\ pc' \in [Service -> PC]
        /\ ctx' \in [Service -> Ctx] /\ PassesOK'
    BY <1>2, PassEnd DEF CallFails
  <2>. QED BY <1>2, <2>1, NLBUnchanged DEF CallFails, TypeOK
<1>3. CASE Restart
  <2>1. PassAt("idle", FreshCtx)
    BY FreshCtxType DEF PassAt
  <2>2. PassesOK' /\ pc' \in [Service -> PC] /\ ctx' \in [Service -> Ctx]
    BY <1>3, <2>1, FreshCtxType DEF Restart, PassesOK, PC
  <2>3. /\ watch' \in [Service -> Seq(Object)] /\ queue' \subseteq Service
        /\ cache' \in [Service -> Object]
    BY <1>3 DEF Restart, TypeOK
  <2>. QED BY <1>3, <2>2, <2>3, NLBUnchanged DEF Restart, TypeOK
<1>4. ASSUME NEW s \in Service, EditService(s) \/ DeleteService(s) PROVE IInv'
  <2>1. PICK o \in Object : Write(s, o)
    <3>0. api[s] \in Object
      BY DEF TypeOK
    <3>1. CASE EditService(s)
      BY <3>0, <3>1, ObjectUpdate, ObjectFields DEF EditService, Host
    <3>2. CASE DeleteService(s)
      BY <3>0, <3>2, ObjectUpdate, ObjectFields DEF DeleteService, Host
    <3>. QED BY <1>4, <3>1, <3>2
  <2>2. api' \in [Service -> Object] /\ watch' \in [Service -> Seq(Object)]
    BY <2>1, WriteType
  <2>3. PassesOK'
    BY <1>4 DEF EditService, DeleteService, PassesOK
  <2>. QED BY <1>4, <2>2, <2>3, NLBUnchanged DEF EditService, DeleteService, TypeOK
<1>5. ASSUME NEW s \in Service, BackendsChange(s) PROVE IInv'
  <2>1. PassesOK'
    BY <1>5 DEF BackendsChange, PassesOK
  <2>. QED BY <1>5, <2>1, NLBUnchanged DEF BackendsChange, TypeOK
<1>6. ASSUME NEW l \in LB, ConsoleDeleteNLB(l) PROVE IInv'
  <2>1. PassesOK'
    BY <1>6 DEF ConsoleDeleteNLB, PassesOK
  <2>2. nlb' \in [LB -> Nlb]
    <3>1. nlb[l] \in Nlb /\ nlb[l].by \in Service \cup {User, None}
      BY DEF TypeOK, Nlb
    <3>. DEFINE u == IF l \in UserLB THEN None ELSE nlb[l].by
    <3>2. u \in Service \cup {User, None}
      BY <3>1
    <3>3. [nlb[l] EXCEPT !.live = FALSE, !.going = FALSE, !.by = u] \in Nlb
      BY <3>1, <3>2, NlbUpdate
    <3>4. nlb' = [nlb EXCEPT ![l] =
                    [nlb[l] EXCEPT !.live = FALSE, !.going = FALSE, !.by = u]]
      BY <1>6 DEF ConsoleDeleteNLB
    <3>. QED BY <3>3, <3>4 DEF TypeOK
  <2>3. lis' \in [LB -> [Port -> Listener \cup {None}]]
    BY <1>6 DEF ConsoleDeleteNLB, TypeOK
  <2>4. UserNLBUnmarked' /\ UserNLBKept'
    <3>1. ASSUME NEW k \in UserLB
          PROVE  /\ nlb'[k].tag = None /\ nlb'[k].name = None
                 /\ nlb'[k].by \in {User, None}
                 /\ nlb'[k].by = User => nlb'[k].live
                 /\ ~nlb'[k].going
      <4>1. nlb[k] \in Nlb
        BY DEF TypeOK
      <4>2. CASE k = l
        BY <1>6, <4>1, <4>2, UserAssumption
           DEF ConsoleDeleteNLB, TypeOK, Nlb, UserNLBUnmarked
      <4>3. CASE k # l
        BY <1>6, <4>1, <4>3 DEF ConsoleDeleteNLB, TypeOK, UserNLBUnmarked, UserNLBKept
      <4>. QED BY <4>2, <4>3
    <3>. QED BY <3>1 DEF UserNLBUnmarked, UserNLBKept
  <2>. QED BY <1>6, <2>1, <2>2, <2>3, <2>4 DEF ConsoleDeleteNLB, TypeOK
<1>. QED BY <1>1, <1>2, <1>3, <1>4, <1>5, <1>6 DEF UserAction

\* Taking a key from the queue; adding and removing the finalizer.
LEMMA FinalizerSteps ==
  ASSUME IInv, NEW s \in Service,
         \/ ReconcileSkip(s) \/ ReconcileStart(s)
         \/ FinalizerStep(s) \/ RemoveFinalizersLost(s)
  PROVE  IInv'
<1>. USE ConstantsAssumption DEF IInv
<1>0. /\ api[s] \in Object /\ cache[s] \in Object /\ ctx[s] \in Ctx
      /\ PassAt(pc[s], ctx[s])
  BY DEF TypeOK, PassesOK
<1>1. CASE ReconcileSkip(s)
  <2>1. PassesOK'
    BY <1>1 DEF ReconcileSkip, PassesOK
  <2>. QED BY <1>1, <2>1, NLBUnchanged DEF ReconcileSkip, TypeOK
<1>2. CASE ReconcileStart(s)
  <2>. DEFINE clean == NeedDeleteLoadBalancer(cache[s])
              c == [ctx[s] EXCEPT !.clean = clean, !.obj = cache[s]]
              to == IF clean THEN "find" ELSE "finalizer"
  <2>1. clean \in BOOLEAN
    BY DEF NeedDeleteLoadBalancer
  <2>. HIDE DEF clean
  <2>2. c \in Ctx /\ c.obj = cache[s] /\ c.lb = ctx[s].lb
    BY <1>0, <2>1 DEF Ctx
  <2>3. PassAt(to, c)
    BY <1>0, <1>2, <2>2 DEF PassAt, ReconcileStart
  <2>4. to \in PC
    BY DEF PC
  <2>5. pc' = [pc EXCEPT ![s] = to] /\ ctx' = [ctx EXCEPT ![s] = c]
    BY <1>2 DEF ReconcileStart, Goto, Learn, clean
  <2>6. pc' \in [Service -> PC] /\ ctx' \in [Service -> Ctx] /\ PassesOK'
    BY <2>2, <2>3, <2>4, <2>5, PassMove
  <2>. QED BY <1>2, <2>6, NLBUnchanged DEF ReconcileStart, TypeOK
<1>3. ASSUME NEW o \in Object, Learn(s, [ctx[s] EXCEPT !.obj = o]),
             Goto(s, "find"), pc[s] = "finalizer"
      PROVE  pc' \in [Service -> PC] /\ ctx' \in [Service -> Ctx] /\ PassesOK'
  <2>. DEFINE c == [ctx[s] EXCEPT !.obj = o]
  <2>1. c \in Ctx /\ c.obj = o /\ c.lb = ctx[s].lb
    BY <1>0, ObjLearnt
  <2>2. PassAt("find", c)
    BY <1>0, <1>3, <2>1 DEF PassAt
  <2>. QED BY <1>3, <2>1, <2>2, PassMove DEF PC, Goto, Learn
<1>4. CASE AddFinalizersHas(s)
  BY <1>0, <1>3, <1>4, NLBUnchanged DEF AddFinalizersHas, TypeOK
<1>5. CASE AddFinalizersPatch(s)
  <2>1. [api[s] EXCEPT !.finalizer = TRUE] \in Object
    BY <1>0, ObjectUpdate, ObjectFields
  <2>2. api' \in [Service -> Object] /\ watch' \in [Service -> Seq(Object)]
    BY <1>5, <2>1, WriteType DEF AddFinalizersPatch
  <2>3. api'[s] \in Object
    BY <2>2
  <2>4. pc' \in [Service -> PC] /\ ctx' \in [Service -> Ctx] /\ PassesOK'
    BY <1>3, <1>5, <2>3 DEF AddFinalizersPatch
  <2>. QED BY <1>5, <2>2, <2>4, NLBUnchanged DEF AddFinalizersPatch, TypeOK
<1>6. CASE AddFinalizersError(s) \/ RemoveFinalizersHasNot(s) \/ RemoveFinalizersError(s)
  <2>1. Return(s) \/ ReturnError(s)
    BY <1>6 DEF AddFinalizersError, RemoveFinalizersHasNot, RemoveFinalizersError
  <2>2. /\ queue' \subseteq Service /\ pc' \in [Service -> PC]
        /\ ctx' \in [Service -> Ctx] /\ PassesOK'
    BY <2>1, PassEnd
  <2>. QED BY <1>6, <2>2, NLBUnchanged
       DEF AddFinalizersError, RemoveFinalizersHasNot, RemoveFinalizersError, TypeOK
<1>7. CASE RemoveFinalizersPatch(s) \/ RemoveFinalizersLost(s)
  <2>1. [api[s] EXCEPT !.finalizer = FALSE, !.exists = ~api[s].deleting] \in Object
    BY <1>0, ObjectUpdate, ObjectFields
  <2>2. api' \in [Service -> Object] /\ watch' \in [Service -> Seq(Object)]
    BY <1>7, <2>1, WriteType DEF RemoveFinalizersPatch, RemoveFinalizersLost
  <2>3. /\ queue' \subseteq Service /\ pc' \in [Service -> PC]
        /\ ctx' \in [Service -> Ctx] /\ PassesOK'
    BY <1>7, PassEnd DEF RemoveFinalizersPatch, RemoveFinalizersLost
  <2>4. faults' \in 0..MaxFaults
    BY <1>7, BoundsAssumption DEF RemoveFinalizersPatch, RemoveFinalizersLost, TypeOK
  <2>. QED BY <1>7, <2>2, <2>3, <2>4, NLBUnchanged
       DEF RemoveFinalizersPatch, RemoveFinalizersLost, TypeOK
<1>. QED BY <1>1, <1>2, <1>4, <1>5, <1>6, <1>7 DEF FinalizerStep

\* Looking the load balancer up, creating, updating and deleting it.
LEMMA LoadBalancerSteps ==
  ASSUME IInv, NEW s \in Service, LoadBalancerStep(s) \/ CreateNLBLost(s)
  PROVE  IInv'
<1>. USE ConstantsAssumption, BoundsAssumption DEF IInv, obj
<1>0. /\ ctx[s] \in Ctx /\ PassAt(pc[s], ctx[s])
      /\ ctx[s].lb \in LB \cup {None} /\ eps[s] \in Backends
  BY CtxFields DEF TypeOK, PassesOK
<1>1. CASE FindNLB(s)
  <2>1. PICK l \in LB \cup {None} :
          /\ Learn(s, [ctx[s] EXCEPT !.lb = l, !.eps = eps[s]])
          /\ l \in UserLB => IsUserManaged(ctx[s].obj)
    <3>1. CASE \E l \in LB : /\ Candidates(s) = {l}
                             /\ Learn(s, [ctx[s] EXCEPT !.lb = l, !.eps = eps[s]])
      <4>1. PICK l \in LB : /\ Candidates(s) = {l}
                            /\ Learn(s, [ctx[s] EXCEPT !.lb = l, !.eps = eps[s]])
        BY <3>1
      <4>2. l \in UserLB => nlb[l].tag # s /\ nlb[l].name # s
        BY DEF UserNLBUnmarked
      <4>3. ~IsUserManaged(ctx[s].obj) => l \notin UserLB
        BY <4>1, <4>2 DEF Candidates
      <4>. QED BY <4>1, <4>3
    <3>2. CASE Learn(s, [ctx[s] EXCEPT !.lb = None, !.eps = eps[s]])
      BY <3>2
    <3>. QED BY <1>1, <3>1, <3>2 DEF FindNLB
  <2>. DEFINE c == [ctx[s] EXCEPT !.lb = l, !.eps = eps[s]]
              to == AfterFind(ctx[s].obj)
  <2>2. c \in Ctx /\ c.obj = ctx[s].obj /\ c.lb = l
    BY <1>0 DEF Ctx
  <2>3. to \in {"lbattr", "groups"}
    BY DEF AfterFind
  <2>4. PassAt(to, c)
    BY <1>0, <1>1, <2>1, <2>2, <2>3 DEF PassAt, FindNLB
  <2>5. pc' = [pc EXCEPT ![s] = to] /\ ctx' = [ctx EXCEPT ![s] = c] /\ to \in PC
    BY <1>1, <2>1, <2>3 DEF FindNLB, Goto, Learn, PC
  <2>6. pc' \in [Service -> PC] /\ ctx' \in [Service -> Ctx] /\ PassesOK'
    BY <2>2, <2>4, <2>5, PassMove
  <2>. QED BY <1>1, <2>6, NLBUnchanged DEF FindNLB, TypeOK
<1>2. CASE FindNLBGone(s)
  <2>1. CASE ReturnError(s)
    <3>1. /\ queue' \subseteq Service /\ pc' \in [Service -> PC]
          /\ ctx' \in [Service -> Ctx] /\ PassesOK'
      BY <2>1, PassEnd
    <3>. QED BY <1>2, <3>1, NLBUnchanged DEF FindNLBGone, TypeOK
  <2>2. CASE Goto(s, "rmlabels") /\ UNCHANGED <<queue, ctx>>
    <3>1. PassAt("rmlabels", ctx[s])
      BY <1>0, <1>2 DEF PassAt, FindNLBGone
    <3>2. ctx' = [ctx EXCEPT ![s] = ctx[s]] /\ pc' = [pc EXCEPT ![s] = "rmlabels"]
      BY <2>2 DEF TypeOK, Goto
    <3>3. pc' \in [Service -> PC] /\ ctx' \in [Service -> Ctx] /\ PassesOK'
      BY <1>0, <3>1, <3>2, PassMove DEF PC
    <3>. QED BY <1>2, <2>2, <3>3, NLBUnchanged DEF FindNLBGone, TypeOK
  <2>. QED BY <1>2, <2>1, <2>2 DEF FindNLBGone
<1>3. CASE DeleteNLB(s)
  <2>. DEFINE c == [ctx[s] EXCEPT !.lb = None]
  <2>1. c \in Ctx /\ c.obj = ctx[s].obj /\ c.lb = None
    BY <1>0, LBLearnt
  <2>2. PassAt("groups", c)
    BY <1>0, <1>3, <2>1 DEF PassAt, DeleteNLB, CanDeleteNLB
  <2>3. pc' \in [Service -> PC] /\ ctx' \in [Service -> Ctx] /\ PassesOK'
    BY <1>3, <2>1, <2>2, PassMove DEF DeleteNLB, Goto, Learn, PC
  <2>4. ctx[s].lb \in LB \ UserLB
    BY <1>0, <1>3 DEF DeleteNLB, CanDeleteNLB, SkipDelete, PassAt
  <2>5. nlb' \in [LB -> Nlb]
    <3>1. nlb' = [nlb EXCEPT ![ctx[s].lb] =
                    [nlb[ctx[s].lb] EXCEPT !.live = FALSE, !.going = FALSE]]
      BY <1>3, <2>4 DEF DeleteNLB, TypeOK
    <3>2. [nlb[ctx[s].lb] EXCEPT !.live = FALSE, !.going = FALSE] \in Nlb
      BY <2>4, NlbUpdate DEF TypeOK
    <3>. QED BY <3>1, <3>2 DEF TypeOK
  <2>6. lis' \in [LB -> [Port -> Listener \cup {None}]]
    BY <1>3 DEF DeleteNLB, TypeOK
  <2>7. \A k \in UserLB : nlb'[k] = nlb[k]
    BY <1>3, <2>4 DEF DeleteNLB, TypeOK
  <2>8. UserNLBUnmarked' /\ UserNLBKept'
    BY <2>7 DEF UserNLBUnmarked, UserNLBKept
  <2>. QED BY <1>3, <2>3, <2>5, <2>6, <2>8 DEF DeleteNLB, TypeOK
<1>4. CASE DeleteNLBSkip(s)
  <2>1. pc' \in [Service -> PC] /\ ctx' \in [Service -> Ctx] /\ PassesOK'
    BY <1>4, PassSkips DEF DeleteNLBSkip, PC
  <2>. QED BY <1>4, <2>1, NLBUnchanged DEF DeleteNLBSkip, TypeOK
<1>5. CASE CreateNLBRefused(s) \/ UpdateNLBRefused(s)
  <2>1. /\ queue' \subseteq Service /\ pc' \in [Service -> PC]
        /\ ctx' \in [Service -> Ctx] /\ PassesOK'
    BY <1>5, PassEnd DEF CreateNLBRefused, UpdateNLBRefused
  <2>. QED BY <1>5, <2>1, NLBUnchanged DEF CreateNLBRefused, UpdateNLBRefused, TypeOK
<1>6. ASSUME NEW l \in LB, FreeLB(l), NewNLB(s, l)
      PROVE  nlb' \in [LB -> Nlb] /\ UserNLBUnmarked' /\ UserNLBKept'
  <2>1. nlb' \in [LB -> Nlb]
    BY <1>6 DEF NewNLB, TypeOK, Nlb
  <2>2. \A k \in UserLB : nlb'[k] = nlb[k]
    BY <1>6 DEF NewNLB, FreeLB, TypeOK
  <2>. QED BY <2>1, <2>2 DEF UserNLBUnmarked, UserNLBKept
<1>7. CASE CreateNLB(s)
  <2>1. PICK l \in LB : /\ FreeLB(l) /\ NewNLB(s, l)
                        /\ Learn(s, [ctx[s] EXCEPT !.lb = l])
    BY <1>7 DEF CreateNLB
  <2>. DEFINE c == [ctx[s] EXCEPT !.lb = l]
  <2>2. c \in Ctx /\ c.obj = ctx[s].obj /\ c.lb = l
    BY <1>0, LBLearnt
  <2>4. PassAt("taglb", c)
    BY <1>0, <1>7, <2>1, <2>2 DEF PassAt, CreateNLB, CanCreateNLB, FreeLB
  <2>5. pc' \in [Service -> PC] /\ ctx' \in [Service -> Ctx] /\ PassesOK'
    BY <1>7, <2>1, <2>2, <2>4, PassMove DEF CreateNLB, Goto, Learn, PC
  <2>. QED BY <1>6, <1>7, <2>1, <2>5 DEF CreateNLB, TypeOK
<1>8. CASE CreateNLBLost(s)
  <2>1. /\ queue' \subseteq Service /\ pc' \in [Service -> PC]
        /\ ctx' \in [Service -> Ctx] /\ PassesOK'
    BY <1>8, PassEnd DEF CreateNLBLost
  <2>. QED BY <1>6, <1>8, <2>1 DEF CreateNLBLost, TypeOK
<1>9. CASE TagNLBResource(s)
  <2>1. pc' \in [Service -> PC] /\ ctx' \in [Service -> Ctx] /\ PassesOK'
    BY <1>9, PassSkips DEF TagNLBResource, PC
  <2>2. ctx[s].lb \in LB \ UserLB
    BY <1>0, <1>9 DEF TagNLBResource, PassAt
  <2>3. nlb' \in [LB -> Nlb]
    BY <1>9, NlbUpdate DEF TagNLBResource, TypeOK
  <2>4. \A k \in UserLB : nlb'[k] = nlb[k]
    BY <1>9, <2>2 DEF TagNLBResource, TypeOK
  <2>5. UserNLBUnmarked' /\ UserNLBKept'
    BY <2>4 DEF UserNLBUnmarked, UserNLBKept
  <2>. QED BY <1>9, <2>1, <2>3, <2>5 DEF TagNLBResource, TypeOK
<1>10. CASE UpdateNLB(s)
  <2>1. pc' \in [Service -> PC] /\ ctx' \in [Service -> Ctx] /\ PassesOK'
    BY <1>10, PassSkips DEF UpdateNLB, PC
  <2>. DEFINE l == ctx[s].lb
              n == IF obj(s).spec.named THEN None ELSE nlb[l].name
  <2>2. l \in LB /\ nlb[l] \in Nlb /\ n \in Service \cup {None}
    BY <1>0, <1>10 DEF UpdateNLB, TypeOK, Nlb
  <2>3. nlb' = [nlb EXCEPT ![l] = [nlb[l] EXCEPT !.name = n]]
    BY <1>10 DEF UpdateNLB
  <2>4. nlb' \in [LB -> Nlb]
    BY <2>2, <2>3, NlbUpdate DEF TypeOK
  <2>5. ASSUME NEW k \in UserLB
        PROVE  /\ nlb'[k].tag = nlb[k].tag /\ nlb'[k].by = nlb[k].by
               /\ nlb'[k].live = nlb[k].live /\ nlb'[k].going = nlb[k].going
               /\ nlb[k].name = None => nlb'[k].name = None
    BY <2>2, <2>3 DEF TypeOK, Nlb
  <2>6. UserNLBUnmarked' /\ UserNLBKept'
    BY <2>5 DEF UserNLBUnmarked, UserNLBKept
  <2>. QED BY <1>10, <2>1, <2>4, <2>6 DEF UpdateNLB, TypeOK
<1>. QED BY <1>1, <1>2, <1>3, <1>4, <1>5, <1>7, <1>8, <1>9, <1>10
     DEF LoadBalancerStep

\* Server groups: create, tag, fill, update, delete.
LEMMA GroupSteps ==
  ASSUME IInv, NEW s \in Service,
         GroupStep(s) \/ \E p \in Port : CreateNLBServerGroupLost(s, p)
  PROVE  IInv'
<1>. USE ConstantsAssumption, BoundsAssumption DEF IInv, obj
<1>0. /\ ctx[s] \in Ctx /\ PassAt(pc[s], ctx[s])
      /\ ctx[s].lb \in LB \cup {None} /\ ctx[s].todo \subseteq Port
      /\ ctx[s].sgs \subseteq Group /\ ctx[s].eps \in Backends \cup {None}
      /\ pc[s] # "idle" => ctx[s].obj \in Object
  BY CtxFields DEF TypeOK, PassesOK, PassAt
<1>1. CASE ListNLBServerGroups(s)
  <2>. DEFINE d == [ctx[s] EXCEPT !.sgs = {g \in Group : grp[g].live /\ grp[g].tag # None},
                                  !.todo = LocalPorts(obj(s))]
  <2>1. LocalPorts(obj(s)) \subseteq Port
    BY <1>0, <1>1, ObjectFields DEF ListNLBServerGroups
  <2>2. Same(ctx[s], d)
    BY <1>0, <2>1 DEF Same, Ctx
  <2>3. pc' \in [Service -> PC] /\ ctx' \in [Service -> Ctx] /\ PassesOK'
    BY <1>1, <2>2, PassGoesOn DEF ListNLBServerGroups, Goto, Learn, PC
  <2>. QED BY <1>1, <2>3, NLBUnchanged DEF ListNLBServerGroups, TypeOK
<1>2. CASE VGroupsApplied(s)
  <2>. DEFINE to == IF IsServiceHashChanged(obj(s)) /\ ctx[s].lb # None
                    THEN "listeners" ELSE "cleanup"
  <2>1. to \in PC /\ to \in {"listeners", "cleanup"}
    BY DEF PC
  <2>2. to = "listeners" => ctx[s].lb \in LB
    BY <1>0
  <2>. HIDE DEF to
  <2>3. Goto(s, to) /\ UNCHANGED ctx /\ pc[s] = "vgroups"
    BY <1>2 DEF VGroupsApplied, to
  <2>4. pc' \in [Service -> PC] /\ ctx' \in [Service -> Ctx] /\ PassesOK'
    BY <2>1, <2>2, <2>3, PassSkips
  <2>. QED BY <1>2, <2>4, NLBUnchanged DEF VGroupsApplied, TypeOK
<1>3. ASSUME NEW p \in Port, UpdateServerGroup(s, p) PROVE IInv'
  <2>1. PICK g \in Group :
          /\ grp' = [grp EXCEPT ![g].servers = ctx[s].eps]
          /\ Learn(s, [ctx[s] EXCEPT !.bind[p] = g, !.todo = @ \ {p}])
    BY <1>0, <1>3 DEF UpdateServerGroup, Named
  <2>2. Same(ctx[s], [ctx[s] EXCEPT !.bind[p] = g, !.todo = @ \ {p}])
    BY <1>0 DEF Same, Ctx
  <2>3. ctx' \in [Service -> Ctx] /\ PassesOK'
    BY <1>3, <2>1, <2>2, PassStays DEF UpdateServerGroup
  <2>4. grp' \in [Group -> ServerGroup]
    BY <1>0, <2>1, GroupUpdate DEF TypeOK
  <2>. QED BY <1>3, <2>3, <2>4, NLBUnchanged DEF UpdateServerGroup, TypeOK
<1>4. ASSUME NEW p \in Port, NEW g \in Group, NewGroup(s, p, g)
      PROVE  grp' \in [Group -> ServerGroup]
  BY <1>4 DEF NewGroup, TypeOK, ServerGroup
<1>5. ASSUME NEW p \in Port, CreateNLBServerGroup(s, p) PROVE IInv'
  <2>1. PICK g \in Group : /\ NewGroup(s, p, g)
                           /\ Learn(s, [ctx[s] EXCEPT !.bind[p] = g])
    BY <1>5 DEF CreateNLBServerGroup
  <2>2. Same(ctx[s], [ctx[s] EXCEPT !.bind[p] = g])
    BY <1>0 DEF Same, Ctx
  <2>3. pc' \in [Service -> PC] /\ ctx' \in [Service -> Ctx] /\ PassesOK'
    BY <1>5, <2>1, <2>2, PassGoesOn DEF CreateNLBServerGroup, Goto, Learn, PC
  <2>. QED BY <1>4, <1>5, <2>1, <2>3, NLBUnchanged DEF CreateNLBServerGroup, TypeOK
<1>6. ASSUME NEW p \in Port, CreateNLBServerGroupLost(s, p) PROVE IInv'
  <2>1. /\ queue' \subseteq Service /\ pc' \in [Service -> PC]
        /\ ctx' \in [Service -> Ctx] /\ PassesOK'
    BY <1>6, PassEnd DEF CreateNLBServerGroupLost
  <2>2. grp' \in [Group -> ServerGroup]
    BY <1>4, <1>6 DEF CreateNLBServerGroupLost
  <2>. QED BY <1>6, <2>1, <2>2, NLBUnchanged DEF CreateNLBServerGroupLost, TypeOK
<1>7. ASSUME NEW p \in Port, TagServerGroup(s, p) PROVE IInv'
  <2>1. pc' \in [Service -> PC] /\ ctx' \in [Service -> Ctx] /\ PassesOK'
    BY <1>7, PassSkips DEF TagServerGroup, PC
  <2>2. grp' \in [Group -> ServerGroup]
    BY <1>7, GroupUpdate DEF TagServerGroup, TypeOK
  <2>. QED BY <1>7, <2>1, <2>2, NLBUnchanged DEF TagServerGroup, TypeOK
<1>8. ASSUME NEW p \in Port, BatchAddServers(s, p) PROVE IInv'
  <2>1. Same(ctx[s], [ctx[s] EXCEPT !.todo = @ \ {p}])
    BY <1>0 DEF Same, Ctx
  <2>2. pc' \in [Service -> PC] /\ ctx' \in [Service -> Ctx] /\ PassesOK'
    BY <1>8, <2>1, PassGoesOn DEF BatchAddServers, Goto, Learn, PC
  <2>3. grp' \in [Group -> ServerGroup]
    BY <1>0, <1>8, GroupUpdate DEF BatchAddServers, TypeOK
  <2>. QED BY <1>8, <2>2, <2>3, NLBUnchanged DEF BatchAddServers, TypeOK
<1>9. CASE DeleteServerGroup(s)
  <2>1. PICK g \in Group : /\ grp' = [grp EXCEPT ![g].live = FALSE]
                           /\ Learn(s, [ctx[s] EXCEPT !.sgs = @ \ {g}])
    BY <1>0, <1>9 DEF DeleteServerGroup, UnusedGroups
  <2>2. Same(ctx[s], [ctx[s] EXCEPT !.sgs = @ \ {g}])
    BY <1>0 DEF Same, Ctx
  <2>3. ctx' \in [Service -> Ctx] /\ PassesOK'
    BY <1>9, <2>1, <2>2, PassStays DEF DeleteServerGroup
  <2>4. grp' \in [Group -> ServerGroup]
    BY <2>1, GroupUpdate DEF TypeOK
  <2>. QED BY <1>9, <2>3, <2>4, NLBUnchanged DEF DeleteServerGroup, TypeOK
<1>10. CASE CleanupDone(s)
  <2>1. pc' \in [Service -> PC] /\ ctx' \in [Service -> Ctx] /\ PassesOK'
    BY <1>10, PassSkips DEF CleanupDone, PC
  <2>. QED BY <1>10, <2>1, NLBUnchanged DEF CleanupDone, TypeOK
<1>. QED BY <1>1, <1>2, <1>3, <1>5, <1>6, <1>7, <1>8, <1>9, <1>10 DEF GroupStep

\* Listeners: list, delete, update or create.
LEMMA ListenerSteps ==
  ASSUME IInv, NEW s \in Service, ListenerStep(s)
  PROVE  IInv'
<1>. USE ConstantsAssumption DEF IInv, obj
<1>0. /\ ctx[s] \in Ctx /\ PassAt(pc[s], ctx[s])
      /\ ctx[s].lb \in LB \cup {None} /\ ctx[s].todo \subseteq Port
      /\ pc[s] # "idle" => ctx[s].obj \in Object
      /\ \A p \in Port : ctx[s].bind[p] \in Group \cup {None}
  BY CtxFields DEF TypeOK, PassesOK, PassAt
<1>1. CASE ListNLBListeners(s)
  <2>1. CASE SkipListeners(obj(s))
    <3>1. pc' \in [Service -> PC] /\ ctx' \in [Service -> Ctx] /\ PassesOK'
      BY <1>1, <2>1, PassSkips DEF ListNLBListeners, PC
    <3>. QED BY <1>1, <3>1, NLBUnchanged DEF ListNLBListeners, TypeOK
  <2>2. CASE ~SkipListeners(obj(s))
    <3>. DEFINE ports == {p \in Port : Remote(s, p) # None}
                d == [ctx[s] EXCEPT !.seen = ports,
                                    !.todo = UnmatchedListeners(s, ports)]
    <3>1. ports \subseteq Port /\ UnmatchedListeners(s, ports) \subseteq Port
      BY DEF UnmatchedListeners
    <3>2. Goto(s, "dellis") /\ Learn(s, d) /\ pc[s] = "listeners"
      BY <1>1, <2>2 DEF ListNLBListeners
    <3>3. Same(ctx[s], d)
      BY <1>0, <3>1 DEF Same, Ctx
    <3>. HIDE DEF d
    <3>4. ctx[s].lb \in LB
      BY <1>0, <3>2 DEF PassAt
    <3>5. pc' \in [Service -> PC] /\ ctx' \in [Service -> Ctx] /\ PassesOK'
      BY <2>2, <3>2, <3>3, <3>4, PassGoesOn DEF Goto, Learn, PC
    <3>. QED BY <1>1, <3>5, NLBUnchanged DEF ListNLBListeners, TypeOK
  <2>. QED BY <2>1, <2>2
<1>2. CASE ListenersDeleted(s)
  <2>. DEFINE d == [ctx[s] EXCEPT !.todo = LocalPorts(obj(s))]
  <2>1. LocalPorts(obj(s)) \subseteq Port
    BY <1>0, <1>2, ObjectFields DEF ListenersDeleted
  <2>2. Same(ctx[s], d)
    BY <1>0, <2>1 DEF Same, Ctx
  <2>3. ctx[s].lb \in LB /\ ~SkipListeners(obj(s))
    BY <1>0, <1>2 DEF ListenersDeleted, PassAt
  <2>4. pc' \in [Service -> PC] /\ ctx' \in [Service -> Ctx] /\ PassesOK'
    BY <1>2, <2>2, <2>3, PassGoesOn DEF ListenersDeleted, Goto, Learn, PC
  <2>. QED BY <1>2, <2>4, NLBUnchanged DEF ListenersDeleted, TypeOK
<1>3. CASE ListenersApplied(s)
  <2>1. pc' \in [Service -> PC] /\ ctx' \in [Service -> Ctx] /\ PassesOK'
    BY <1>3, PassSkips DEF ListenersApplied, PC
  <2>. QED BY <1>3, <2>1, NLBUnchanged DEF ListenersApplied, TypeOK
<1>4. ASSUME NEW p \in Port,
             DeleteNLBListener(s, p) \/ UpdateOrCreateNLBListener(s, p)
      PROVE  IInv'
  <2>1. CASE ReturnError(s) /\ UNCHANGED lis
    <3>1. /\ queue' \subseteq Service /\ pc' \in [Service -> PC]
          /\ ctx' \in [Service -> Ctx] /\ PassesOK'
      BY <2>1, PassEnd
    <3>. QED BY <1>4, <2>1, <3>1, NLBUnchanged
         DEF DeleteNLBListener, UpdateOrCreateNLBListener, TypeOK
  <2>2. CASE /\ \E e \in Listener \cup {None} : PutListener(s, p, e)
             /\ Learn(s, [ctx[s] EXCEPT !.todo = @ \ {p}])
             /\ UNCHANGED <<pc, queue>>
             /\ pc[s] \in {"dellis", "putlis"}
    <3>1. Same(ctx[s], [ctx[s] EXCEPT !.todo = @ \ {p}])
      BY <1>0 DEF Same, Ctx
    <3>2. ctx' \in [Service -> Ctx] /\ PassesOK'
      BY <2>2, <3>1, PassStays
    <3>3. lis' \in [LB -> [Port -> Listener \cup {None}]]
      <4>1. PICK e \in Listener \cup {None} : PutListener(s, p, e)
        BY <2>2
      <4>2. ctx[s].lb \in LB
        BY <1>0, <2>2 DEF PassAt
      <4>. DEFINE f == [lis[ctx[s].lb] EXCEPT ![p] = e]
      <4>3. f \in [Port -> Listener \cup {None}]
        BY <4>2 DEF TypeOK
      <4>4. lis' = [lis EXCEPT ![ctx[s].lb] = f]
        BY <4>1 DEF PutListener
      <4>. QED BY <4>3, <4>4 DEF TypeOK
    <3>. QED BY <1>4, <2>2, <3>2, <3>3, NLBUnchanged
         DEF DeleteNLBListener, UpdateOrCreateNLBListener, TypeOK
  <2>3. Desired(s, p) \in Listener
    BY <1>0 DEF Desired, Listener
  <2>. QED BY <1>4, <2>1, <2>2, <2>3
       DEF DeleteNLBListener, UpdateOrCreateNLBListener
<1>. QED BY <1>1, <1>2, <1>3, <1>4 DEF ListenerStep

\* Labels and status of the Service.
LEMMA StatusSteps ==
  ASSUME IInv, NEW s \in Service, StatusStep(s)
  PROVE  IInv'
<1>. USE ConstantsAssumption DEF IInv, obj
<1>0. /\ api[s] \in Object /\ ctx[s] \in Ctx /\ ctx[s].lb \in LB \cup {None}
      /\ pc[s] # "idle" => ctx[s].obj \in Object
  BY CtxFields DEF TypeOK, PassesOK, PassAt
<1>1. CASE addServiceLabels(s)
  <2>. DEFINE h == IF IsServiceHashChanged(obj(s))
                   THEN GetServiceHash(obj(s)) ELSE api[s].hash
  <2>1. h \in Hash \cup {None}
    BY <1>0, <1>1, ObjectFields DEF addServiceLabels
  <2>2. [api[s] EXCEPT !.hash = h] \in Object
    BY <1>0, <2>1 DEF Object
  <2>3. CASE api[s].exists
    <3>1. Write(s, [api[s] EXCEPT !.hash = h])
      BY <1>1, <2>3 DEF addServiceLabels
    <3>2. api' \in [Service -> Object] /\ watch' \in [Service -> Seq(Object)]
      BY <2>2, <3>1, WriteType
    <3>3. pc' \in [Service -> PC] /\ ctx' \in [Service -> Ctx] /\ PassesOK'
      BY <1>1, <2>3, PassSkips DEF addServiceLabels, PC
    <3>. QED BY <1>1, <2>3, <3>2, <3>3, NLBUnchanged DEF addServiceLabels, TypeOK
  <2>4. CASE ~api[s].exists
    <3>1. /\ queue' \subseteq Service /\ pc' \in [Service -> PC]
          /\ ctx' \in [Service -> Ctx] /\ PassesOK'
      BY <1>1, <2>4, PassEnd DEF addServiceLabels
    <3>. QED BY <1>1, <2>4, <3>1, NLBUnchanged DEF addServiceLabels, TypeOK
  <2>. QED BY <2>3, <2>4
<1>2. CASE updateServiceStatus(s)
  <2>1. /\ queue' \subseteq Service /\ pc' \in [Service -> PC]
        /\ ctx' \in [Service -> Ctx] /\ PassesOK'
    BY <1>2, PassEnd DEF updateServiceStatus
  <2>. DEFINE n == IF api[s].exists /\ cache[s].host # NewHost(s)
                   THEN NewHost(s) ELSE api[s].host
  <2>2. n \in Host
    BY <1>0, ObjectFields DEF NewHost, Host
  <2>3. [api[s] EXCEPT !.host = n] \in Object
    BY <1>0, <2>2 DEF Object
  <2>4. UNCHANGED <<api, watch>> \/ Write(s, [api[s] EXCEPT !.host = n])
    BY <1>2 DEF updateServiceStatus
  <2>5. api' \in [Service -> Object] /\ watch' \in [Service -> Seq(Object)]
    BY <2>3, <2>4, WriteType DEF TypeOK
  <2>. QED BY <1>2, <2>1, <2>5, NLBUnchanged DEF updateServiceStatus, TypeOK
<1>3. CASE removeServiceLabels(s)
  <2>. DEFINE h == IF obj(s).hash = None THEN api[s].hash ELSE None
  <2>1. h \in Hash \cup {None}
    BY <1>0, ObjectFields
  <2>2. [api[s] EXCEPT !.hash = h] \in Object
    BY <1>0, <2>1 DEF Object
  <2>3. CASE obj(s).hash = None \/ api[s].exists
    <3>1. Write(s, [api[s] EXCEPT !.hash = h])
      BY <1>3, <2>3 DEF removeServiceLabels
    <3>2. api' \in [Service -> Object] /\ watch' \in [Service -> Seq(Object)]
      BY <2>2, <3>1, WriteType
    <3>3. pc' \in [Service -> PC] /\ ctx' \in [Service -> Ctx] /\ PassesOK'
      BY <1>3, <2>3, PassSkips DEF removeServiceLabels, PC
    <3>. QED BY <1>3, <2>3, <3>2, <3>3, NLBUnchanged DEF removeServiceLabels, TypeOK
  <2>4. CASE ~(obj(s).hash = None \/ api[s].exists)
    <3>1. /\ queue' \subseteq Service /\ pc' \in [Service -> PC]
          /\ ctx' \in [Service -> Ctx] /\ PassesOK'
      BY <1>3, <2>4, PassEnd DEF removeServiceLabels
    <3>. QED BY <1>3, <2>4, <3>1, NLBUnchanged DEF removeServiceLabels, TypeOK
  <2>. QED BY <2>3, <2>4
<1>4. CASE removeServiceStatus(s)
  <2>. DEFINE n == IF /\ obj(s).host # None /\ api[s].exists
                      /\ cache[s].exists /\ cache[s].host # None
                   THEN None ELSE api[s].host
  <2>1. n \in Host
    BY <1>0, ObjectFields DEF Host
  <2>2. [api[s] EXCEPT !.host = n] \in Object
    BY <1>0, <2>1 DEF Object
  <2>3. Write(s, [api[s] EXCEPT !.host = n])
    BY <1>4 DEF removeServiceStatus
  <2>4. api' \in [Service -> Object] /\ watch' \in [Service -> Seq(Object)]
    BY <2>2, <2>3, WriteType
  <2>5. pc' \in [Service -> PC] /\ ctx' \in [Service -> Ctx] /\ PassesOK'
    BY <1>4, PassSkips DEF removeServiceStatus, PC
  <2>. QED BY <1>4, <2>4, <2>5, NLBUnchanged DEF removeServiceStatus, TypeOK
<1>. QED BY <1>1, <1>2, <1>3, <1>4 DEF StatusStep

\* Jobs that the controller has stopped to wait for.
LEMMA UnfinishedSteps ==
  ASSUME IInv,
         \/ JobEnds
         \/ \E s \in Service : \/ DeleteNLBUnfinished(s)
                               \/ \E p \in Port : \/ ServersUnfinished(s, p)
                                                  \/ DeleteNLBListenerUnfinished(s, p)
  PROVE  IInv'
<1>. USE ConstantsAssumption, BoundsAssumption DEF IInv, obj
<1>0. ASSUME NEW s \in Service
      PROVE  /\ ctx[s] \in Ctx /\ PassAt(pc[s], ctx[s])
             /\ ctx[s].lb \in LB \cup {None} /\ ctx[s].sgs \subseteq Group
             /\ \A p \in Port : ctx[s].bind[p] \in Group \cup {None}
  BY <1>0, CtxFields DEF TypeOK, PassesOK
<1>1. ASSUME NEW l \in LB, NLBJobEnds(l) PROVE IInv'
  <2>1. l \notin UserLB
    BY <1>1 DEF NLBJobEnds, UserNLBKept
  <2>2. nlb' = [nlb EXCEPT ![l] = [nlb[l] EXCEPT !.live = FALSE, !.going = FALSE]]
    BY <1>1 DEF NLBJobEnds, TypeOK
  <2>3. nlb' \in [LB -> Nlb] /\ \A k \in UserLB : nlb'[k] = nlb[k]
    BY <2>1, <2>2, NlbUpdate DEF TypeOK
  <2>4. UserNLBUnmarked' /\ UserNLBKept'
    BY <2>3 DEF UserNLBUnmarked, UserNLBKept
  <2>5. lis' \in [LB -> [Port -> Listener \cup {None}]] /\ PassesOK'
    BY <1>1 DEF NLBJobEnds, TypeOK, PassesOK
  <2>. QED BY <1>1, <2>3, <2>4, <2>5 DEF NLBJobEnds, TypeOK
<1>2. ASSUME NEW l \in LB, NEW p \in Port, ListenerJobEnds(l, p) PROVE IInv'
  <2>1. lis' \in [LB -> [Port -> Listener \cup {None}]] /\ PassesOK'
    BY <1>2 DEF ListenerJobEnds, TypeOK, PassesOK
  <2>. QED BY <1>2, <2>1, NLBUnchanged DEF ListenerJobEnds, TypeOK
<1>3. ASSUME NEW s \in Service, DeleteNLBUnfinished(s) PROVE IInv'
  <2>. DEFINE c == [ctx[s] EXCEPT !.lb = None]
              l == ctx[s].lb
  <2>1. l \in LB \ UserLB
    BY <1>0, <1>3 DEF DeleteNLBUnfinished, CanDeleteNLB, SkipDelete, PassAt
  <2>2. nlb' \in [LB -> Nlb] /\ \A k \in UserLB : nlb'[k] = nlb[k]
    <3>1. nlb' = [nlb EXCEPT ![l] = [nlb[l] EXCEPT !.going = TRUE]]
      BY <1>3 DEF DeleteNLBUnfinished
    <3>2. [nlb[l] EXCEPT !.going = TRUE] \in Nlb
      BY <2>1, NlbUpdate DEF TypeOK
    <3>. QED BY <2>1, <3>1, <3>2 DEF TypeOK
  <2>3. UserNLBUnmarked' /\ UserNLBKept'
    BY <2>2 DEF UserNLBUnmarked, UserNLBKept
  <2>4. CASE ReturnError(s)
    <3>1. /\ queue' \subseteq Service /\ pc' \in [Service -> PC]
          /\ ctx' \in [Service -> Ctx] /\ PassesOK'
      BY <2>4, PassEnd
    <3>. QED BY <1>3, <2>2, <2>3, <3>1 DEF DeleteNLBUnfinished, TypeOK
  <2>5. CASE Learn(s, c) /\ Goto(s, "groups") /\ UNCHANGED queue
    <3>1. c \in Ctx /\ c.obj = ctx[s].obj /\ c.lb = None
      BY <1>0, LBLearnt
    <3>2. PassAt("groups", c)
      BY <1>0, <1>3, <3>1 DEF PassAt, DeleteNLBUnfinished, CanDeleteNLB
    <3>3. pc' \in [Service -> PC] /\ ctx' \in [Service -> Ctx] /\ PassesOK'
      BY <2>5, <3>1, <3>2, PassMove DEF Goto, Learn, PC
    <3>. QED BY <1>3, <2>2, <2>3, <2>5, <3>3 DEF DeleteNLBUnfinished, TypeOK
  <2>. QED BY <1>3, <2>4, <2>5 DEF DeleteNLBUnfinished
<1>4. ASSUME NEW s \in Service, NEW p \in Port, ServersUnfinished(s, p) PROVE IInv'
  <2>1. PICK g \in Group :
          /\ grp' = [grp EXCEPT ![g].servers = Unfinished]
          /\ Learn(s, [ctx[s] EXCEPT !.bind[p] = g, !.todo = @ \ {p}])
    BY <1>4 DEF ServersUnfinished
  <2>0. ctx[s] \in Ctx
    BY DEF TypeOK
  <2>2. Same(ctx[s], [ctx[s] EXCEPT !.bind[p] = g, !.todo = @ \ {p}])
    BY <2>0 DEF Same, Ctx
  <2>3. pc' \in [Service -> PC] /\ ctx' \in [Service -> Ctx] /\ PassesOK'
    BY <1>4, <2>1, <2>2, PassGoesOn DEF ServersUnfinished, Goto, Learn, PC
  <2>4. grp' \in [Group -> ServerGroup]
    BY <2>1, GroupUpdate DEF TypeOK
  <2>5. faults' \in 0..MaxFaults /\ UNCHANGED <<kube, queue, nlb, lis, edits>>
    <3>1. /\ faults < MaxFaults /\ faults' = faults + 1
          /\ UNCHANGED <<kube, queue, nlb, lis, edits>>
      BY <1>4 DEF ServersUnfinished
    <3>2. faults \in 0..MaxFaults
      BY DEF TypeOK
    <3>. QED BY <3>1, <3>2
  <2>6. UserNLBUnmarked' /\ UserNLBKept'
    BY <2>5, NLBUnchanged
  <2>. QED BY <2>3, <2>4, <2>5, <2>6 DEF TypeOK
<1>5. ASSUME NEW s \in Service, NEW p \in Port, DeleteNLBListenerUnfinished(s, p)
      PROVE  IInv'
  <2>. DEFINE l == ctx[s].lb
              e == [Remote(s, p) EXCEPT !.going = TRUE]
              f == [lis[l] EXCEPT ![p] = e]
  <2>1. l \in LB
    BY <1>0, <1>5 DEF PassAt, DeleteNLBListenerUnfinished
  <2>2. Remote(s, p) \in Listener
    BY <1>5, <2>1 DEF DeleteNLBListenerUnfinished, Remote, TypeOK
  <2>3. e \in Listener
    BY <2>2 DEF Listener
  <2>4. lis' \in [LB -> [Port -> Listener \cup {None}]]
    <3>1. f \in [Port -> Listener \cup {None}]
      BY <2>1, <2>3 DEF TypeOK
    <3>2. lis' = [lis EXCEPT ![l] = f]
      BY <1>5 DEF DeleteNLBListenerUnfinished, PutListener
    <3>. QED BY <2>1, <3>1, <3>2 DEF TypeOK
  <2>5. CASE ReturnError(s)
    <3>1. /\ queue' \subseteq Service /\ pc' \in [Service -> PC]
          /\ ctx' \in [Service -> Ctx] /\ PassesOK'
      BY <2>5, PassEnd
    <3>. QED BY <1>5, <2>4, <3>1, NLBUnchanged DEF DeleteNLBListenerUnfinished, TypeOK
  <2>6. CASE Learn(s, [ctx[s] EXCEPT !.todo = @ \ {p}]) /\ UNCHANGED <<pc, queue>>
    <3>1. Same(ctx[s], [ctx[s] EXCEPT !.todo = @ \ {p}])
      BY <1>0 DEF Same, Ctx
    <3>2. ctx' \in [Service -> Ctx] /\ PassesOK'
      BY <1>5, <2>6, <3>1, PassStays DEF DeleteNLBListenerUnfinished
    <3>. QED BY <1>5, <2>4, <2>6, <3>2, NLBUnchanged
         DEF DeleteNLBListenerUnfinished, TypeOK
  <2>. QED BY <1>5, <2>5, <2>6 DEF DeleteNLBListenerUnfinished
<1>. QED BY <1>1, <1>2, <1>3, <1>4, <1>5 DEF JobEnds
-----------------------------------------------------------------------------
\* Every step preserves the invariant.
LEMMA IInvStep == IInv /\ [Next]_vars => IInv'
<1>. SUFFICES ASSUME IInv, [Next]_vars PROVE IInv'
  OBVIOUS
<1>1. CASE Next
  <2>1. ASSUME NEW s \in Service, Worker(s) PROVE IInv'
    BY <2>1, FinalizerSteps, LoadBalancerSteps, GroupSteps, ListenerSteps,
       StatusSteps DEF Worker
  <2>2. ASSUME NEW s \in Service, Faulty(s) PROVE IInv'
    BY <2>2, EnvironmentStep, FinalizerSteps, LoadBalancerSteps, GroupSteps,
       UnfinishedSteps DEF Faulty
  <2>3. ASSUME NEW s \in Service, ServiceEvent(s) PROVE IInv'
    BY <2>3, EnvironmentStep
  <2>4. CASE Restart \/ UserAction \/ JobEnds
    BY <2>4, EnvironmentStep, UnfinishedSteps
  <2>. QED BY <1>1, <2>1, <2>2, <2>3, <2>4 DEF Next
<1>2. CASE UNCHANGED vars
  BY <1>2 DEF vars, IInv, TypeOK, PassesOK, UserNLBUnmarked, UserNLBKept
<1>. QED BY <1>1, <1>2

\* The invariant holds in every behaviour of the controller.
THEOREM Invariance == Behaviour => []IInv
<1>1. Init => IInv
  BY IInvInit
<1>2. IInv /\ [Next]_vars => IInv'
  BY IInvStep
<1>. QED BY <1>1, <1>2, PTL DEF Behaviour

(***************************************************************************)
(* Type correctness: every variable of the controller stays in its set.    *)
(***************************************************************************)
THEOREM TypeCorrect == Behaviour => []TypeOK
<1>1. IInv => TypeOK
  BY DEF IInv
<1>. QED BY <1>1, Invariance, PTL

(***************************************************************************)
(* The delete branch of applyLoadBalancerAttribute never reaches a load    *)
(* balancer of the user's, for any Services, edits, failures and restarts. *)
(***************************************************************************)
THEOREM UserNLBSafe == Behaviour => []UserNLBKept
<1>1. IInv => UserNLBKept
  BY DEF IInv
<1>. QED BY <1>1, Invariance, PTL

\* The only steps that change listeners of a load balancer that stays.
LEMMA ListenerChange ==
  ASSUME IInv, Next, NEW l \in UserLB, NEW q \in Port, lis'[l][q] # lis[l][q],
         nlb'[l].live, ~Removed(l, q)
  PROVE  \E s \in Service : ctx[s].lb = l /\ obj(s).spec.override
<1>. USE DEF IInv
<1>1. l \in LB
  BY ConstantsAssumption
<1>2. ASSUME NEW s \in Service, NEW p \in Port,
             \/ DeleteNLBListener(s, p) \/ UpdateOrCreateNLBListener(s, p)
             \/ DeleteNLBListenerUnfinished(s, p)
      PROVE  ctx[s].lb = l /\ obj(s).spec.override
  <2>1. PassAt(pc[s], ctx[s])
    BY DEF PassesOK
  <2>2. pc[s] \in {"dellis", "putlis"}
    BY <1>2 DEF DeleteNLBListener, UpdateOrCreateNLBListener, DeleteNLBListenerUnfinished
  <2>3. ctx[s].lb = l
    BY <1>1, <1>2 DEF DeleteNLBListener, UpdateOrCreateNLBListener,
       DeleteNLBListenerUnfinished, PutListener, TypeOK
  <2>4. IsUserManaged(obj(s)) /\ ~SkipListeners(obj(s))
    BY <2>1, <2>2, <2>3 DEF PassAt, obj
  <2>. QED BY <2>3, <2>4 DEF SkipListeners
<1>3. ASSUME NEW s \in Service, DeleteNLB(s) PROVE FALSE
  BY <1>1, <1>3 DEF DeleteNLB, TypeOK, Nlb
<1>4. ASSUME NEW k \in LB, ConsoleDeleteNLB(k) PROVE FALSE
  BY <1>1, <1>4 DEF ConsoleDeleteNLB, TypeOK, Nlb
<1>5. lis' # lis
  OBVIOUS
<1>6. ASSUME NEW s \in Service, Worker(s)
      PROVE  \/ DeleteNLB(s)
             \/ \E p \in Port : DeleteNLBListener(s, p) \/ UpdateOrCreateNLBListener(s, p)
  <2>1. ~(ReconcileSkip(s) \/ ReconcileStart(s) \/ FinalizerStep(s))
    BY <1>5 DEF ReconcileSkip, ReconcileStart, FinalizerStep, AddFinalizersHas,
       AddFinalizersPatch, AddFinalizersError, RemoveFinalizersHasNot,
       RemoveFinalizersPatch, RemoveFinalizersError
  <2>2. LoadBalancerStep(s) => DeleteNLB(s)
    BY <1>5 DEF LoadBalancerStep, FindNLB, FindNLBGone, DeleteNLBSkip,
       CreateNLBRefused, CreateNLB, TagNLBResource, UpdateNLB, UpdateNLBRefused
  <2>3. ~GroupStep(s)
    BY <1>5 DEF GroupStep, ListNLBServerGroups, VGroupsApplied, UpdateServerGroup,
       CreateNLBServerGroup, TagServerGroup, BatchAddServers, DeleteServerGroup,
       CleanupDone
  <2>4. ListenerStep(s) => \E p \in Port : \/ DeleteNLBListener(s, p)
                                           \/ UpdateOrCreateNLBListener(s, p)
    BY <1>5 DEF ListenerStep, ListNLBListeners, ListenersDeleted, ListenersApplied
  <2>5. ~StatusStep(s)
    BY <1>5 DEF StatusStep, addServiceLabels, updateServiceStatus,
       removeServiceLabels, removeServiceStatus
  <2>. QED BY <1>6, <2>1, <2>2, <2>3, <2>4, <2>5 DEF Worker
<1>7. ASSUME NEW s \in Service, ServiceEvent(s) \/ Faulty(s)
      PROVE  \E p \in Port : DeleteNLBListenerUnfinished(s, p)
  BY <1>5, <1>7 DEF ServiceEvent, Faulty, CallFails, CreateNLBLost, RemoveFinalizersLost,
     CreateNLBServerGroupLost, DeleteNLBUnfinished, ServersUnfinished
<1>8. ~Restart
  BY <1>5 DEF Restart
<1>9. ASSUME UserAction PROVE \E k \in LB : ConsoleDeleteNLB(k)
  BY <1>5, <1>9 DEF UserAction, EditService, DeleteService, BackendsChange
<1>10. ~JobEnds
  <2>1. ASSUME NEW k \in LB, NLBJobEnds(k) PROVE FALSE
    BY <1>1, <2>1 DEF NLBJobEnds, TypeOK, Nlb
  <2>2. ASSUME NEW k \in LB, NEW p \in Port, ListenerJobEnds(k, p) PROVE FALSE
    <3>1. CASE k = l /\ p = q
      BY <1>1, <2>2, <3>1 DEF ListenerJobEnds, TypeOK, Removed
    <3>2. CASE k # l \/ p # q
      BY <1>1, <2>2, <3>2 DEF ListenerJobEnds, TypeOK
    <3>. QED BY <3>1, <3>2
  <2>. QED BY <2>1, <2>2 DEF JobEnds
<1>. QED BY <1>2, <1>3, <1>4, <1>6, <1>7, <1>8, <1>9, <1>10 DEF Next

(***************************************************************************)
(* With force-override-listeners off, no pass changes a listener of a load *)
(* balancer that the Service reuses.                                       *)
(***************************************************************************)
THEOREM OverrideSafe == Behaviour => OverrideRespected
<1>. DEFINE Kept == \A l \in UserLB :
              nlb'[l].live /\ (\E p \in Port : lis'[l][p] # lis[l][p] /\ ~Removed(l, p))
              => \E s \in Service : ctx[s].lb = l /\ obj(s).spec.override
<1>1. IInv /\ [Next]_vars => [Kept]_vars
  <2>. SUFFICES ASSUME IInv, Next PROVE Kept
    OBVIOUS
  <2>. QED BY ListenerChange
<1>2. Behaviour => [][Next]_vars
  BY PTL DEF Behaviour
<1>. QED BY <1>1, <1>2, Invariance, PTL DEF OverrideRespected
=============================================================================
