----------------------------- MODULE AlbIngress -----------------------------
(***************************************************************************)
(* From an Ingress to the ALB that serves it.                              *)
(*                                                                         *)
(* The store's informers turn changes of Ingresses and IngressClasses into *)
(* events.  The worker of syncQueue, syncIngress, finds the AlbConfig of   *)
(* the event's Ingress, adds the ports the group listens on to the         *)
(* AlbConfig and sends it to the reconciler.  A pass of the reconciler     *)
(* loads the group once more, builds and applies it, writes the address    *)
(* into the Ingresses and labels what it has seen with a hash, so that     *)
(* neither a restart nor its own writes start the work again.              *)
(*                                                                         *)
(* What is applied to the ALB is the subject of the other modules: here it *)
(* is the set of versions of Ingresses it routes by, port by port.  A call *)
(* to the cloud may fail half way ("call"), the ALB may have no DNS name   *)
(* when a pass is through with it ("unnamed"), and the controller may      *)
(* restart ("crash").                                                      *)
(***************************************************************************)
EXTENDS Integers, FiniteSets, Sequences

CONSTANTS
  Ingress, AlbConfig, Class, None,
  Default,     \* the AlbConfig named default
  Alb,         \* the class named alb
  Ours,        \* classes whose controller is the ALB Ingress controller
  NoParams,    \* the AlbConfig of a class that names none
  Attr,        \* what the versions of an Ingress say
  Start,       \* where behaviours start: the Ingresses and classes, whether
               \* they have been handled, the edits and faults by then
  Edit,        \* pairs of versions: the edits a user may make
  Fresh,       \* versions an Ingress may be created with
  UserPort,    \* listeners a user may write into an AlbConfig
  Faults,      \* the faults that may happen
  MaxFaults,   \* faults per behaviour
  MaxEdits     \* edits, creations and deletions per behaviour

Version == DOMAIN Attr

ASSUME IngressAssumption ==
  /\ Default \in AlbConfig /\ Alb \in Class /\ Ours \subseteq Class
  /\ Edit \subseteq Version \X Version
  /\ Faults \subseteq {"call", "unnamed", "crash"}
  /\ MaxFaults \in Nat /\ MaxEdits \in Nat

VARIABLES
  ing,        \* Ingresses in the API server
  seen,       \* Ingresses in the store, the handlers' events sent
  listing,    \* Ingresses of the informer's first list
  class,      \* IngressClasses in the API server
  storeClass, \* IngressClasses in the store
  cacheClass, \* IngressClasses in the cache of the manager
  cfg,        \* AlbConfigs in the API server
  cfgCache,   \* AlbConfigs in the cache of the manager
  queue,      \* syncQueue with updateCh in front of it
  acQueue,    \* the queue of the reconciler
  pass,       \* its passes
  served,     \* what the ALB of an AlbConfig routes by
  history,    \* the versions an Ingress has had, None when it was deleted
  edits, faults, restarted

user == <<class, history, edits>>
vars == <<ing, seen, listing, class, storeClass, cacheClass, cfg, cfgCache, queue,
          acQueue, pass, served, history, edits, faults, restarted>>

\* A pass: the group and the AlbConfig it has loaded, the Ingresses that were
\* missing from the store then, and whether the last one found no DNS name
Idle == [pc |-> "idle", members |-> [i \in {} |-> 0], inactive |-> {},
         listeners |-> {}, label |-> {}, missing |-> {}, unnamed |-> FALSE]

\* An Ingress: its version v, the nth, the address in its status, its label
New(v, fin, n) == [v |-> v, n |-> n, deleting |-> FALSE, fin |-> fin,
                   host |-> None, label |-> None]

Object == [v : Version, n : Nat, deleting : BOOLEAN, fin : BOOLEAN,
           host : AlbConfig \cup {None, NoParams},
           label : (Version \X BOOLEAN) \cup {None}]

\* Behaviours start with Ingresses in their first version.
ASSUME StartAssumption ==
  /\ None \notin AlbConfig \cup Version \cup Object \cup (Version \X BOOLEAN)
  /\ NoParams \notin AlbConfig
  /\ IsFiniteSet(Ingress) /\ Fresh \subseteq Version
  /\ \A v \in Version : /\ Attr[v].class \in Class
                        /\ Attr[v].config \in AlbConfig \cup {None}
  /\ \A s \in Start :
       /\ s.settled \in BOOLEAN
       /\ s.class \in [Class -> AlbConfig \cup {None, NoParams}]
       /\ \A i \in Ingress :
            s.ing[i] = None \/ \E v \in Version, fin \in BOOLEAN : s.ing[i] = New(v, fin, 1)

-----------------------------------------------------------------------------
(* What an Ingress asks for                                                *)

\* GetIngressHash and IsIngressHashChanged
Hash(o) == <<o.v, o.deleting>>

IsIngressHashChanged(o) == o.label # Hash(o)

\* IsValid: by spec.ingressClassName, which must exist, or by annotation,
\* where the name alb is enough.
IsValid(o, classes) ==
  LET a == Attr[o.v]
  IN \/ a.class \in Ours /\ classes[a.class] # None
     \/ ~a.inSpec /\ a.class = Alb

\* IngressClass of the group loader: an unknown class is no error.
IngressClass(v, classes) ==
  IF classes[Attr[v].class] = None THEN Default ELSE classes[Attr[v].class]

\* LoadGroupID with the AlbConfig a cluster-scoped resource; NoParams is the
\* error of a class that names no AlbConfig.
LoadGroupID(v, classes) ==
  IF Attr[v].config # None THEN Attr[v].config ELSE IngressClass(v, classes)

\* ComputeIngressListenPorts; {} is the error of an annotation that does not
\* parse or lists no port.
ComputeIngressListenPorts(v) ==
  LET a == Attr[v]
      redirect == IF a.redirect THEN {<<80, "HTTP">>} ELSE {}
  IN IF a.listen # None
     THEN IF a.listen = {} THEN {} ELSE redirect \cup a.listen
     ELSE redirect \cup (IF a.tls THEN {<<443, "HTTPS">>} ELSE {})
                   \cup (IF a.tls /\ ~a.plain THEN {} ELSE {<<80, "HTTP">>})

\* isListenerProtocolConflict, for any two ports and protocols
IsListenerProtocolConflict(p, q) ==
  p[1] = q[1] /\ {p[2], q[2]} = {"HTTP", "HTTPS"}

-----------------------------------------------------------------------------
(* The group of an AlbConfig                                               *)

\* ListIngresses of the store
ListIngresses == {i \in Ingress : seen[i] # None /\ IsValid(seen[i], storeClass)}

Group(c) == {i \in ListIngresses : LoadGroupID(seen[i].v, cacheClass) = c}

\* isGroupMember: one that is being deleted is none, and inactive if it still
\* has the finalizer earlier versions of the controller gave it.
Members_AnyGroup(c) == {i \in ListIngresses : ~seen[i].deleting}

Members(c) == {i \in Group(c) : ~seen[i].deleting}

Inactive(c) == {i \in Group(c) : seen[i].deleting /\ seen[i].fin}

\* sortGroupMembers: explicit orders lie in 1..1000 and differ.
Order(o) == Attr[o.v].order

OrdersOK(o, members) ==
  \A i \in members :
    /\ Order(o[i]) \in 0..1000
    /\ \A j \in members \ {i} : Order(o[i]) = 0 \/ Order(o[i]) # Order(o[j])

\* Load fails for all AlbConfigs if the class of one Ingress names none.
Loads(c) ==
  /\ \A i \in ListIngresses : LoadGroupID(seen[i].v, cacheClass) # NoParams
  /\ OrdersOK(seen, Members(c))

GroupPorts(c) == UNION {ComputeIngressListenPorts(seen[i].v) : i \in Members(c)}

\* Behaviours start when the controller does, or when it is done with the
\* Ingresses there are.
Init ==
  \E s \in Start :
    LET Done      == {i \in Ingress : /\ s.settled /\ s.ing[i] # None
                                      /\ IsValid(s.ing[i], s.class)}
        Group0(c) == {i \in Done : LoadGroupID(s.ing[i].v, s.class) = c}
        Ports0(c) == UNION {ComputeIngressListenPorts(s.ing[i].v) : i \in Group0(c)}
    IN /\ class = s.class /\ storeClass = class /\ cacheClass = class
       /\ ing = [i \in Ingress |->
                   IF i \notin Done THEN s.ing[i]
                   ELSE [s.ing[i] EXCEPT !.host = LoadGroupID(s.ing[i].v, s.class),
                                         !.label = Hash(s.ing[i])]]
       /\ seen = IF s.settled THEN ing ELSE [i \in Ingress |-> None]
       /\ listing = {i \in Ingress : ing[i] # None}
       /\ history = [i \in Ingress |-> IF ing[i] = None THEN <<>>
                                       ELSE <<ing[i].v>>]
       /\ cfg = [c \in AlbConfig |-> [listeners |-> Ports0(c), label |-> Ports0(c)]]
       /\ cfgCache = cfg
       /\ served = [c \in AlbConfig |->
                      UNION {{<<i, 1, q>> : q \in ComputeIngressListenPorts(s.ing[i].v)}
                               : i \in Group0(c)}]
       /\ queue = <<>> /\ acQueue = {}
       /\ pass = [c \in AlbConfig |-> Idle]
       /\ edits = s.edits /\ faults = s.faults /\ restarted = FALSE

-----------------------------------------------------------------------------
(* The user and the API server                                             *)

\* The record of a new version, the status and the labels kept
EditIngress(i) ==
  /\ edits < MaxEdits
  /\ ing[i] # None
  /\ \E e \in Edit :
       /\ e[1] = ing[i].v
       /\ ing' = [ing EXCEPT ![i].v = e[2], ![i].n = Len(history[i]) + 1]
       /\ history' = [history EXCEPT ![i] = Append(@, e[2])]
  /\ edits' = edits + 1
  /\ UNCHANGED <<seen, listing, class, storeClass, cacheClass, cfg, cfgCache,
                 queue, acQueue, pass, served, faults, restarted>>

DeleteIngress(i) ==
  /\ edits < MaxEdits
  /\ ing[i] # None /\ ~ing[i].deleting
  /\ ing' = [ing EXCEPT ![i] = IF @.fin THEN [@ EXCEPT !.deleting = TRUE]
                                        ELSE None]
  /\ history' = [history EXCEPT ![i] = Append(@, None)]
  /\ edits' = edits + 1
  /\ UNCHANGED <<seen, listing, class, storeClass, cacheClass, cfg, cfgCache,
                 queue, acQueue, pass, served, faults, restarted>>

\* A watch delivers the deletion of the one before first.
CreateIngress(i) ==
  /\ edits < MaxEdits
  /\ ing[i] = None /\ seen[i] = None
  /\ \E v \in Fresh :
       /\ ing' = [ing EXCEPT ![i] = New(v, FALSE, Len(history[i]) + 1)]
       /\ history' = [history EXCEPT ![i] = Append(@, v)]
  /\ edits' = edits + 1
  /\ UNCHANGED <<seen, listing, class, storeClass, cacheClass, cfg, cfgCache,
                 queue, acQueue, pass, served, faults, restarted>>

AddListener(c) ==
  /\ edits < MaxEdits
  /\ \E p \in UserPort \ cfg[c].listeners :
       cfg' = [cfg EXCEPT ![c].listeners = @ \cup {p}]
  /\ edits' = edits + 1
  /\ UNCHANGED <<ing, seen, listing, class, storeClass, cacheClass, cfgCache, queue,
                 acQueue, pass, served, history, faults, restarted>>

-----------------------------------------------------------------------------
(* The handlers of the informers                                           *)

\* IsIngressClassUpdate
IsIngressClassUpdate_Never(old, new) == FALSE

IsIngressClassUpdate(old, new) == Attr[old.v].class # Attr[new.v].class

Event(type, i, o) == [type |-> type, i |-> i, o |-> o]

\* ingEventHandler: the events an old and a new version of an Ingress give.
IngressEvents(i, old, new) ==
  LET was == old # None /\ IsValid(old, storeClass)
      is  == new # None /\ IsValid(new, storeClass)
  IN CASE was /\ ~is  -> <<Event("IngressDelete", i, old)>>
       [] was /\ is   -> (IF IsIngressClassUpdate(old, new)
                          THEN <<Event("AlbConfig", i, old)>> ELSE <<>>)
                           \o <<Event("Update", i, new)>>
       [] ~was /\ is  -> <<Event(IF old = None THEN "Create" ELSE "Update", i, new)>>
       [] ~was /\ ~is -> <<>>

SeeIngress(i) ==
  /\ seen[i] # ing[i]
  /\ queue' = queue \o IngressEvents(i, seen[i], ing[i])
  /\ seen' = [seen EXCEPT ![i] = ing[i]]
  /\ UNCHANGED <<ing, listing, storeClass, cacheClass, cfg, cfgCache, acQueue, pass,
                 served, faults, restarted>>
  /\ UNCHANGED user

\* enqueueImpactedIngressClassIngresses: the Ingresses that have class k in
\* their spec
Impacted(k) == {i \in Ingress : /\ k \in Ours /\ seen[i] # None
                               /\ Attr[seen[i].v].inSpec
                               /\ Attr[seen[i].v].class = k}

\* AddFunc of ingressClassEventHandler, in any order of the Ingresses
SeeClass(k) ==
  /\ storeClass[k] # class[k]
  /\ storeClass' = [storeClass EXCEPT ![k] = class[k]]
  /\ \E order \in [1..Cardinality(Impacted(k)) -> Impacted(k)] :
       /\ \A i \in Impacted(k) : \E n \in DOMAIN order : order[n] = i
       /\ queue' = queue \o [n \in DOMAIN order |->
                               Event("Ingress", order[n], seen[order[n]])]
  /\ UNCHANGED <<ing, seen, listing, cacheClass, cfg, cfgCache, acQueue, pass,
                 served, faults, restarted>>
  /\ UNCHANGED user

CacheClass(k) ==
  /\ cacheClass[k] # class[k]
  /\ cacheClass' = [cacheClass EXCEPT ![k] = class[k]]
  /\ UNCHANGED <<ing, seen, listing, storeClass, cfg, cfgCache, queue, acQueue, pass,
                 served, faults, restarted>>
  /\ UNCHANGED user

\* The cache of AlbConfigs and the Update handler of
\* enqueueRequestsForAlbconfigEvent
CacheAlbConfig(c) ==
  /\ cfgCache[c] # cfg[c]
  /\ cfgCache' = [cfgCache EXCEPT ![c] = cfg[c]]
  /\ acQueue' = IF /\ cfg[c].listeners # cfgCache[c].listeners
                   /\ cfg[c].label # cfg[c].listeners
                THEN acQueue \cup {c} ELSE acQueue
  /\ UNCHANGED <<ing, seen, listing, storeClass, cacheClass, cfg, queue, pass, served,
                 faults, restarted>>
  /\ UNCHANGED user

-----------------------------------------------------------------------------
(* syncIngress                                                             *)

\* removeIngressLabel patches what the Ingress is by then.
RemoveIngressLabel(i) ==
  ing' = [ing EXCEPT ![i] = IF @ = None THEN None ELSE [@ EXCEPT !.label = None]]

\* MakeIngressClass, for an Ingress whose class the cache does not know
MakeIngressClass(c, v) ==
  class' = IF cacheClass[Attr[v].class] = None /\ class[Alb] = None
           THEN [class EXCEPT ![Alb] = c] ELSE class

\* The ports of the group are added to what the cache has; the update is
\* refused if that is no longer what the API server has.
UpdateAccepted_Always(c) == TRUE

UpdateAccepted(c) == cfgCache[c] = cfg[c]

Conflict(c) ==
  \E q \in GroupPorts(c) : \E p \in cfgCache[c].listeners :
    IsListenerProtocolConflict(p, q)

Syncs(c) == c # NoParams /\ Loads(c) /\ UpdateAccepted(c) /\ ~Conflict(c)

\* An event that brings nothing new
Skipped_ByLabel(e) == e.type \in {"Create", "Update"} /\ e.o.label # None

Skipped(e) == e.type \in {"Create", "Update"} /\ ~IsIngressHashChanged(e.o)

SyncSkip ==
  /\ queue # <<>> /\ Skipped(Head(queue))
  /\ queue' = Tail(queue)
  /\ UNCHANGED <<ing, seen, listing, storeClass, cacheClass, cfg, cfgCache, acQueue,
                 pass, served, faults, restarted>>
  /\ UNCHANGED user

\* The class or the group cannot be loaded, a listener is in the way, or the
\* AlbConfig has changed: again later.  The class may have been made before.
SyncRetry ==
  /\ queue # <<>> /\ queue' = Append(Tail(queue), Head(queue))
  /\ UNCHANGED <<ing, seen, listing, storeClass, cacheClass, cfg, cfgCache,
                 acQueue, pass, served, history, edits, faults, restarted>>
  /\ ~Skipped(Head(queue))
  /\ \E e \in {Head(queue)} : \E c \in {LoadGroupID(e.o.v, cacheClass)} :
       /\ ~Syncs(c)
       /\ IF c = NoParams THEN UNCHANGED class ELSE MakeIngressClass(c, e.o.v)

SyncIngress ==
  /\ queue # <<>> /\ queue' = Tail(queue)
  /\ UNCHANGED <<seen, listing, storeClass, cacheClass, cfgCache, pass, served,
                 history, edits, faults, restarted>>
  /\ ~Skipped(Head(queue))
  /\ \E e \in {Head(queue)} : \E c \in {LoadGroupID(e.o.v, cacheClass)} :
       /\ Syncs(c)
       /\ MakeIngressClass(c, e.o.v)
       /\ cfg' = [cfg EXCEPT ![c].listeners =
                                cfgCache[c].listeners \cup GroupPorts(c)]
       /\ IF e.type = "IngressDelete" \/ e.o.deleting
          THEN RemoveIngressLabel(e.i) ELSE UNCHANGED ing
       /\ acQueue' = acQueue \cup {c}

-----------------------------------------------------------------------------
(* A pass of the reconciler                                                *)

\* waitCache waits for the informer to have the first list, not for the
\* handlers that put its Ingresses into the store.
NotStored == {i \in Ingress : i \in listing /\ seen[i] = None /\ ing[i] # None}

\* Load.  A pass whose group does not load is tried again.
LoadGroup(c) ==
  /\ c \in acQueue /\ pass[c].pc = "idle" /\ Loads(c)
  /\ acQueue' = acQueue \ {c}
  /\ pass' = [pass EXCEPT ![c] =
                [pc |-> "apply", members |-> [i \in Members(c) |-> seen[i]],
                 inactive |-> Inactive(c), listeners |-> cfgCache[c].listeners,
                 label |-> cfgCache[c].label, missing |-> NotStored,
                 unnamed |-> FALSE]]
  /\ UNCHANGED <<ing, seen, listing, storeClass, cacheClass, cfg, cfgCache, queue,
                 served, faults, restarted>>
  /\ UNCHANGED user

\* run of the model builder: an Ingress has rules on those of its ports that
\* the AlbConfig listens on.
Routes(p, i) ==
  {<<i, p.members[i].n, q>> :
     q \in ComputeIngressListenPorts(p.members[i].v) \cap p.listeners}

Build(p) == UNION {Routes(p, i) : i \in DOMAIN p.members}

Builds(p) ==
  /\ \A i \in DOMAIN p.members : ComputeIngressListenPorts(p.members[i].v) # {}
  /\ ~\E q, r \in p.listeners : IsListenerProtocolConflict(q, r)

\* RemoveGroupFinalizer on the inactive members o of an object table
RemoveGroupFinalizer(o, inactive) ==
  [i \in Ingress |->
     IF o[i] = None \/ i \notin inactive THEN o[i]
     ELSE IF o[i].deleting THEN None ELSE [o[i] EXCEPT !.fin = FALSE]]

\* The status of a member is updated if it is still as the pass has loaded
\* it; a refused update is passed over.
UpdateStatus_Skipped(c, o, loaded) == o

UpdateStatus(c, o, loaded) == IF o = loaded THEN [o EXCEPT !.host = c] ELSE o

Statuses(c) ==
  [i \in Ingress |-> IF i \in DOMAIN pass[c].members /\ ing[i] # None
                     THEN UpdateStatus(c, ing[i], pass[c].members[i]) ELSE ing[i]]

\* The status of the AlbConfig is updated only if it is as loaded too.
Unchanged(c) == cfg[c] = [listeners |-> pass[c].listeners, label |-> pass[c].label]

\* buildAndApply, and the statuses after it
Apply(c) ==
  /\ pass[c].pc = "apply" /\ Builds(pass[c]) /\ Unchanged(c)
  /\ served' = [served EXCEPT ![c] = Build(pass[c])]
  /\ ing' = Statuses(c)
  /\ pass' = [pass EXCEPT ![c].pc = "label"]
  /\ UNCHANGED <<seen, listing, storeClass, cacheClass, cfg, cfgCache, queue,
                 acQueue, faults, restarted>>
  /\ UNCHANGED user

\* The AlbConfig has changed: no labels, and again.
StatusRefused(c) ==
  /\ pass[c].pc = "apply" /\ Builds(pass[c]) /\ ~Unchanged(c)
  /\ served' = [served EXCEPT ![c] = Build(pass[c])]
  /\ ing' = RemoveGroupFinalizer(Statuses(c), pass[c].inactive)
  /\ pass' = [pass EXCEPT ![c] = Idle]
  /\ acQueue' = acQueue \cup {c}
  /\ UNCHANGED <<seen, listing, storeClass, cacheClass, cfg, cfgCache, queue,
                 faults, restarted>>
  /\ UNCHANGED user

\* The ALB has no DNS name: the pass ends well, with no status and no label,
\* and nothing starts it again.
NoDNSName(c) ==
  /\ "unnamed" \in Faults /\ faults < MaxFaults /\ faults' = faults + 1
  /\ pass[c].pc = "apply" /\ Builds(pass[c])
  /\ served' = [served EXCEPT ![c] = Build(pass[c])]
  /\ ing' = RemoveGroupFinalizer(ing, pass[c].inactive)
  /\ pass' = [pass EXCEPT ![c] = [Idle EXCEPT !.unnamed = TRUE]]
  /\ UNCHANGED <<seen, listing, storeClass, cacheClass, cfg, cfgCache, queue,
                 acQueue, restarted>>
  /\ UNCHANGED user

\* buildAndApply fails: the group cannot be built, or the cloud fails when
\* the rules of some of the Ingresses are done.
ApplyFails(c) ==
  /\ pass[c].pc = "apply"
  /\ \/ /\ ~Builds(pass[c])
        /\ UNCHANGED <<served, faults>>
     \/ /\ Builds(pass[c]) /\ "call" \in Faults /\ faults < MaxFaults
        /\ faults' = faults + 1
        /\ \E done \in SUBSET Ingress :
             served' = [served EXCEPT ![c] =
                          {r \in Build(pass[c]) : r[1] \in done}
                            \cup {r \in served[c] : r[1] \notin done}]
  /\ ing' = RemoveGroupFinalizer(ing, pass[c].inactive)
  /\ pass' = [pass EXCEPT ![c] = Idle]
  /\ acQueue' = acQueue \cup {c}
  /\ UNCHANGED <<seen, listing, storeClass, cacheClass, cfg, cfgCache, queue, restarted>>
  /\ UNCHANGED user

\* addIngressLabel: the hash is that of the Ingress in the store now, which
\* may be newer than what was applied.
AddIngressLabel(o, raw) ==
  IF IsIngressHashChanged(raw) THEN [o EXCEPT !.label = Hash(raw)] ELSE o

\* The end of a pass.  An Ingress that the store or the API server no longer
\* has ends it early, with some of the others labelled, and starts it again.
Finish(c) ==
  LET p       == pass[c]
      there   == {i \in DOMAIN p.members : seen[i] # None /\ ing[i] # None}
      Labelled(s) == [i \in Ingress |->
                        IF i \in s THEN AddIngressLabel(ing[i], seen[i])
                                   ELSE ing[i]]
  IN /\ p.pc = "label"
     /\ \/ /\ there = DOMAIN p.members
           /\ ing' = RemoveGroupFinalizer(Labelled(there), p.inactive)
           /\ cfg' = [cfg EXCEPT ![c].label = p.listeners]
           /\ UNCHANGED acQueue
        \/ /\ there # DOMAIN p.members
           /\ \E s \in SUBSET there :
                ing' = RemoveGroupFinalizer(Labelled(s), p.inactive)
           /\ acQueue' = acQueue \cup {c}
           /\ UNCHANGED cfg
     /\ pass' = [pass EXCEPT ![c] = Idle]
     /\ UNCHANGED <<seen, listing, storeClass, cacheClass, cfgCache, queue, served,
                    faults, restarted>>
     /\ UNCHANGED user

\* A restart: the informers list everything, and the Create handler of
\* enqueueRequestsForAlbconfigEvent passes over what is labelled.
Restart ==
  /\ "crash" \in Faults /\ faults < MaxFaults
  /\ faults' = faults + 1 /\ restarted' = TRUE
  /\ seen' = [i \in Ingress |-> None]
  /\ listing' = {i \in Ingress : ing[i] # None}
  /\ storeClass' = class /\ cacheClass' = class
  /\ cfgCache' = cfg
  /\ queue' = <<>>
  /\ acQueue' = {c \in AlbConfig : cfg[c].label # cfg[c].listeners}
  /\ pass' = [c \in AlbConfig |-> Idle]
  /\ UNCHANGED <<ing, cfg, served>>
  /\ UNCHANGED user

-----------------------------------------------------------------------------
Deliver ==
  \/ \E i \in Ingress : SeeIngress(i)
  \/ \E k \in Class : SeeClass(k)
  \/ \E k \in Class : CacheClass(k)
  \/ \E c \in AlbConfig : CacheAlbConfig(c)

Sync == SyncSkip \/ SyncRetry \/ SyncIngress

Pass(c) ==
  LoadGroup(c) \/ Apply(c) \/ StatusRefused(c) \/ ApplyFails(c) \/ Finish(c)

Next ==
  \/ Deliver
  \/ Sync
  \/ \E c \in AlbConfig : Pass(c)
  \/ \E c \in AlbConfig : NoDNSName(c)
  \/ Restart
  \/ \E i \in Ingress : EditIngress(i)
  \/ \E i \in Ingress : DeleteIngress(i)
  \/ \E i \in Ingress : CreateIngress(i)
  \/ \E c \in AlbConfig : AddListener(c)

Spec == Init /\ [][Next]_vars

\* Informers deliver, the worker of syncQueue takes what is in the queue, and
\* a worker of the reconciler takes up an AlbConfig in its queue and gets on
\* with its pass.
Fairness ==
  /\ WF_vars(Deliver)
  /\ WF_vars(Sync)
  /\ \A c \in AlbConfig : WF_vars(Pass(c))

FairSpec == Spec /\ Fairness

-----------------------------------------------------------------------------
(* What the controller is for                                              *)

Port == UserPort \cup {<<80, "HTTP">>, <<443, "HTTPS">>}
          \cup UNION {ComputeIngressListenPorts(v) : v \in Version}

\* The variables have their types (store, queues, labels and what is served).
TypeOK ==
  /\ ing \in [Ingress -> Object \cup {None}] /\ seen \in [Ingress -> Object \cup {None}]
  /\ \A k \in Class : {class[k], storeClass[k], cacheClass[k]}
                         \subseteq AlbConfig \cup {None, NoParams}
  /\ \A c \in AlbConfig :
       /\ cfg[c].listeners \subseteq Port /\ cfgCache[c].listeners \subseteq Port
       /\ served[c] \subseteq Ingress \X Nat \X Port
       /\ pass[c].pc \in {"idle", "apply", "label"}
  /\ acQueue \subseteq AlbConfig
  /\ \A n \in DOMAIN queue : queue[n].o \in Object

\* The AlbConfig Ingress i asks for as the API server has everything
Wanted(i) ==
  IF ing[i] = None \/ ~IsValid(ing[i], class) THEN None
  ELSE IF ing[i].deleting THEN None ELSE LoadGroupID(ing[i].v, class)

Wanting(c) == {i \in Ingress : Wanted(i) = c}

\* The user has to act first: an IngressClass that names no AlbConfig, orders
\* that clash, ports that do not parse, a protocol in the way.
Blocked(c) ==
  \/ \E i \in Ingress : Wanted(i) = NoParams
  \/ ~OrdersOK(ing, Wanting(c))
  \/ \E i \in Wanting(c) : ComputeIngressListenPorts(ing[i].v) = {}
  \/ \E i \in Wanting(c), p \in cfg[c].listeners :
       \E q \in ComputeIngressListenPorts(ing[i].v) :
         IsListenerProtocolConflict(p, q)
  \/ \E p, q \in cfg[c].listeners : IsListenerProtocolConflict(p, q)

InSync(c) ==
  {<<r[1], history[r[1]][r[2]], r[3]>> : r \in served[c]} =
    UNION {{<<i, ing[i].v, q>> : q \in ComputeIngressListenPorts(ing[i].v)}
             : i \in Wanting(c)}

Quiet ==
  /\ seen = ing /\ storeClass = class /\ cacheClass = class /\ cfgCache = cfg
  /\ queue = <<>> /\ acQueue = {} /\ \A c \in AlbConfig : pass[c].pc = "idle"

\* When all is handled, every ALB serves the Ingresses that ask for it, in
\* their last version and on all their ports, and no other: no event that
\* matters was passed over by the hash label, resolved to the wrong AlbConfig
\* or dropped (unless the controller was restarted; while the user has to act,
\* something stays in a queue).
QuietInSync == Quiet /\ ~restarted => \A c \in AlbConfig : InSync(c)

\* The AlbConfig the kth version of i asks for
Asks(i, k) ==
  IF history[i][k] = None \/ ~IsValid([v |-> history[i][k]], class) THEN None
  ELSE LoadGroupID(history[i][k], class)

\* Ingress i has asked for another AlbConfig than c once.
AskedElsewhere(i, c) == \E k \in DOMAIN history[i] : Asks(i, k) \notin {c, None}

\* When all is handled, an Ingress that has asked for one AlbConfig all its life
\* has no other address than that of its ALB, and it has that one unless it was
\* edited or the last pass ended for want of a DNS name, although a status update
\* that meets a newer Ingress is given up.
AddressRight ==
  Quiet /\ ~restarted =>
    \A c \in AlbConfig : \A i \in Wanting(c) :
      \/ ing[i].host = c
      \/ ing[i].host = None /\ (Len(history[i]) > 1 \/ pass[c].unnamed)
      \/ AskedElsewhere(i, c)

\* What one would like: an edit before the address was written makes no
\* difference.  The code does not have it.
AddressComes ==
  Quiet /\ ~restarted =>
    \A c \in AlbConfig : \A i \in Wanting(c) : ing[i].host = c \/ AskedElsewhere(i, c)

\* syncIngress merges ports into an AlbConfig the user edits at the same
\* time: no listener is ever lost to it.
ListenersKept ==
  [][\A c \in AlbConfig : cfg[c].listeners \subseteq cfg'[c].listeners]_vars

\* Once the user stops, every ALB comes to serve what is asked of it, or the
\* user has to act.
Converges ==
  <>[](restarted \/ \A c \in AlbConfig : Blocked(c) \/ InSync(c))

\* The newest version of i that routes go by, 0 for none
Newest(routes, i) ==
  LET ns == {r[2] : r \in {t \in routes : t[1] = i}}
  IN IF ns = {} THEN 0 ELSE CHOOSE n \in ns : \A m \in ns : m <= n

\* The version of i the ALB of c routes by
Served(c, i) == Newest(served[c], i)

\* A restart takes no forwarding rules away: an Ingress that is served in its
\* last version by the ALB it asks for goes on being served.
RulesKept ==
  [][\A c \in AlbConfig, i \in Ingress :
       Wanted(i) = c /\ Served(c, i) = ing[i].n => Served(c, i)' # 0]_vars

\* A class without an AlbConfig asks for none.
Asked(i, k) == IF Asks(i, k) \in AlbConfig THEN Asks(i, k) ELSE None

\* The refinement: what an ALB routes by only moves on to versions that ask
\* for it.
Routing == INSTANCE IngressRouting
  WITH asks   <- [i \in Ingress |-> [k \in DOMAIN history[i] |-> Asked(i, k)]],
       served <- [c \in AlbConfig |-> [i \in Ingress |-> Served(c, i)]],
       hidden <- [c \in AlbConfig |-> pass[c].missing]

\* The passes, the queues, the labels and restarts implement IngressRouting:
\* no ALB ever goes back to an older version of an Ingress, takes up one that
\* never asked for it, or drops one that has not asked for anything else, unless
\* the pass has loaded its group before the handlers had stored that Ingress.
Implements == Routing!Spec
=============================================================================
