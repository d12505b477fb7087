-------------------------- MODULE AlbLoadBalancer --------------------------
(***************************************************************************)
(* The load balancer of an AlbConfig.                                      *)
(*                                                                         *)
(* albconfigReconciler walks an AlbConfig through finalizer, build, apply, *)
(* status and hash label.  Applying means finding the ALB by its tags and  *)
(* creating, reusing, updating, releasing or deleting it, a sequence of    *)
(* cloud calls worked out from the spec and from one description of the    *)
(* ALB.  Any call may be refused ("call"), be carried out without the      *)
(* controller learning so ("lost"), the ALB may have no DNS name yet when  *)
(* it is described ("unnamed"), the controller may restart ("crash"), and  *)
(* the user may delete the ALB in the console ("console").  AlbConfigs are *)
(* read from an informer cache that trails the API server.                 *)
(*                                                                         *)
(* A call is the record of the ALB's fields it sets.  Field mod is the     *)
(* modification protection, prot the deletion protection, bw the bandwidth *)
(* package, custom the tags other than those of the controller.  Listeners,*)
(* rules and server groups, applied in the same pass, are other modules.   *)
(***************************************************************************)
EXTENDS Naturals, FiniteSets, Sequences

CONSTANTS
  AlbConfig,   \* the AlbConfigs
  LB,          \* identifiers of ALBs
  UserLB,      \* those the user created in the console
  UserAttrs,   \* their fields in the beginning
  InitSpec,    \* specs an AlbConfig may start with
  Edit,        \* pairs of specs: the edits a user may make
  Key,         \* keys of custom tags
  VSwitch,     \* vSwitches of the VPC
  ZoneOf,      \* the zone of each
  AlbZones,    \* zones ALB is available in
  BadLog,      \* names of log projects that are too short or too long
  Faults,      \* the faults that may happen
  None,        \* left out, not set, not there
  MaxFaults,   \* faults per behaviour
  MaxEdits     \* edits and deletions per behaviour

ASSUME AlbAssumption ==
  /\ UserLB \subseteq LB /\ None \notin LB \cup AlbConfig
  /\ \A e \in Edit : Len(e) = 2
  /\ Faults \subseteq {"call", "lost", "unnamed", "crash", "console"}
  /\ MaxFaults \in Nat /\ MaxEdits \in Nat

Specs == InitSpec \cup {e[1] : e \in Edit} \cup {e[2] : e \in Edit}

\* AlbConfigs: label is the hash that a finished pass leaves.
Object == [spec : Specs, deleting : BOOLEAN, fin : BOOLEAN,
           status : LB \cup {None},
           label : (Specs \X BOOLEAN) \cup {None}]

VARIABLES
  api,     \* AlbConfigs in the API server
  cached,  \* AlbConfigs in the informer cache
  queue,   \* AlbConfigs in the work queue
  pass,    \* the pass of the worker that holds the AlbConfig's key
  lb,      \* the ALBs
  faults,  \* faults so far
  edits    \* edits so far

vars == <<api, cached, queue, pass, lb, faults, edits>>

Free == [state |-> "free", by |-> None, tag |-> None, name |-> None,
         mod |-> FALSE, prot |-> FALSE, ipv6 |-> None, log |-> None,
         edition |-> None, bw |-> None, custom |-> [k \in Key |-> None],
         group |-> None, zones |-> {}]

\* A spec names the ALB to reuse, says whether its settings may be overridden,
\* and has a value or None for every other field; an ALB of the user bears no
\* tags of the controller yet.
ASSUME InputAssumption ==
  /\ None \notin Object \cup (Specs \X BOOLEAN)
  /\ \A s \in Specs :
       /\ {"id", "force", "name", "edition", "ipv6", "addr", "zones", "bw",
           "log", "tags", "group"} \subseteq DOMAIN s
       /\ s.id \in LB \cup {None} /\ s.force \in BOOLEAN
       /\ s.ipv6 \in {None, "Internet", "Intranet"}
       /\ s.tags = [k \in Key |-> s.tags[k]]
  /\ UserAttrs = [f \in DOMAIN Free |-> UserAttrs[f]]
  /\ UserAttrs.state = "live" /\ UserAttrs.tag = None

\* Field unnamed tells how the last pass ended; nothing but a property looks at
\* it.
Resting == [pc |-> "idle", obj |-> None, reuse |-> FALSE, clean |-> FALSE,
            lb |-> None, calls |-> <<>>, doomed |-> FALSE,
            unnamed |-> FALSE]

Init ==
  /\ \E s \in [AlbConfig -> InitSpec] :
       api = [c \in AlbConfig |->
                [spec |-> s[c], deleting |-> FALSE, fin |-> FALSE,
                 status |-> None, label |-> None]]
  /\ cached = api
  /\ queue = AlbConfig
  /\ pass = [c \in AlbConfig |-> Resting]
  /\ lb = [l \in LB |-> IF l \in UserLB THEN UserAttrs ELSE Free]
  /\ faults = 0 /\ edits = 0

-----------------------------------------------------------------------------
(* The user and the API server                                             *)

\* GetAlbConfigHash, and IsAlbConfigHashChanged
Hash(o) == <<o.spec, o.deleting>>

HashChanged(o) == o.label # Hash(o)

EditSpec(c) ==
  /\ edits < MaxEdits
  /\ api[c] # None /\ ~api[c].deleting
  /\ \E e \in Edit :
       /\ e[1] = api[c].spec
       /\ api' = [api EXCEPT ![c].spec = e[2]]
  /\ edits' = edits + 1
  /\ UNCHANGED <<cached, queue, pass, lb, faults>>

\* An object without finalizers is gone at once.
DeleteAlbConfig(c) ==
  /\ edits < MaxEdits
  /\ api[c] # None /\ ~api[c].deleting
  /\ api' = [api EXCEPT ![c] = IF @.fin THEN [@ EXCEPT !.deleting = TRUE]
                                        ELSE None]
  /\ edits' = edits + 1
  /\ UNCHANGED <<cached, queue, pass, lb, faults>>

\* The informer and the Update handler of enqueueRequestsForAlbconfigEvent,
\* which passes over versions that differ in nothing it looks at and versions
\* whose hash the label holds.  Versions that follow each other count as one.
Update_SpecOnly(old, new) ==
  /\ new # None
  /\ old.spec # new.spec
  /\ HashChanged(new)

Update(old, new) ==
  /\ new # None
  /\ Hash(old) # Hash(new)
  /\ HashChanged(new)

CacheSync(c) ==
  /\ cached[c] # api[c]
  /\ cached' = [cached EXCEPT ![c] = api[c]]
  /\ queue' = IF Update(cached[c], api[c]) THEN queue \cup {c} ELSE queue
  /\ UNCHANGED <<api, pass, lb, faults, edits>>

-----------------------------------------------------------------------------
(* The model of the load balancer                                          *)

\* ResolveViaDiscovery: the first vSwitch of every zone that ALB is in.
ResolveViaDiscovery ==
  {CHOOSE v \in VSwitch : ZoneOf[v] = z :
     z \in {y \in AlbZones : \E v \in VSwitch : ZoneOf[v] = y}}

\* ResolveViaIDSlice: the given vSwitches, unknown ones left out.
ResolveViaIDSlice(ids) == ids \cap VSwitch

\* buildAlbLoadBalancerSpec: what the spec leaves out has a default, and the
\* name is generated from the AlbConfig.
BuildSpec(c, s) ==
  [s EXCEPT !.name = IF @ = None THEN c ELSE @,
            !.edition = IF @ = None THEN "Standard" ELSE @,
            !.ipv6 = IF @ = None THEN "Intranet" ELSE @,
            !.addr = IF @ = None THEN "Internet" ELSE @,
            !.zones = IF s.id # None THEN {}
                      ELSE IF @ # {} THEN ResolveViaIDSlice(@)
                      ELSE ResolveViaDiscovery]

-----------------------------------------------------------------------------
(* The calls of the provider, worked out from the built spec s and the     *)
(* description b of the ALB                                                *)

Refusal == [refused |-> TRUE]

When(cond, call) == IF cond THEN <<call>> ELSE <<>>

\* The tags after tags are set over those there are.
Tagged(m, tags) == [k \in Key |-> IF tags[k] # None THEN tags[k] ELSE m[k]]

\* Tag: the tags of the controller and those of the spec, in one call.
Tag(c, s, b) == [tag |-> c, custom |-> Tagged(b.custom, s.tags)]

\* updateAlbLoadBalancerAttribute
AttributeCalls(s, b) ==
  When(s.name # b.name \/ ~b.mod, [name |-> s.name, mod |-> TRUE])

EnableDeletionProtection  == [prot |-> TRUE]
DisableDeletionProtection == [prot |-> FALSE]

\* updateAlbLoadBalancerDeletionProtection: the builder always asks for it.
DeletionProtectionCalls(b) == When(~b.prot, EnableDeletionProtection)

EnableIpv6Internet  == [ipv6 |-> "Internet"]
DisableIpv6Internet == [ipv6 |-> "Intranet"]

\* updateAlbLoadBalancerIpv6AddressType
Ipv6Calls(s, b) ==
  When(b.ipv6 # None /\ s.ipv6 # b.ipv6,
       IF s.ipv6 = "Internet" THEN EnableIpv6Internet ELSE DisableIpv6Internet)

\* isLogProjectNameValid, isLogStoreNameValid
LogNameValid(log) == log \notin BadLog

\* DissociateAccessLogFromALB
DissociateAccessLog == [log |-> None]

\* AnalyzeAndAssociateAccessLogToALB checks the names before it calls.
AssociateAccessLog(s) == IF LogNameValid(s.log) THEN [log |-> s.log] ELSE Refusal

\* updateAlbLoadBalancerAccessLogConfig: off, then on again.
AccessLogCalls(s, b) ==
  IF s.log = b.log THEN <<>>
  ELSE When(b.log # None, DissociateAccessLog)
       \o When(s.log # None, AssociateAccessLog(s))

\* updateAlbLoadBalancerEdition
EditionCalls(s, b) ==
  IF s.id # None \/ s.edition = b.edition THEN <<>>
  ELSE <<IF s.edition = "Basic" THEN Refusal ELSE [edition |-> s.edition]>>

DetachBandwidthPackage == [bw |-> None]

AttachBandwidthPackage(s) == [bw |-> s.bw]

\* updateAlbLoadBalancerBandWidthPackage: a package the spec does not name
\* stays attached.
BandWidthPackageCalls(s, b) ==
  IF s.bw = None \/ s.bw = b.bw THEN <<>>
  ELSE IF s.addr # "Internet" THEN <<Refusal>>
  ELSE When(b.bw # None, DetachBandwidthPackage)
       \o <<AttachBandwidthPackage(s)>>

\* UnTag, of the tags the spec does not have
UnTag(keep) == [custom |-> keep]

TagWithoutResourceTags(s, keep) == [custom |-> Tagged(keep, s.tags)]

\* updateAlbLoadBalancerTag: tags the spec does not have go, then the others
\* come.  A spec without tags leaves the tags alone.
TagCalls(s, b) ==
  LET keep == [k \in Key |-> IF s.tags[k] = None THEN None ELSE b.custom[k]]
  IN  IF \A k \in Key : s.tags[k] = None THEN <<>>
      ELSE When(keep # b.custom, UnTag(keep))
           \o When(s.tags # keep, TagWithoutResourceTags(s, keep))

MoveResourceGroup(s) == [group |-> s.group]

\* updateAlbLoadBalancerResourceGroup
ResourceGroupCalls(s, b) ==
  When(s.group # None /\ s.group # b.group, MoveResourceGroup(s))

\* UpdateALB.  The address type and the zones are not compared.
UpdateALB(s, b) ==
  AttributeCalls(s, b) \o DeletionProtectionCalls(b) \o Ipv6Calls(s, b)
    \o AccessLogCalls(s, b) \o EditionCalls(s, b)
    \o BandWidthPackageCalls(s, b) \o TagCalls(s, b)
    \o ResourceGroupCalls(s, b)

\* buildSDKCreateAlbLoadBalancerRequest: what a request needs.  Field valid
\* stands for the address type, IP version, allocation mode and pay type.
Creatable(s) == s.valid /\ s.zones # {}

\* CreateLoadBalancer: the ALB the request asks for.
Created(c, s) ==
  [state |-> "live", by |-> c, tag |-> None, name |-> s.name, mod |-> TRUE,
   prot |-> TRUE, ipv6 |-> IF s.dual THEN "Intranet" ELSE None, log |-> None,
   edition |-> s.edition, bw |-> s.bw, custom |-> [k \in Key |-> None],
   group |-> s.group, zones |-> s.zones]

\* CreateALB, once the ALB is active.

CreateCalls(c, s, b) ==
  <<Tag(c, s, b)>> \o When(s.ipv6 = "Internet", EnableIpv6Internet)
    \o When(s.log # None, AssociateAccessLog(s))

DeleteLoadBalancer == [state |-> "gone"]

DeleteCalls_Protected(b) == <<DeleteLoadBalancer>>

\* DeleteALB
DeleteCalls(b) ==
  When(b.prot, DisableDeletionProtection) \o <<DeleteLoadBalancer>>

\* preCheckTagConflictForReuse, for ALBs of the cluster's VPC and account.
TagConflict(c, b) == b.tag \notin {None, c}

\* transSDKGetLoadBalancerAttributeResponseToLoadBalancer: the description an
\* override goes by lacks the IPv6 address type.
ReuseDescription(b) == [b EXCEPT !.ipv6 = None]

\* ReuseALB
ReuseCalls(c, s, b) ==
  IF b.edition = "Basic" \/ TagConflict(c, b) THEN <<Refusal>>
  ELSE <<Tag(c, s, b)>>
         \o (IF s.force THEN UpdateALB(s, ReuseDescription(b)) ELSE <<>>)

\* UnReuseALB: only the tags of the controller are taken away.
UnReuseCalls(b) == When(b.tag # None, [tag |-> None])

\* The cloud serves a call for an ALB that is there; it deletes none that is
\* protected, and attaches a package or a log only where there is none.
Accepted(call, b) ==
  /\ call # Refusal /\ b.state = "live"
  /\ "state" \in DOMAIN call => ~b.prot
  /\ "bw" \in DOMAIN call => None \in {call.bw, b.bw}
  /\ "log" \in DOMAIN call => None \in {call.log, b.log}

\* What a call makes of an ALB.
Done(call, b) ==
  [f \in DOMAIN b |-> IF f \in DOMAIN call THEN call[f] ELSE b[f]]

-----------------------------------------------------------------------------
(* The controller                                                          *)

Go(c, p) == pass' = [pass EXCEPT ![c] = p]

\* The pass ends with an error: the key is added again, rate limited.
Fail(c) == /\ Go(c, Resting)
           /\ queue' = queue \cup {c}

\* reconcile: whether the ALB is the user's is taken from this read of the
\* AlbConfig; cleanup has nothing to do without the finalizer.
Reconcile(c) ==
  LET o == cached[c]
  IN  /\ c \in queue /\ pass[c].pc = "idle"
      /\ queue' = queue \ {c}
      /\ Go(c, IF o = None \/ (o.deleting /\ ~o.fin) THEN Resting
               ELSE [Resting EXCEPT
                       !.pc = IF o.deleting THEN "apply" ELSE "finalizer",
                       !.obj = o,
                       !.reuse = (o.spec.id # None),
                       !.clean = o.deleting])
      /\ UNCHANGED <<api, cached, lb, faults, edits>>

AddFinalizers_Skipped(c) ==
  /\ pass[c].pc = "finalizer"
  /\ cached[c] # None
  /\ Go(c, [pass[c] EXCEPT !.pc = "apply", !.obj = cached[c]])
  /\ UNCHANGED <<api, cached, queue, lb, faults, edits>>

\* AddFinalizers reads the AlbConfig again; the patch has an optimistic lock.
AddFinalizers(c) ==
  LET o == cached[c]
  IN  /\ pass[c].pc = "finalizer"
      /\ o # None /\ (o.fin \/ o = api[c])
      /\ api' = IF o.fin THEN api ELSE [api EXCEPT ![c].fin = TRUE]
      /\ Go(c, [pass[c] EXCEPT !.pc = "apply",
                               !.obj = [o EXCEPT !.fin = TRUE]])
      /\ UNCHANGED <<cached, queue, lb, faults, edits>>

\* The optimistic lock of AddFinalizers or RemoveFinalizers and the status
\* update refuse an object that is not the latest.
Conflict(c) ==
  /\ \/ pass[c].pc \in {"finalizer", "unfinalize"} /\ cached[c] # api[c]
     \/ pass[c].pc = "finalizer" /\ cached[c] = None
     \/ pass[c].pc = "status" /\ pass[c].obj # api[c]
     \/ pass[c].pc = "label" /\ api[c] = None
  /\ Fail(c)
  /\ UNCHANGED <<api, cached, lb, faults, edits>>

Listed_OfStatus(c) ==
  {l \in LB : lb[l].state = "live" /\ lb[l].tag = c
              /\ pass[c].obj.status = l}

\* ListALBsWithTags with the tags of the AlbConfig
Listed(c) == {l \in LB : lb[l].state = "live" /\ lb[l].tag = c}

CommonReuse_Never(p) == FALSE

\* commonReuse
CommonReuse(p) == p.reuse /\ ~p.obj.spec.force

ReleaseCalls_ByDelete(p, b) == DeleteCalls(b)

\* albLoadBalancerApplier.DeleteALB
ReleaseCalls(p, b) == IF p.reuse THEN UnReuseCalls(b) ELSE DeleteCalls(b)

\* An AlbConfig whose status names an ALB gets no other one.
MayCreate(p) == p.obj.status = None

\* albLoadBalancerApplier.Apply.  An AlbConfig under deletion has an empty
\* stack; an ALB found by its tags is the one of the stack.
Apply(c) ==
  LET p == pass[c]
      s == BuildSpec(c, p.obj.spec)
      calls(l, q) == Go(c, [p EXCEPT !.pc = "calls", !.lb = l, !.calls = q])
  IN  /\ p.pc = "apply"
      /\ Cardinality(Listed(c)) <= 1
      /\ \/ /\ p.obj.deleting
            /\ \E l \in Listed(c) : calls(l, ReleaseCalls(p, lb[l]))
         \/ /\ p.obj.deleting /\ Listed(c) = {}
            /\ calls(None, <<>>)
         \/ /\ ~p.obj.deleting
            /\ \E l \in Listed(c) :
                 calls(l, IF CommonReuse(p) THEN <<>> ELSE UpdateALB(s, lb[l]))
         \/ /\ ~p.obj.deleting /\ Listed(c) = {} /\ MayCreate(p)
            /\ p.reuse /\ s.id # None /\ lb[s.id].state = "live"
            /\ calls(s.id, ReuseCalls(c, s, lb[s.id]))
         \/ /\ ~p.obj.deleting /\ Listed(c) = {} /\ MayCreate(p)
            /\ ~p.reuse /\ Creatable(s)
            /\ Go(c, [p EXCEPT !.pc = "create"])
      /\ UNCHANGED <<api, cached, queue, lb, faults, edits>>

\* The same step where it returns an error: the ALB of the status has been
\* deleted in the console, the request cannot be built, the ALB to reuse is
\* not there, or several ALBs have the tags.
ApplyRefused(c) ==
  LET p == pass[c]
      s == BuildSpec(c, p.obj.spec)
  IN  /\ p.pc = "apply"
      /\ \/ Cardinality(Listed(c)) > 1
         \/ /\ ~p.obj.deleting /\ Listed(c) = {}
            /\ \/ ~MayCreate(p)
               \/ p.reuse /\ ~(s.id # None /\ lb[s.id].state = "live")
               \/ ~p.reuse /\ ~Creatable(s)
      /\ Fail(c)
      /\ UNCHANGED <<api, cached, lb, faults, edits>>

Unused == {l \in LB : lb[l].state = "free"}

CreateLoadBalancer(c) ==
  /\ pass[c].pc = "create"
  /\ \E l \in Unused :
       /\ lb' = [lb EXCEPT ![l] = Created(c, BuildSpec(c, pass[c].obj.spec))]
       /\ Go(c, [pass[c] EXCEPT !.pc = "wait", !.lb = l])
  /\ UNCHANGED <<api, cached, queue, faults, edits>>

\* The poll until the ALB is active; it goes on when the ALB never is.
WaitActive(c) ==
  LET p == pass[c]
  IN  /\ p.pc = "wait"
      /\ Go(c, [p EXCEPT !.pc = "calls",
                         !.calls = CreateCalls(c, BuildSpec(c, p.obj.spec),
                                               lb[p.lb])])
      /\ UNCHANGED <<api, cached, queue, lb, faults, edits>>

\* The next call of the pass.
Call(c) ==
  LET p == pass[c]
  IN  /\ p.pc = "calls" /\ p.calls # <<>>
      /\ Accepted(Head(p.calls), lb[p.lb])
      /\ lb' = [lb EXCEPT ![p.lb] = Done(Head(p.calls), @)]
      /\ Go(c, [p EXCEPT !.calls = Tail(@)])
      /\ UNCHANGED <<api, cached, queue, faults, edits>>

\* What the pass does about a call that returned an error: when the tags of a
\* new ALB were not set, the ALB is deleted again and the pass fails then.
Tagging(p) ==
  "tag" \in DOMAIN Head(p.calls) /\ Head(p.calls).tag # None /\ ~p.reuse

CallError(c) ==
  LET p == pass[c]
  IN  IF Tagging(p)
      THEN /\ Go(c, [p EXCEPT !.calls = DeleteCalls(lb[p.lb]),
                              !.doomed = TRUE])
           /\ UNCHANGED queue
      ELSE Fail(c)

\* The controller itself or the cloud refuses the call.
Refused(c) ==
  LET p == pass[c]
  IN  /\ p.pc = "calls" /\ p.calls # <<>>
      /\ ~Accepted(Head(p.calls), lb[p.lb])
      /\ CallError(c)
      /\ UNCHANGED <<api, cached, lb, faults, edits>>

\* All calls were made.  A rolled back pass fails.
Applied(c) ==
  LET p == pass[c]
  IN  /\ p.pc = "calls" /\ p.calls = <<>> /\ (p.clean \/ ~p.obj.deleting)
      /\ IF p.doomed THEN Fail(c)
         ELSE /\ Go(c, [p EXCEPT !.pc = IF p.clean THEN "unfinalize"
                                                   ELSE "status"])
              /\ UNCHANGED queue
      /\ UNCHANGED <<api, cached, lb, faults, edits>>

\* The second read of the AlbConfig showed its deletion, so the stack had no
\* load balancer: reconcileAlbLoadBalancerResources dereferences a nil, and
\* Reconcile recovers without asking for another pass.
Panics(c) ==
  LET p == pass[c]
  IN  /\ p.pc = "calls" /\ p.calls = <<>> /\ ~p.clean /\ p.obj.deleting
      /\ Go(c, Resting)
      /\ UNCHANGED <<api, cached, queue, lb, faults, edits>>

\* The status update, once the ALB has a DNS name: the object must be the
\* latest.
UpdateStatus(c) ==
  LET p == pass[c]
  IN  /\ p.pc = "status" /\ p.obj = api[c]
      /\ api' = [api EXCEPT ![c].status = p.lb]
      /\ Go(c, [p EXCEPT !.pc = "label", !.obj.status = p.lb])
      /\ UNCHANGED <<cached, queue, lb, faults, edits>>

\* addAlbConfigLabel: a merge patch of the label alone, without a lock.
AddLabel(c) ==
  LET p == pass[c]
  IN  /\ p.pc = "label" /\ api[c] # None
      /\ api' = [api EXCEPT ![c].label = Hash(p.obj)]
      /\ Go(c, Resting)
      /\ UNCHANGED <<cached, queue, lb, faults, edits>>

\* removeAlbConfigLabel removes a label of Services, so it changes nothing;
\* RemoveFinalizers reads the AlbConfig again and patches it with a lock.
RemoveFinalizers(c) ==
  /\ pass[c].pc = "unfinalize" /\ cached[c] = api[c]
  /\ api' = [api EXCEPT ![c] = None]
  /\ Go(c, Resting)
  /\ UNCHANGED <<cached, queue, lb, faults, edits>>

-----------------------------------------------------------------------------
(* Faults                                                                  *)

\* Nothing is left to do for the AlbConfig.
Quiet(c) == pass[c].pc = "idle" /\ c \notin queue /\ cached[c] = api[c]

Fault(kind) == /\ kind \in Faults /\ faults < MaxFaults
               /\ faults' = faults + 1

\* A read or a call of the pass is refused.
CallFails(c) ==
  LET p == pass[c]
  IN  /\ Fault("call")
      /\ p.pc # "idle"
      /\ IF p.pc = "calls" /\ p.calls # <<>> THEN CallError(c) ELSE Fail(c)
      /\ UNCHANGED <<api, cached, lb, edits>>

\* A call is carried out, and the controller does not learn so: the answer is
\* lost, or the poll of the ALB's status that follows the call fails.
CallLost(c) ==
  LET p == pass[c]
  IN  /\ Fault("lost")
      /\ \/ /\ p.pc = "calls" /\ p.calls # <<>>
            /\ Accepted(Head(p.calls), lb[p.lb])
            /\ lb' = [lb EXCEPT ![p.lb] = Done(Head(p.calls), @)]
            /\ CallError(c)
         \/ /\ p.pc = "create"
            /\ \E l \in Unused :
                 lb' = [lb EXCEPT ![l] =
                          Created(c, BuildSpec(c, p.obj.spec))]
            /\ Fail(c)
      /\ UNCHANGED <<api, cached, edits>>

\* The ALB had no DNS name when the pass described it, be it that the poll for a
\* new ALB gave up: the pass ends well, writes neither status nor label and
\* asks for no other pass.
NoDNSName(c) ==
  /\ Fault("unnamed")
  /\ pass[c].pc = "status"
  /\ Go(c, [Resting EXCEPT !.unnamed = TRUE])
  /\ UNCHANGED <<api, cached, queue, lb, edits>>

\* The controller restarts: the caches are filled again, and the Create
\* handler passes over AlbConfigs whose hash the label holds.
Restart ==
  /\ Fault("crash")
  /\ pass' = [c \in AlbConfig |-> Resting]
  /\ cached' = api
  /\ queue' = {c \in AlbConfig : api[c] # None /\ HashChanged(api[c])}
  /\ UNCHANGED <<api, lb, edits>>

\* The user deletes an ALB of the controller in the console, between passes: a
\* pass that read the status before it was set would create another ALB.
ConsoleDelete(l) ==
  /\ Fault("console")
  /\ l \notin UserLB /\ lb[l].state = "live" /\ lb[l].tag # None
  /\ Quiet(lb[l].tag)
  /\ lb' = [lb EXCEPT ![l].state = "gone"]
  /\ UNCHANGED <<api, cached, queue, pass, edits>>

-----------------------------------------------------------------------------
Work(c) ==
  \/ Reconcile(c) \/ AddFinalizers(c) \/ Conflict(c)
  \/ Apply(c) \/ ApplyRefused(c) \/ CreateLoadBalancer(c) \/ WaitActive(c)
  \/ Call(c) \/ Refused(c) \/ Applied(c) \/ Panics(c)
  \/ UpdateStatus(c) \/ AddLabel(c) \/ RemoveFinalizers(c)

Next ==
  \/ \E c \in AlbConfig : \/ EditSpec(c) \/ DeleteAlbConfig(c)
                          \/ CacheSync(c) \/ Work(c)
                          \/ CallFails(c) \/ CallLost(c) \/ NoDNSName(c)
  \/ Restart
  \/ \E l \in LB : ConsoleDelete(l)

Spec == Init /\ [][Next]_vars

\* The workers run, and the informer delivers what the API server has.
FairSpec ==
  /\ Spec
  /\ \A c \in AlbConfig : WF_vars(Work(c)) /\ WF_vars(CacheSync(c))

-----------------------------------------------------------------------------
(* Properties                                                              *)

\* The types of the AlbConfigs, the passes and the ALBs.
TypeOK ==
  /\ api \in [AlbConfig -> Object \cup {None}]
  /\ cached \in [AlbConfig -> Object \cup {None}]
  /\ queue \subseteq AlbConfig
  /\ \A c \in AlbConfig :
       /\ pass[c].obj \in Object \cup {None}
       /\ pass[c].lb \in LB \cup {None}
       /\ pass[c].pc \in {"idle", "finalizer", "apply", "create", "wait",
                          "calls", "status", "label", "unfinalize"}
  /\ \A l \in LB : /\ lb[l].state \in {"free", "live", "gone"}
                   /\ lb[l].tag \in AlbConfig \cup {None}
  /\ faults \in 0..MaxFaults /\ edits \in 0..MaxEdits

\* The controller never deletes an ALB the user brought along, whatever fails
\* and whenever the AlbConfig is deleted (albLoadBalancerApplier.DeleteALB
\* decides by the spec, not by what was done).
UserALBKept == \A l \in UserLB : lb[l].state = "live"

\* Whenever a live ALB bears the tags of an AlbConfig, the AlbConfig is still
\* there and its finalizer holds it until the ALB is deleted or released.
FinalizerGuards ==
  \A l \in LB : lb[l].state = "live" /\ lb[l].tag # None =>
                  api[lb[l].tag] # None /\ api[lb[l].tag].fin

\* The ALBs that bear the tags of an AlbConfig
Bearing(c) == {l \in LB : lb[l].state = "live" /\ lb[l].tag = c}

\* However its passes fail, an AlbConfig never has two ALBs with its tags:
\* Apply could only report them ("must delete manually").
AtMostOneALB == \A c \in AlbConfig : Cardinality(Bearing(c)) <= 1

\* An ALB that belongs to one AlbConfig is not taken over by another one; the
\* error text of preCheckTagConflictForReuse says that another AlbConfig
\* "cant reuse" it.
ClaimHonoured ==
  [][\A l \in LB : lb[l].tag # None => lb'[l].tag \in {lb[l].tag, None}]_lb

\* The fields of an ALB that a user may have set in the console.
Settings(b) == [f \in DOMAIN b \ {"tag", "custom"} |-> b[f]]

\* The settings of the user's ALB change only at the hands of an AlbConfig
\* that asked for forceOverride.
OverrideRespected ==
  [][\A l \in UserLB : Settings(lb'[l]) # Settings(lb[l]) =>
       \E c \in AlbConfig : /\ pass[c].lb = l
                            /\ pass[c].obj.spec.id = l
                            /\ pass[c].obj.spec.force]_lb

\* What a pass makes sure of: an ALB of its own or one whose settings it
\* overrides agrees with the spec.  Of the user's ALB, edition and IPv6 address
\* type are not overridden.
InSync(c, l) ==
  LET s == BuildSpec(c, api[c].spec)
      b == lb[l]
      own == s.id = None
  IN  own \/ s.force =>
        /\ b.name = s.name /\ b.mod /\ b.prot /\ b.log = s.log
        /\ own => b.edition = s.edition /\ b.ipv6 \in {None, s.ipv6}
        /\ s.bw # None => b.bw = s.bw
        /\ (\E k \in Key : s.tags[k] # None) => b.custom = s.tags
        /\ s.group # None => b.group = s.group

\* The ALB the status names has been deleted in the console.
Orphaned(c) == api[c].status # None /\ lb[api[c].status].state = "gone"

\* An ALB made for the AlbConfig is gone, and the last pass left the AlbConfig
\* without a status that names it.
GoneUnnamed(c) ==
  /\ pass[c].unnamed
  /\ \E l \in LB \ UserLB : lb[l].by = c /\ lb[l].state = "gone"

\* When nothing is left to do for an AlbConfig, it has an ALB with its tags that
\* agrees with its spec, unless the ALB was deleted in the console, and its
\* status names that ALB, unless the last pass ended because the ALB had no DNS
\* name: reconcileAlbLoadBalancerResources then writes no status and no pass is
\* due that would.  If the AlbConfig is gone, no ALB bears its tags.  No event
\* was passed over that mattered.
QuietInSync ==
  \A c \in AlbConfig : Quiet(c) =>
    IF api[c] = None THEN Bearing(c) = {}
    ELSE /\ ~api[c].deleting
         /\ \/ Orphaned(c) \/ GoneUnnamed(c)
            \/ \E l \in Bearing(c) :
                 InSync(c, l) /\ (api[c].status = l \/ pass[c].unnamed)

\* An AlbConfig that every pass must refuse until the user acts.
Unservable(c) ==
  LET s == BuildSpec(c, api[c].spec)
  IN  /\ api[c] # None /\ ~api[c].deleting
      /\ \/ Orphaned(c)
         \/ s.log \in BadLog
         \/ s.edition = "Basic"
         \/ s.id = None /\ ~Creatable(s)

\* The passes come to an end: after the last edit and the last fault every
\* AlbConfig is served, gone, or one that no pass can serve.
Converges == <>[](\A c \in AlbConfig : Quiet(c) \/ Unservable(c))
=============================================================================
