------------------------------ MODULE NlbModel ------------------------------
(***************************************************************************)
(* The objects the NLB service controller works on: the Service as the API *)
(* server stores it, the cloud's load balancers, server groups and         *)
(* listeners, and the predicates of pkg/controller/helper and of the event *)
(* handler that decide when and how a Service is reconciled.               *)
(*                                                                         *)
(* A service in Service stands for one object (one UID, hence one default  *)
(* load-balancer name and one tag value); a port in Port stands for a      *)
(* (protocol, port) pair and for the server group named after it.          *)
(***************************************************************************)
EXTENDS Naturals, FiniteSets

CONSTANTS
  Service,    \* the Services watched by the controller
  Port,       \* (protocol, port) pairs a Service may expose
  LB,         \* ids the cloud may give to network load balancers
  UserLB,     \* the load balancers the user created on the console
  Deletable,  \* the load balancers the user may delete on the console
  UserPort,   \* ports on which the user configured a listener by hand
  Group,      \* ids the cloud may give to server groups
  Backends,   \* abstract contents of a server group (sets of endpoints)
  InitSpec,   \* assignments of the specs the Services may be created with
  Edit,       \* pairs <<old, new>>: the edits the user may make to a spec
  None        \* "not there", a value outside every set above

(***************************************************************************)
(* The user-writable part of a Service: spec and annotations.              *)
(*   type     "nlb": LoadBalancer of the NLB class, "clb": LoadBalancer of  *)
(*            another class, "none": any other spec.type                  *)
(*   id       annotation loadbalancer-id: the load balancer to reuse       *)
(*   override annotation force-override-listeners                          *)
(*   named    annotation loadbalancer-name is set (a name of the user's)   *)
(*   ports    spec.ports                                                   *)
(***************************************************************************)
Spec == [type : {"nlb", "clb", "none"}, id : LB \cup {None}, override : BOOLEAN,
         named : BOOLEAN, ports : SUBSET Port]

ASSUME ConstantsAssumption ==
  /\ UserLB \subseteq LB /\ Deletable \subseteq LB
  /\ UserPort \subseteq Port
  /\ InitSpec \subseteq [Service -> Spec]
  /\ Edit \subseteq Spec \X Spec
  /\ None \notin Service \cup LB \cup Group \cup Backends

\* The name of the user as the owner of a load balancer or a listener.
User == "user"

ASSUME UserAssumption == User \notin Service \cup {None}

(***************************************************************************)
(* GetServiceHash covers spec, annotations and deletionTimestamp; a hash   *)
(* collision is not modelled, so the hash is the pair itself.              *)
(***************************************************************************)
Hash == Spec \X BOOLEAN

ASSUME HashAssumption == None \notin Hash

\* status.loadBalancer.ingress: absent, a host name per load balancer, or ""
BlankHost == "blank"
Host == LB \cup {None, BlankHost}

(***************************************************************************)
(* A Service object: what the user wrote, deletionTimestamp, the NLB       *)
(* finalizer, the hash label and the status the controller writes.         *)
(***************************************************************************)
Object == [exists : BOOLEAN, spec : Spec, deleting : BOOLEAN,
           finalizer : BOOLEAN, hash : Hash \cup {None}, host : Host]

\* Faulty variant: the deletionTimestamp is left out of the hash.
GetServiceHash_SpecOnly(o) == <<o.spec>>

GetServiceHash(o) == <<o.spec, o.deleting>>

IsServiceHashChanged(o) == o.hash # GetServiceHash(o)

NeedNLB(o) == o.spec.type = "nlb"

\* Only spec.type counts here, whatever the class of the load balancer.
NeedDeleteLoadBalancer(o) == o.deleting \/ o.spec.type = "none"

IsUserManaged(o) == o.spec.id # None

\* The ports of the local model: empty when the load balancer has to go.
LocalPorts(o) == IF NeedDeleteLoadBalancer(o) THEN {} ELSE o.spec.ports

(***************************************************************************)
(* The predicates of the Service event handler.                            *)
(***************************************************************************)
needAdd(o) == NeedNLB(o) \/ o.finalizer

\* Faulty variant: the handler compares specs and misses deletionTimestamp.
needUpdate_SpecOnly(old, new) ==
  (NeedNLB(old) \/ NeedNLB(new)) /\ old.spec # new.spec

needUpdate(old, new) ==
  /\ NeedNLB(old) \/ NeedNLB(new)
  /\ GetServiceHash(old) # GetServiceHash(new)

(***************************************************************************)
(* Cloud objects. `by` (who asked for the load balancer) is not stored by  *)
(* the cloud and no guard reads it: it lets properties speak of ownership. *)
(* tag and name hold the Service whose default name was written there.     *)
(* going: the cloud has accepted the deletion but its job has not ended,   *)
(* and perhaps never will; waitJobFinish stops waiting without an error.   *)
(***************************************************************************)
Nlb == [live : BOOLEAN, by : Service \cup {User, None},
        tag : Service \cup {None}, name : Service \cup {None}, going : BOOLEAN]

\* What is in a group while a job on its servers has not ended: anything.
Unfinished == "unfinished"

ServerGroup == [live : BOOLEAN, svc : Service \cup {None},
                port : Port \cup {None}, tag : Service \cup {None},
                servers : Backends \cup {None, Unfinished}]

Listener == [by : Service \cup {User}, group : Group \cup {None}, going : BOOLEAN]

ASSUME ListenerAssumption == None \notin Listener

FreshNlb ==
  [live |-> FALSE, by |-> None, tag |-> None, name |-> None, going |-> FALSE]
FreshGroup ==
  [live |-> FALSE, svc |-> None, port |-> None, tag |-> None, servers |-> None]

(***************************************************************************)
(* isNLBReusable: a reused load balancer must carry no tag of kubernetes   *)
(* and must be the one the status already names, if it names one.          *)
(***************************************************************************)
isNLBReusable(o, l, n) ==
  /\ n.tag = None
  /\ o.host \in {None, l}
=============================================================================
