---------------------------- MODULE AlbListeners ----------------------------
(***************************************************************************)
(* What a pass of the ALB reconciler does to the load balancer: it builds  *)
(* the resources the AlbConfig and its Ingresses ask for and runs the      *)
(* appliers one after the other (certificates of Secrets, server groups,   *)
(* listeners, access control lists, rules), each with one goroutine per    *)
(* resource, and deletes the server groups that are left over at the end.  *)
(*                                                                         *)
(* pass.todo holds what the goroutines of the running applier have yet to  *)
(* do: pairs of a resource and its next call.  A call to the cloud may     *)
(* fail and the controller may restart between two calls.  The rules of a  *)
(* listener (AlbRules) are here the server groups they forward to, and the *)
(* load balancer itself (AlbLoadBalancer) exists throughout.               *)
(***************************************************************************)
EXTENDS Integers, FiniteSets, Sequences, SequencesExt

CONSTANTS
  Listener,    \* a port and a protocol
  Tls,         \* the HTTPS and QUIC listeners
  Service,     \* server groups of the rules, one per port of a Service
  Secret, Version,
  Host,        \* sequences of labels
  Domains,     \* domains of the certificates: [certificates -> sets]
  CertOf,      \* certificate of a version of a Secret, named by its digest
  AclId, UserAcl, Entry,
  Config,      \* what users may ask for: AlbConfig, Ingresses and Secrets
  Start,       \* the first of them
  Reused,      \* listeners of the user on a load balancer that is reused
  Upload,      \* certificates a user may upload
  Refused,     \* attributes that the provider's checks refuse
  None,
  MaxFaults,   \* failed calls and restarts per behaviour
  MaxEdits     \* changes of the configuration per behaviour

Cert == DOMAIN Domains
Secrets == {CertOf[s][v] : s \in Secret, v \in Version}

\* fake-svc of a listener: the server group of its default action
DefaultGroup(l) == <<l, "default">>
Group == Service \cup {DefaultGroup(l) : l \in Listener}

ASSUME ListenersAssumption ==
  /\ Tls \subseteq Listener /\ Reused \subseteq Listener
  /\ Cert \subseteq Int /\ Secrets \subseteq Cert /\ Upload \subseteq Cert \ Secrets
  /\ UserAcl \subseteq AclId /\ Start \in Config
  /\ IsFiniteSet(Cert) /\ None \notin Group
  /\ \A c \in Config :
       /\ DOMAIN c.ls \subseteq Listener
       /\ \A l \in DOMAIN c.ls : c.backs[l] \subseteq Service
       /\ \A l \in Tls \cap DOMAIN c.ls :
            /\ c.ls[l].certs \in Seq([id : Cert, isDefault : BOOLEAN])
            /\ c.tls[l] \in Seq([secret : Secret \cup {None}, hosts : SUBSET Host])
  /\ MaxFaults \in Nat /\ MaxEdits \in Nat

VARIABLES
  config,    \* the AlbConfig, its Ingresses and Secrets
  cas,       \* certificates of the certificate service
  casCache,  \* the list of them that the provider keeps for three minutes
  listeners, \* listeners of the load balancer
  acls,      \* access control lists: a name and entries
  groups,    \* server groups: attributes, and whether servers were added
  pass,      \* the pass that runs, or the last one
  dirty,     \* the AlbConfig is in the queue
  edits, faults

vars == <<config, cas, casCache, listeners, acls, groups, pass, dirty,
          edits, faults>>

cloud == <<cas, casCache, listeners, acls, groups>>

-----------------------------------------------------------------------------
(* Building the model.                                                     *)

\* "*" stands for one label
domainMatchesHost(dom, host) ==
  \/ dom = host
  \/ Head(dom) = "*" /\ Len(dom) = Len(host) /\ Tail(dom) = Tail(host)

Covers(cert, host) == \E d \in Domains[cert] : domainMatchesHost(d, host)

\* every certificate that fits a host; an error when there is none for one
Discover(list, hosts) ==
  IF \E h \in hosts : \A x \in list : ~Covers(x, h)
    THEN None
    ELSE {x \in list : \E h \in hosts : Covers(x, h)}

\* a set of numbers in order
Sorted(S) == [k \in 1..Cardinality(S) |-> CHOOSE x \in S : Cardinality({y \in S : y < x}) = k - 1]

\* What the requests carry of the attributes: http2Enabled only reaches the
\* model when it is left out, and is on then; given a value it is off, whatever
\* the value.  The rest, c.ls[l].attr, are the attributes of both requests:
\* gzip, timeouts, security policy, QUIC and X-Forwarded-For headers.  Not
\* among them are the log configuration, which is never sent, CA certificates,
\* which are sent to create a listener and never updated, and the alias of the
\* subject's DN, in whose place that of the issuer's is sent.
Sent(c, l) == <<c.ls[l].attr, l \in Tls /\ c.ls[l].http2 = None>>

buildListenerSpec(c, l) ==
  [desc |-> IF c.ls[l].desc = "" THEN "ingress-auto-listener" ELSE c.ls[l].desc,
   attr |-> Sent(c, l),
   action |-> DefaultGroup(l)]

\* hosts for which a certificate must be discovered
MissHosts(tls) ==
  {h \in Host : \E i \in DOMAIN tls : tls[i].secret = None /\ h \in tls[i].hosts}
    \ {h \in Host : \E i \in DOMAIN tls : tls[i].secret # None /\ h \in tls[i].hosts}

\* certificates of the Secrets, without duplicates and in order
SecretCerts(c, l) ==
  LET named == {i \in DOMAIN c.tls[l] : c.tls[l][i].secret # None}
      id(i) == CertOf[c.tls[l][i].secret][c.secret[c.tls[l][i].secret]]
      new == {i \in named : \A j \in named : j < i => id(j) # id(i)}
      first == Sorted(new)
  IN [k \in DOMAIN first |-> [id |-> id(first[k]), isDefault |-> FALSE]]

\* certificates of a listener: those of the AlbConfig, or discovered when it
\* has none, then those of Secrets; the first becomes the default once an
\* Ingress is on the port
Certificates(c, l, list) ==
  LET found == Discover(list, MissHosts(c.tls[l]))
      sorted == Sorted(found)
      fixed == IF c.ls[l].certs # <<>> \/ MissHosts(c.tls[l]) = {}
                 THEN c.ls[l].certs
                 ELSE [i \in DOMAIN sorted |-> [id |-> sorted[i], isDefault |-> FALSE]]
      certs == fixed \o SecretCerts(c, l)
  IN IF (c.tls[l] = <<>> /\ c.backs[l] = {}) \/ certs = <<>>
       THEN c.ls[l].certs
       ELSE [certs EXCEPT ![1].isDefault = TRUE]

Discovers(c, l) ==
  l \in Tls \cap DOMAIN c.ls /\ c.ls[l].certs = <<>> /\ MissHosts(c.tls[l]) # {}

\* the name of an access control list given by entries follows the port
buildAcl(c, l) ==
  LET a == c.ls[l].acl
  IN [type |-> a.type, entries |-> a.entries, ids |-> a.ids,
      name |-> IF a.name = <<>> /\ a.entries # {} THEN <<"acl", l>> ELSE a.name]

\* whether the model can be built, with this list of certificates
Buildable(c, list) ==
  \A l \in DOMAIN c.ls :
    /\ c.ls[l].acl.type # None => c.ls[l].acl.entries = {} \/ c.ls[l].acl.ids = {}
    /\ Discovers(c, l) => Discover(list, MissHosts(c.tls[l])) # None

WantedGroups(c) ==
  UNION {{DefaultGroup(l)} \cup c.backs[l] : l \in DOMAIN c.ls}

-----------------------------------------------------------------------------
(* Steps of a pass.                                                        *)

\* a call that may fail
Call(ok) == IF ok THEN UNCHANGED faults ELSE faults < MaxFaults /\ faults' = faults + 1

cfg == pass.cfg
Idle ==
  [pc |-> "idle", todo |-> {}, err |-> FALSE, errs |-> {}, inUse |-> FALSE, ids |-> {},
   upd |-> {}, del |-> {}, gone |-> {}, cfg |-> None, certs |-> None,
   acl |-> [l \in Listener |-> {}], drop |-> [l \in Listener |-> {}]]
Phase(pc, items, step) == [pass EXCEPT !.pc = pc, !.todo = items \X {step}, !.err = FALSE]
Step(i, from, to) == (pass.todo \ {<<i, from>>}) \cup {<<i, to>>}
Fin(i, from) == pass.todo \ {<<i, from>>}

At(pc, i, step) == pass.pc = pc /\ <<i, step>> \in pass.todo
Through(pc) == pass.pc = pc /\ pass.todo = {}

CasList == IF casCache = None THEN cas ELSE casCache

\* the pass ends with an error: the queue hands the AlbConfig out again
Fail_Dropped == pass' = Idle /\ UNCHANGED dirty

Fail == pass' = Idle /\ dirty' = TRUE

(* A pass starts: the model is built.  The list of certificates is taken   *)
(* from the cache while it is fresh.  The applier of Secrets then creates  *)
(* the certificates that the list does not hold.                           *)
Build(ok) ==
  /\ pass.pc = "idle" /\ dirty
  /\ Call(ok)
  /\ LET list == CasList
         wanted == {x.id : x \in UNION {ToSet(SecretCerts(config, l)) : l \in Tls \cap DOMAIN config.ls}}
         lists == wanted # {} \/ \E l \in Listener : Discovers(config, l)
     IN /\ casCache' = IF ok /\ lists THEN list ELSE casCache
        /\ IF ok /\ Buildable(config, list)
             THEN /\ dirty' = FALSE
                  /\ pass' = [Idle EXCEPT !.pc = "secrets", !.cfg = config,
                       !.todo = (wanted \ list) \X {"create"},
                       !.certs = [l \in Tls \cap DOMAIN config.ls |-> Certificates(config, l, list)]]
             ELSE Fail
  /\ UNCHANGED <<config, cas, listeners, acls, groups, edits>>

CreateSSLCertificateWithName(x, ok) ==
  /\ At("secrets", x, "create")
  /\ Call(ok)
  /\ cas' = IF ok THEN cas \cup {x} ELSE cas
  /\ casCache' = IF ok THEN None ELSE casCache
  /\ pass' = [pass EXCEPT !.todo = Fin(x, "create"), !.err = @ \/ ~ok]
  /\ UNCHANGED <<config, listeners, acls, groups, dirty, edits>>

(* serverGroupApplier.Apply: groups that are missing are created, tagged   *)
(* and given their servers; the others are brought up to date.  A group    *)
(* that could not be waited for or tagged does not count as created: it is *)
(* deleted or never found again.                                           *)
ListServerGroups(ok) ==
  /\ Through("secrets")
  /\ Call(ok)
  /\ IF ok /\ ~pass.err
       THEN /\ pass' = [Phase("groups", {g \in WantedGroups(cfg) : groups[g] = None}, "create")
                          EXCEPT !.upd = {g \in WantedGroups(cfg) : groups[g] # None},
                                 !.gone = {g \in Group : groups[g] # None} \ WantedGroups(cfg)]
            /\ UNCHANGED dirty
       ELSE Fail
  /\ UNCHANGED <<config, cloud, edits>>

\* health check, sticky session and hashing, checked before each request
checkConfigValid == cfg.sgp \notin Refused

CreateALBServerGroup(g, ok) ==
  /\ At("groups", g, "create")
  /\ Call(ok)
  /\ IF ok /\ checkConfigValid
       THEN /\ groups' = [groups EXCEPT ![g] = [attr |-> cfg.sgp, servers |-> FALSE]]
            /\ pass' = [pass EXCEPT !.todo = IF g \in Service THEN Step(g, "create", "servers")
                                                              ELSE Fin(g, "create")]
       ELSE /\ UNCHANGED groups
            /\ pass' = [pass EXCEPT !.todo = Fin(g, "create"), !.err = TRUE]
  /\ UNCHANGED <<config, cas, casCache, listeners, acls, dirty, edits>>

\* a goroutine that fails deletes its group again (which may fail too); once
\* another has failed it leaves its group behind without servers
addServerToServerGroup(g, ok) ==
  /\ At("groups", g, "servers")
  /\ Call(ok)
  /\ groups' = [groups EXCEPT ![g].servers = ok /\ g \in config.live]
  /\ pass' = [pass EXCEPT !.todo = IF ok \/ pass.err THEN Fin(g, "servers")
                                                     ELSE Step(g, "servers", "rollback")]
  /\ UNCHANGED <<config, cas, casCache, listeners, acls, dirty, edits>>

RollBackServerGroup(g, ok) ==
  /\ At("groups", g, "rollback")
  /\ Call(ok)
  /\ groups' = IF ok THEN [groups EXCEPT ![g] = None] ELSE groups
  /\ pass' = [pass EXCEPT !.todo = Fin(g, "rollback"), !.err = TRUE]
  /\ UNCHANGED <<config, cas, casCache, listeners, acls, dirty, edits>>

GroupsCreated ==
  /\ Through("groups")
  /\ IF pass.err THEN Fail
       ELSE pass' = Phase("regroup", pass.upd, "update") /\ UNCHANGED dirty
  /\ UNCHANGED <<config, cloud, edits, faults>>

\* the attributes (the configuration of health checks always seems to differ:
\* DeepEqual compares two types); then the servers of a Service that is gone
\* are taken out, and the error of that is lost
UpdateALBServerGroup(g, ok) ==
  /\ At("regroup", g, "update")
  /\ Call(ok)
  /\ LET done == ok /\ checkConfigValid
     IN /\ groups' = IF done THEN [groups EXCEPT ![g].attr = cfg.sgp] ELSE groups
        /\ pass' = [pass EXCEPT !.err = @ \/ ~done,
                       !.todo = IF done /\ g \in Service \ config.live /\ groups[g].servers
                                  THEN Step(g, "update", "remove") ELSE Fin(g, "update")]
  /\ UNCHANGED <<config, cas, casCache, listeners, acls, dirty, edits>>

removeServerFromServerGroup(g, ok) ==
  /\ At("regroup", g, "remove")
  /\ Call(ok)
  /\ groups' = IF ok THEN [groups EXCEPT ![g].servers = FALSE] ELSE groups
  /\ pass' = [pass EXCEPT !.todo = Fin(g, "remove")]
  /\ UNCHANGED <<config, cas, casCache, listeners, acls, dirty, edits>>

-----------------------------------------------------------------------------
(* Listeners.  The error of one goroutine, the first, is noted for its     *)
(* port and only that port is left out by the appliers that follow.  A     *)
(* listener whose goroutine failed has no ID for the rest of the pass.     *)

\* without forceOverride and listenerForceOverride only listeners with the
\* description the controller gives are seen on a load balancer that is reused
findSDKListenersOnLB_All == {l \in Listener : listeners[l] # None}

findSDKListenersOnLB ==
  {l \in Listener : /\ listeners[l] # None
                    /\ cfg.commonReuse => listeners[l].desc = "ingress-auto-listener"}

ListListeners(ok) ==
  /\ Through("regroup")
  /\ Call(ok)
  /\ IF ok /\ ~pass.err
       THEN /\ pass' = [Phase("create", DOMAIN cfg.ls \ findSDKListenersOnLB, "create")
                          EXCEPT !.upd = DOMAIN cfg.ls \cap findSDKListenersOnLB,
                                 !.del = findSDKListenersOnLB \ DOMAIN cfg.ls]
            /\ UNCHANGED dirty
       ELSE Fail
  /\ UNCHANGED <<config, cloud, edits>>

\* the first error of the goroutines is noted
Note(l, step) == [pass EXCEPT !.todo = Fin(l, step), !.err = TRUE,
                              !.errs = IF pass.err THEN @ ELSE @ \cup {l}]
Done(l, step) == [pass EXCEPT !.todo = Fin(l, step), !.ids = @ \cup {l}]

\* the certificates marked as default, by place, and the first of them
defaultCerts(l) == {i \in DOMAIN pass.certs[l] : pass.certs[l][i].isDefault}
defaultCert(l) ==
  pass.certs[l][CHOOSE i \in defaultCerts(l) : \A j \in defaultCerts(l) : i <= j].id
extraCerts(l) == {x.id : x \in {y \in ToSet(pass.certs[l]) : ~y.isDefault}}

\* protocol, port and timeouts of a request
isListenerValid(l) == cfg.ls[l].attr \notin Refused

\* the request needs exactly one default certificate; the port may be in use
\* by a listener the controller does not see; a failure may come after the
\* listener was created
CreateALBListener(l, ok) ==
  /\ At("create", l, "create")
  /\ Call(ok)
  /\ LET valid == isListenerValid(l) /\ (l \in Tls => Cardinality(defaultCerts(l)) = 1)
         free == listeners[l] = None
         spec == buildListenerSpec(cfg, l)
         made == [listeners EXCEPT ![l] =
                    [desc |-> spec.desc, attr |-> spec.attr, action |-> spec.action,
                     default |-> IF l \in Tls THEN defaultCert(l) ELSE None,
                     extras |-> {}, acl |-> {}, aclType |-> None, refs |-> {}]]
     IN IF ok /\ valid /\ free
          THEN /\ listeners' = made
               /\ pass' = IF l \in Tls
                            THEN [pass EXCEPT !.todo = Step(l, "create", "extras")]
                            ELSE Done(l, "create")
          ELSE /\ listeners' \in {listeners} \cup (IF valid /\ free THEN {made} ELSE {})
               /\ pass' = [Note(l, "create") EXCEPT !.inUse = @ \/ (ok /\ valid /\ ~pass.err)]
  /\ UNCHANGED <<config, cas, casCache, acls, groups, dirty, edits>>

\* the additional certificates of a listener just created
AssociateNew(l, ok) ==
  /\ At("create", l, "extras")
  /\ ok \/ extraCerts(l) # {}
  /\ Call(ok)
  /\ listeners' = IF ok THEN [listeners EXCEPT ![l].extras = extraCerts(l)] ELSE listeners
  /\ pass' = IF ok THEN Done(l, "extras") ELSE Note(l, "extras")
  /\ UNCHANGED <<config, cas, casCache, acls, groups, dirty, edits>>

\* a listener in use ends the pass, other errors only concern their port
ListenersCreated ==
  /\ Through("create")
  /\ IF pass.inUse THEN Fail
       ELSE pass' = Phase("update", pass.upd, "list") /\ UNCHANGED dirty
  /\ UNCHANGED <<config, cloud, edits, faults>>

\* the certificates to be associated in addition to the default: a default
\* that is among the wanted certificates stays, and the wanted default then
\* becomes an additional one
keepsDefault(l) ==
  defaultCerts(l) # {} /\ defaultCert(l) # listeners[l].default
    => listeners[l].default \in extraCerts(l)

desiredExtraCertIDs(l) ==
  LET swap == IF /\ defaultCerts(l) # {} /\ defaultCert(l) # listeners[l].default
                 /\ keepsDefault(l)
                THEN {defaultCert(l)} ELSE {}
  IN (extraCerts(l) \cup swap) \ {listeners[l].default}

listListenerCerts(l, ok) ==
  /\ At("update", l, "list")
  /\ ok \/ l \in Tls
  /\ Call(ok)
  /\ pass' = IF ~ok THEN Note(l, "list")
               ELSE [pass EXCEPT !.todo = Step(l, "list", IF l \in Tls THEN "extras" ELSE "attribute")]
  /\ UNCHANGED <<config, cloud, dirty, edits>>

\* missing certificates are associated, then those not wanted dissociated
AssociateExtras(l, ok) ==
  /\ At("update", l, "extras")
  /\ ok \/ ~(desiredExtraCertIDs(l) \subseteq listeners[l].extras)
  /\ Call(ok)
  /\ listeners' = IF ok THEN [listeners EXCEPT ![l].extras = @ \cup desiredExtraCertIDs(l)]
                        ELSE listeners
  /\ pass' = IF ok THEN [pass EXCEPT !.todo = Step(l, "extras", "dissociate")] ELSE Note(l, "extras")
  /\ UNCHANGED <<config, cas, casCache, acls, groups, dirty, edits>>

DissociateExtras(l, ok) ==
  /\ At("update", l, "dissociate")
  /\ ok \/ ~(listeners[l].extras \subseteq desiredExtraCertIDs(l))
  /\ Call(ok)
  /\ listeners' = IF ok THEN [listeners EXCEPT ![l].extras = @ \cap desiredExtraCertIDs(l)]
                        ELSE listeners
  /\ pass' = IF ok THEN [pass EXCEPT !.todo = Step(l, "dissociate", "attribute")]
                   ELSE Note(l, "dissociate")
  /\ UNCHANGED <<config, cas, casCache, acls, groups, dirty, edits>>

\* one request for all that differs, and none when nothing does; waiting for
\* the listener, before and after it, may fail in any case
updateListenerAttribute_DefaultFirst(l, ok) ==
  /\ At("update", l, "attribute")
  /\ LET spec == buildListenerSpec(cfg, l)
         new == [listeners[l] EXCEPT !.desc = spec.desc, !.attr = spec.attr, !.action = spec.action,
                   !.default = IF l \in Tls /\ defaultCerts(l) # {} THEN defaultCert(l) ELSE @]
         valid == isListenerValid(l)
     IN /\ Call(ok)
        /\ listeners' \in (IF valid THEN {[listeners EXCEPT ![l] = new]} ELSE {listeners})
                             \cup (IF ok THEN {} ELSE {listeners})
        /\ pass' = IF ok /\ valid THEN Done(l, "attribute") ELSE Note(l, "attribute")
  /\ UNCHANGED <<config, cas, casCache, acls, groups, dirty, edits>>

updateListenerAttribute(l, ok) ==
  /\ At("update", l, "attribute")
  /\ LET spec == buildListenerSpec(cfg, l)
         new == [listeners[l] EXCEPT !.desc = spec.desc, !.attr = spec.attr, !.action = spec.action,
                   !.default = IF l \in Tls /\ ~keepsDefault(l) THEN defaultCert(l) ELSE @]
         valid == isListenerValid(l)
     IN /\ Call(ok)
        /\ listeners' \in (IF valid THEN {[listeners EXCEPT ![l] = new]} ELSE {listeners})
                             \cup (IF ok THEN {} ELSE {listeners})
        /\ pass' = IF ok /\ valid THEN Done(l, "attribute") ELSE Note(l, "attribute")
  /\ UNCHANGED <<config, cas, casCache, acls, groups, dirty, edits>>

ListenersUpdated ==
  /\ Through("update")
  /\ pass' = Phase("delete", pass.del, "delete")
  /\ UNCHANGED <<config, cloud, dirty, edits, faults>>

\* external: the cloud takes the listener away later than the request returns.
\* What could meet it, the deletion of its server groups, is repeated while
\* they are in use, so here it is gone when the request returns.
DeleteALBListener(l, ok) ==
  /\ At("delete", l, "delete")
  /\ Call(ok)
  /\ listeners' = IF ok THEN [listeners EXCEPT ![l] = None] ELSE listeners
  /\ pass' = [pass EXCEPT !.todo = Fin(l, "delete"), !.err = @ \/ ~ok]
  /\ UNCHANGED <<config, cas, casCache, acls, groups, dirty, edits>>

-----------------------------------------------------------------------------
(* Access control lists.                                                   *)

\* a listener whose error was not noted has no ID and makes the applier fail,
\* unless the one that was noted hides it in the map by ID
ListenersDeleted ==
  /\ Through("delete")
  /\ IF pass.err THEN Fail
       ELSE /\ \E hit \in IF DOMAIN cfg.ls \subseteq pass.ids \cup pass.errs THEN {FALSE} ELSE BOOLEAN :
                 pass' = [Phase("acl", pass.ids, "get") EXCEPT !.err = hit]
            /\ UNCHANGED dirty
  /\ UNCHANGED <<config, cloud, edits, faults>>

AclDone(l, step, ok) == [pass EXCEPT !.todo = Fin(l, step), !.err = @ \/ ~ok]

\* the lists a listener has, and what to do: nothing when none is configured,
\* associate and dissociate when they are given by ID, otherwise update the
\* list of that name on the listener, or create one.  Everything is done
\* again when the type is another.
\* lists of the name wanted, among those the listener has
matchResAndSDKAcls(l) ==
  {a \in listeners[l].acl : acls[a].name = buildAcl(cfg, l).name}

findListenerAclConfig(l, ok) ==
  /\ At("acl", l, "get")
  /\ Call(ok)
  /\ LET want == buildAcl(cfg, l)
         cur == listeners[l].acl
         same == listeners[l].aclType = want.type
     IN IF ~ok \/ want.type = None
          THEN pass' = AclDone(l, "get", ok)
          ELSE IF want.name = <<>>
          THEN pass' = [pass EXCEPT !.todo = Step(l, "get", "associate"),
                                    !.acl[l] = IF same THEN want.ids \ cur ELSE want.ids,
                                    !.drop[l] = IF same THEN cur \ want.ids ELSE cur]
          ELSE IF same /\ matchResAndSDKAcls(l) # {}
          THEN \E a \in matchResAndSDKAcls(l) : pass' = [pass EXCEPT !.todo = Step(l, "get", "add"), !.acl[l] = {a}]
          ELSE pass' = [pass EXCEPT !.todo = Step(l, "get", "createAcl")]
  /\ UNCHANGED <<config, cloud, dirty, edits>>

\* external: the type of the relations is that of the last request
Associate(l, ids) ==
  [listeners EXCEPT ![l].acl = @ \cup ids, ![l].aclType = buildAcl(cfg, l).type]
Dissociate(l, ids) ==
  [listeners EXCEPT ![l].acl = @ \ ids,
                    ![l].aclType = IF listeners[l].acl \subseteq ids THEN None ELSE @]

AssociateAclWithListener_After(l, ok) ==
  /\ At("acl", l, "associate")
  /\ Call(ok)
  /\ listeners' = IF ok THEN Dissociate(l, pass.drop[l]) ELSE listeners
  /\ pass' = IF ok THEN [pass EXCEPT !.todo = Step(l, "associate", "dissociate"),
                                     !.drop[l] = {}]
                   ELSE AclDone(l, "associate", FALSE)
  /\ UNCHANGED <<config, cas, casCache, acls, groups, dirty, edits>>

AssociateAclWithListener(l, ok) ==
  /\ At("acl", l, "associate")
  /\ ok \/ pass.acl[l] # {}
  /\ Call(ok)
  /\ listeners' = IF ok /\ pass.acl[l] # {} THEN Associate(l, pass.acl[l]) ELSE listeners
  /\ pass' = IF ok THEN [pass EXCEPT !.todo = Step(l, "associate", "dissociate")]
                   ELSE AclDone(l, "associate", FALSE)
  /\ UNCHANGED <<config, cas, casCache, acls, groups, dirty, edits>>

DisassociateAclWithListener(l, ok) ==
  /\ At("acl", l, "dissociate")
  /\ ok \/ pass.drop[l] # {}
  /\ Call(ok)
  /\ listeners' = IF ok /\ pass.drop[l] # {} THEN Dissociate(l, pass.drop[l]) ELSE listeners
  /\ pass' = AclDone(l, "dissociate", ok)
  /\ UNCHANGED <<config, cas, casCache, acls, groups, dirty, edits>>

\* CreateAcl: create, wait, add the entries, associate; what fails once the
\* list could be waited for deletes it again, which may fail too
createAcl(l, ok) ==
  /\ At("acl", l, "createAcl")
  /\ Call(ok)
  /\ LET free == {a \in AclId : acls[a] = None}
         new == CHOOSE a \in free : TRUE
     IN IF ok /\ free # {}
          THEN /\ acls' = [acls EXCEPT ![new] = [name |-> buildAcl(cfg, l).name, entries |-> {}]]
               /\ pass' = [pass EXCEPT !.todo = Step(l, "createAcl", "wait"), !.acl[l] = {new}]
          ELSE UNCHANGED acls /\ pass' = AclDone(l, "createAcl", FALSE)
  /\ UNCHANGED <<config, cas, casCache, listeners, groups, dirty, edits>>

waitAclStatus(l, ok) ==
  /\ At("acl", l, "wait")
  /\ Call(ok)
  /\ pass' = IF ok THEN [pass EXCEPT !.todo = Step(l, "wait", "fill")] ELSE AclDone(l, "wait", FALSE)
  /\ UNCHANGED <<config, cloud, dirty, edits>>

deleteAcl(l) == {acls, [a \in AclId |-> IF a \in pass.acl[l] THEN None ELSE acls[a]]}

WithEntries(l, more, only) ==
  [a \in AclId |-> IF a \in pass.acl[l] THEN [acls[a] EXCEPT !.entries = (@ \cup more) \cap only]
                                         ELSE acls[a]]

FillAcl(l, ok) ==
  /\ At("acl", l, "fill")
  /\ Call(ok)
  /\ acls' \in IF ok THEN {WithEntries(l, buildAcl(cfg, l).entries, Entry)} ELSE deleteAcl(l)
  /\ pass' = IF ok THEN [pass EXCEPT !.todo = Step(l, "fill", "relate")] ELSE AclDone(l, "fill", FALSE)
  /\ UNCHANGED <<config, cas, casCache, listeners, groups, dirty, edits>>

RelateAcl(l, ok) ==
  /\ At("acl", l, "relate")
  /\ Call(ok)
  /\ listeners' = IF ok THEN Associate(l, pass.acl[l]) ELSE listeners
  /\ acls' \in IF ok THEN {acls} ELSE deleteAcl(l)
  /\ pass' = AclDone(l, "relate", ok)
  /\ UNCHANGED <<config, cas, casCache, groups, dirty, edits>>

\* UpdateAcl: entries that are missing are added, then others are removed
AddAclEntries(l, ok) ==
  /\ At("acl", l, "add")
  /\ Call(ok)
  /\ acls' = IF ok THEN WithEntries(l, buildAcl(cfg, l).entries, Entry) ELSE acls
  /\ pass' = IF ok THEN [pass EXCEPT !.todo = Step(l, "add", "remove")] ELSE AclDone(l, "add", FALSE)
  /\ UNCHANGED <<config, cas, casCache, listeners, groups, dirty, edits>>

RemoveAclEntries(l, ok) ==
  /\ At("acl", l, "remove")
  /\ Call(ok)
  /\ acls' = IF ok THEN WithEntries(l, {}, buildAcl(cfg, l).entries) ELSE acls
  /\ pass' = IF ok THEN [pass EXCEPT !.todo = Step(l, "remove", "related")] ELSE AclDone(l, "remove", FALSE)
  /\ UNCHANGED <<config, cas, casCache, listeners, groups, dirty, edits>>

\* the list was found on the listener and need not be associated
isAssociateAclWithListener(l, ok) ==
  /\ At("acl", l, "related")
  /\ Call(ok)
  /\ pass' = AclDone(l, "related", ok)
  /\ UNCHANGED <<config, cloud, dirty, edits>>

-----------------------------------------------------------------------------
(* Rules, the check of the errors and what is done at the end.             *)

AclsApplied ==
  /\ Through("acl")
  /\ IF pass.err THEN Fail
       ELSE /\ \E hit \in IF DOMAIN cfg.ls \subseteq pass.ids \cup pass.errs THEN {FALSE} ELSE BOOLEAN :
                 pass' = [Phase("rules", pass.ids, "rules") EXCEPT !.err = hit]
            /\ UNCHANGED dirty
  /\ UNCHANGED <<config, cloud, edits, faults>>

\* the server groups the rules of a listener forward to (AlbRules)
ApplyRules(l, ok) ==
  /\ At("rules", l, "rules")
  /\ Call(ok)
  /\ listeners' \in IF ok THEN {[listeners EXCEPT ![l].refs = cfg.backs[l]]}
                          ELSE {listeners, [listeners EXCEPT ![l].refs = @ \cup cfg.backs[l]]}
  /\ pass' = [pass EXCEPT !.todo = Fin(l, "rules"), !.err = @ \/ ~ok]
  /\ UNCHANGED <<config, cas, casCache, acls, groups, dirty, edits>>

\* an error of a port keeps the pass from deleting server groups
RulesApplied_IgnoresPorts ==
  /\ Through("rules")
  /\ IF pass.err THEN Fail
       ELSE pass' = Phase("post", pass.gone, "delete") /\ UNCHANGED dirty
  /\ UNCHANGED <<config, cloud, edits, faults>>

RulesApplied ==
  /\ Through("rules")
  /\ IF pass.err \/ pass.errs # {} THEN Fail
       ELSE pass' = Phase("post", pass.gone, "delete") /\ UNCHANGED dirty
  /\ UNCHANGED <<config, cloud, edits, faults>>

Used(g) == \E l \in Listener : /\ listeners[l] # None
                               /\ g = listeners[l].action \/ g \in listeners[l].refs

\* external: a group that is in use is not deleted
DeleteALBServerGroup(g, ok) ==
  /\ At("post", g, "delete")
  /\ Call(ok)
  /\ groups' = IF ok /\ ~Used(g) THEN [groups EXCEPT ![g] = None] ELSE groups
  /\ pass' = [pass EXCEPT !.todo = Fin(g, "delete"), !.err = @ \/ ~ok \/ Used(g)]
  /\ UNCHANGED <<config, cas, casCache, listeners, acls, dirty, edits>>

PassEnds_IgnoresErrors ==
  /\ Through("post")
  /\ pass' = [Idle EXCEPT !.cfg = cfg, !.certs = pass.certs]
  /\ UNCHANGED <<config, cloud, dirty, edits, faults>>

PassEnds ==
  /\ Through("post")
  /\ IF pass.err THEN Fail
       ELSE pass' = [Idle EXCEPT !.cfg = cfg, !.certs = pass.certs] /\ UNCHANGED dirty
  /\ UNCHANGED <<config, cloud, edits, faults>>

-----------------------------------------------------------------------------
(* The users, time and restarts.                                           *)

ChangeConfig(c) ==
  /\ edits < MaxEdits /\ edits' = edits + 1
  /\ c # config /\ config' = c
  /\ dirty' = TRUE
  /\ UNCHANGED <<cloud, pass, faults>>

\* nothing tells the controller about it
UploadCertificate(x) ==
  /\ x \notin cas /\ cas' = cas \cup {x}
  /\ UNCHANGED <<config, casCache, listeners, acls, groups, pass, dirty, edits, faults>>

CacheExpires ==
  /\ casCache # None /\ casCache' = None
  /\ UNCHANGED <<config, cas, listeners, acls, groups, pass, dirty, edits, faults>>

\* the first list of AlbConfigs after a restart puts it into the queue, that
\* of Services gives the groups that exist their servers (AlbServers)
Restart ==
  /\ pass.pc # "idle"
  /\ faults < MaxFaults /\ faults' = faults + 1
  /\ pass' = Idle /\ dirty' = TRUE /\ casCache' = None
  /\ groups' = [g \in Group |-> IF groups[g] # None /\ g \in config.live
                                  THEN [groups[g] EXCEPT !.servers = TRUE] ELSE groups[g]]
  /\ UNCHANGED <<config, cas, listeners, acls, edits>>

Init ==
  /\ config = Start
  /\ cas = Cert \ (Secrets \cup Upload) /\ casCache = None
  /\ listeners = [l \in Listener |->
       IF l \in Reused
         THEN [desc |-> "user", attr |-> None, action |-> None, default |-> None, extras |-> {},
               acl |-> {}, aclType |-> None, refs |-> {}]
         ELSE None]
  /\ acls = [a \in AclId |-> IF a \in UserAcl THEN [name |-> <<"user">>, entries |-> Entry] ELSE None]
  /\ groups = [g \in Group |-> None]
  /\ pass = Idle
  /\ dirty = TRUE /\ edits = 0 /\ faults = 0

Pass ==
  \/ GroupsCreated \/ ListenersCreated \/ ListenersUpdated
  \/ ListenersDeleted \/ AclsApplied \/ RulesApplied \/ PassEnds
  \/ \E ok \in BOOLEAN :
       \/ Build(ok) \/ ListServerGroups(ok) \/ ListListeners(ok)
       \/ \E x \in Secrets : CreateSSLCertificateWithName(x, ok)
       \/ \E g \in Group :
            \/ CreateALBServerGroup(g, ok) \/ addServerToServerGroup(g, ok)
            \/ RollBackServerGroup(g, ok) \/ UpdateALBServerGroup(g, ok)
            \/ removeServerFromServerGroup(g, ok) \/ DeleteALBServerGroup(g, ok)
       \/ \E l \in Listener :
            \/ CreateALBListener(l, ok) \/ AssociateNew(l, ok) \/ listListenerCerts(l, ok)
            \/ AssociateExtras(l, ok) \/ DissociateExtras(l, ok)
            \/ updateListenerAttribute(l, ok) \/ DeleteALBListener(l, ok)
            \/ findListenerAclConfig(l, ok) \/ AssociateAclWithListener(l, ok)
            \/ DisassociateAclWithListener(l, ok) \/ createAcl(l, ok) \/ waitAclStatus(l, ok) \/ FillAcl(l, ok)
            \/ RelateAcl(l, ok) \/ AddAclEntries(l, ok) \/ RemoveAclEntries(l, ok)
            \/ isAssociateAclWithListener(l, ok)
            \/ ApplyRules(l, ok)

Next ==
  \/ Pass \/ CacheExpires \/ Restart
  \/ \E c \in Config : ChangeConfig(c)
  \/ \E x \in Upload : UploadCertificate(x)

Spec == Init /\ [][Next]_vars

\* the worker takes what is in the queue, calls return, and the cache expires
FairSpec == Spec /\ WF_vars(Pass) /\ WF_vars(CacheExpires)

-----------------------------------------------------------------------------
(* Properties.                                                             *)

\* The types, and that every ACL a listener has exists.
TypeOK ==
  /\ config \in Config /\ cas \subseteq Cert
  /\ casCache \in {None} \cup SUBSET Cert
  /\ \A l \in Listener : listeners[l] # None =>
       /\ l \in Tls /\ listeners[l].desc # "user" => listeners[l].default \in Cert
       /\ listeners[l].extras \subseteq Cert \ {listeners[l].default}
       /\ listeners[l].acl \subseteq {a \in AclId : acls[a] # None}
       /\ listeners[l].acl = {} <=> listeners[l].aclType = None
  /\ \A g \in Group : groups[g] # None => groups[g].servers \in BOOLEAN
  /\ dirty \in BOOLEAN /\ pass.ids \cap pass.errs = {}
  /\ edits \in 0..MaxEdits /\ faults \in 0..MaxFaults

Quiet == pass.pc = "idle" /\ ~dirty

\* What the applier achieves for a listener with access control: lists given
\* by ID are exactly those on the listener; of entries there is a list with
\* the name and exactly these entries, beside any other lists that were on the
\* listener, which are not taken off (createAndUpdateMatchedAcl).  Without
\* access control it leaves the listener as it is.
AclInForce(l) ==
  LET want == buildAcl(config, l)
      cur == listeners[l].acl
  IN want.type # None =>
       /\ listeners[l].aclType = want.type
       /\ IF want.name = <<>> THEN cur = want.ids
            ELSE \E a \in cur : acls[a].name = want.name /\ acls[a].entries = want.entries

InSync ==
  /\ \A l \in DOMAIN config.ls :
       /\ listeners[l] # None
       /\ listeners[l].desc = buildListenerSpec(config, l).desc
       /\ listeners[l].attr = Sent(config, l)
       /\ listeners[l].action = DefaultGroup(l)
       /\ listeners[l].refs = config.backs[l]
       /\ AclInForce(l)
       /\ l \in Tls => {listeners[l].default} \cup listeners[l].extras
                         = {x.id : x \in ToSet(pass.certs[l])}
  /\ \A l \in Listener \ DOMAIN config.ls :
       listeners[l] # None => config.commonReuse /\ listeners[l].desc = "user"
  /\ \A g \in Group : groups[g] # None <=> g \in WantedGroups(config)
  /\ \A g \in WantedGroups(config) : groups[g].attr = config.sgp

\* When a pass has ended well and nothing is in the queue, the load balancer
\* has exactly the listeners, certificates, rules and server groups that the
\* configuration asks for, listeners have the attributes that requests carry,
\* and their access control lists are in force, though others may still be on
\* them, whatever was edited while earlier passes ran and whichever of their
\* calls failed (albconfig.go Apply).
QuietInSync == Quiet => pass.cfg = config /\ InSync

\* Every listener configured with an access control list has it once a pass
\* has ended well (aclApplier).
AclsInForce == Quiet => \A l \in DOMAIN config.ls : AclInForce(l)

\* Every server group that rules forward to has been given servers once a
\* pass has ended well, as long as its Service exists (serverGroupApplier).
ServersRegistered ==
  Quiet => \A g \in Service \cap WantedGroups(config) \cap config.live : groups[g].servers

\* A certificate of a listener that the pass wants is not taken off, but for
\* the one that is about to become the default: the certificates that stay
\* are never missing in between (updateListenerExtraCertificates and
\* updateListenerAttribute choose which default to keep).
WantedCertsStay ==
  [][\A l \in Tls :
       pass.pc = "update" /\ listeners[l] # None /\ l \in DOMAIN cfg.ls =>
         \A x \in {listeners[l].default} \cup listeners[l].extras :
           /\ \E i \in DOMAIN pass.certs[l] : pass.certs[l][i].id = x
           /\ x # pass.certs[l][1].id
           => x \in {listeners'[l].default} \cup listeners'[l].extras]_vars

\* A listener that is protected by an access control list is at no moment
\* without one while the lists are changed (synthesizeAclsOnListener
\* associates before it dissociates).
AclNeverLifted ==
  [][\A l \in Listener :
       listeners[l] # None /\ listeners'[l] # None /\ listeners[l].acl # {}
         => listeners'[l].acl # {}]_vars

\* Listeners that belong to a user are only touched by a pass that may
\* override them (findSDKListenersOnLB).
UserListenersKept ==
  [][\A l \in Reused :
       listeners[l] # None /\ listeners[l].desc = "user" /\ listeners'[l] # listeners[l]
         => ~cfg.commonReuse]_vars

\* When server groups are deleted no listener and no rule refers to them
\* any more, although ports with errors keep their old rules (PostApply).
DeletesUnused == pass.pc = "post" => \A g \in pass.gone : ~Used(g)

\* the configuration can be applied as far as users are concerned
Applicable ==
  /\ Buildable(config, cas)
  /\ config.sgp \notin Refused
  /\ \A l \in DOMAIN config.ls : config.ls[l].attr \notin Refused
  /\ config.commonReuse => \A l \in DOMAIN config.ls \cap Reused :
                             listeners[l] # None => listeners[l].desc # "user"

\* Once the users have stopped and the configuration can be applied, the load
\* balancer follows it for good, whatever failed before: failed passes are
\* repeated and the cache of certificates does not stay stale.
Converges == <>[]Applicable => <>[](Quiet /\ InSync)

=============================================================================
