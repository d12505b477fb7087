------------------------- MODULE AlbListenersProofs -------------------------
(***************************************************************************)
(* Proofs about AlbListeners, for any listeners, configurations, edits and *)
(* failures: the listeners of a user are left alone, a listener does not   *)
(* lose its access control, certificates that are wanted stay, what is     *)
(* deleted at the end of a pass is not in use, and when a pass has ended   *)
(* well the load balancer is as the configuration asks.                    *)
(***************************************************************************)
EXTENDS AlbListeners, FiniteSetTheorems, SequenceTheorems, TLAPS

AutoDesc == "ingress-auto-listener"

\* The phases before the appliers of listeners
Preparing == {"secrets", "groups", "regroup"}

\* The appliers of listeners, access control lists and rules
Working == {"create", "update", "delete", "acl", "rules"}

\* What a goroutine may have to do next for a listener that exists
Later == {"list", "extras", "dissociate", "attribute", "delete", "get", "associate", "createAcl",
          "wait", "fill", "relate", "add", "remove", "related", "rules"}

PassRecord(p) ==
  /\ p = [pc |-> p.pc, todo |-> p.todo, err |-> p.err, errs |-> p.errs, inUse |-> p.inUse,
          ids |-> p.ids, upd |-> p.upd, del |-> p.del, gone |-> p.gone, cfg |-> p.cfg,
          certs |-> p.certs, acl |-> p.acl, drop |-> p.drop]
  /\ p.err \in BOOLEAN /\ p.inUse \in BOOLEAN
  /\ p.acl = [l \in Listener |-> p.acl[l]] /\ p.drop = [l \in Listener |-> p.drop[l]]

ListenerRecord(x) ==
  x = [desc |-> x.desc, attr |-> x.attr, action |-> x.action, default |-> x.default,
       extras |-> x.extras, acl |-> x.acl, aclType |-> x.aclType, refs |-> x.refs]

\* Listeners that the pass has found or made, and works on or will
Touched(p) ==
  {l \in Listener : \/ p.pc = "create" /\ l \in p.upd \cup p.del
                    \/ p.pc = "update" /\ l \in p.del
                    \/ p.pc \in Working /\ (l \in p.ids \/ \E s \in Later : <<l, s>> \in p.todo)}

\* The goroutines of a pass work on listeners of its configuration, or on
\* others to delete them.
Targets(p) ==
  p.pc \in Working =>
    /\ p.ids \subseteq DOMAIN p.cfg.ls
    /\ p.pc = "create" => p.upd \subseteq DOMAIN p.cfg.ls
    /\ p.pc \in {"create", "update"} => p.del \cap DOMAIN p.cfg.ls = {}
    /\ IF p.pc = "delete" THEN \A x \in p.todo : x[1] \notin DOMAIN p.cfg.ls /\ x[2] = "delete"
                          ELSE \A x \in p.todo : x[1] \in DOMAIN p.cfg.ls

Shapes ==
  /\ config \in Config
  /\ listeners = [l \in Listener |-> listeners[l]]
  /\ \A l \in Listener : listeners[l] = None \/ ListenerRecord(listeners[l])
  /\ PassRecord(pass)
  /\ pass.pc # "idle" => pass.cfg \in Config
  /\ pass.pc \in Preparing => pass.ids = {} /\ pass.errs = {}
  /\ Targets(pass)
  /\ \A l \in Touched(pass) : ListenerRecord(listeners[l])

\* The pass as a step of a goroutine for l leaves it
Worked(l, x) ==
  /\ l \in Listener /\ pass.pc \in Working \ {"delete"}
  /\ listeners' = [listeners EXCEPT ![l] = x]
  /\ PassRecord(pass') /\ pass'.pc = pass.pc /\ pass'.cfg = pass.cfg /\ pass'.upd = pass.upd
  /\ pass'.del = pass.del /\ pass'.gone = pass.gone /\ pass'.certs = pass.certs
  /\ \E s \in Later \cup {"create"} :
       /\ <<l, s>> \in pass.todo
       /\ \/ pass'.todo = pass.todo \ {<<l, s>>}
          \/ \E t \in Later : pass'.todo = (pass.todo \ {<<l, s>>}) \cup {<<l, t>>}
  /\ pass'.ids \in {pass.ids, pass.ids \cup {l}}
  /\ config' = config

-----------------------------------------------------------------------------
(* Steps                                                                   *)

\* Work on one listener keeps the shapes of everything.
LEMMA WorkedStep ==
  ASSUME Shapes, NEW l, NEW x, Worked(l, x),
         x = listeners[l] \/ ListenerRecord(x),
         ListenerRecord(x) \/ (pass'.ids = pass.ids /\ pass'.todo \subseteq pass.todo)
  PROVE  Shapes'
<1>1. /\ listeners' = [k \in Listener |-> listeners'[k]] /\ listeners'[l] = x
      /\ \A k \in Listener \ {l} : listeners'[k] = listeners[k]
      /\ l \in Listener /\ pass.pc \in Working \ {"delete"}
  BY DEF Shapes, Worked
<1>2. PICK s \in Later \cup {"create"} :
        /\ <<l, s>> \in pass.todo
        /\ \/ pass'.todo = pass.todo \ {<<l, s>>}
           \/ \E t \in Later : pass'.todo = (pass.todo \ {<<l, s>>}) \cup {<<l, t>>}
  BY DEF Worked
<1>3. pass.pc # "idle" /\ l \in DOMAIN pass.cfg.ls
  <2>1. <<l, s>>[1] \in DOMAIN pass.cfg.ls
    BY <1>1, <1>2 DEF Shapes, Targets
  <2> QED
    BY <1>1, <2>1 DEF Working
<1>4. \A k \in Listener : listeners'[k] = None \/ ListenerRecord(listeners'[k])
  BY <1>1 DEF Shapes
<1>5. Targets(pass')
  <2>1. pass'.ids \subseteq DOMAIN pass.cfg.ls
    BY <1>1, <1>3 DEF Shapes, Targets, Worked
  <2>2. \A y \in pass'.todo : y[1] \in DOMAIN pass.cfg.ls
    <3>1. \A y \in pass.todo : y[1] \in DOMAIN pass.cfg.ls
      BY <1>1 DEF Shapes, Targets
    <3> QED
      BY <1>2, <1>3, <3>1
  <2> QED
    BY <1>1, <2>1, <2>2 DEF Shapes, Targets, Worked
<1>6. ASSUME NEW k \in Touched(pass') PROVE ListenerRecord(listeners'[k])
  <2>1. CASE k = l
    <3>1. CASE ListenerRecord(x)
      BY <1>1, <2>1, <3>1
    <3>2. CASE pass'.ids = pass.ids /\ pass'.todo \subseteq pass.todo /\ x = listeners[l]
      <4>1. k \in Touched(pass)
        BY <3>2 DEF Touched, Worked
      <4> QED
        BY <1>1, <2>1, <3>2, <4>1 DEF Shapes
    <3> QED
      BY <3>1, <3>2
  <2>2. CASE k # l
    <3>1. k \in Touched(pass)
      <4>1. \A t : <<k, t>> \in pass'.todo => <<k, t>> \in pass.todo
        BY <1>2, <2>2
      <4>2. k \in pass'.ids => k \in pass.ids
        BY <2>2 DEF Worked
      <4> QED
        BY <4>1, <4>2 DEF Touched, Worked
    <3>2. k \in Listener
      BY DEF Touched
    <3> QED
      BY <1>1, <2>2, <3>1, <3>2 DEF Shapes
  <2> QED
    BY <2>1, <2>2
<1>7. pass'.pc \notin Preparing
  BY <1>1 DEF Worked, Working, Preparing
<1> QED
  BY <1>1, <1>3, <1>4, <1>5, <1>6, <1>7 DEF Shapes, Worked

\* A goroutine of the applier of listeners fails, or gets on or is done.
Failed(l) ==
  /\ pass'.err = TRUE /\ pass'.errs = (IF pass.err THEN pass.errs ELSE pass.errs \cup {l})
  /\ pass'.ids = pass.ids /\ pass'.todo \subseteq pass.todo

Advanced(l) ==
  /\ pass'.err = pass.err /\ pass'.errs = pass.errs
  /\ \/ pass'.ids = pass.ids /\ \E t \in Later : <<l, t>> \in pass'.todo
     \/ pass'.ids = pass.ids \cup {l}

NewListener(l, x) ==
  /\ ListenerRecord(x) /\ x.desc = buildListenerSpec(cfg, l).desc /\ x.action = DefaultGroup(l)
  /\ x.acl = {} /\ x.aclType = None /\ x.refs = {}

\* What the goroutine of a listener that exists keeps of it, but for the
\* fields it is about
SameAcl(l, x) == x.acl = listeners[l].acl /\ x.aclType = listeners[l].aclType

SameUse(l, x) == /\ x.desc = listeners[l].desc /\ x.action = listeners[l].action
                 /\ x.refs = listeners[l].refs

\* The creation of a listener is work on that listener.
LEMMA CreateSteps ==
  ASSUME Shapes, NEW l \in Listener, NEW ok \in BOOLEAN, CreateALBListener(l, ok)
  PROVE  \E x : /\ Worked(l, x) /\ pass.pc = "create" /\ UNCHANGED <<pass.acl, pass.drop>>
                /\ \/ x = listeners[l] /\ Failed(l)
                   \/ listeners[l] = None /\ NewListener(l, x) /\ (Failed(l) \/ Advanced(l))
<1> DEFINE spec == buildListenerSpec(cfg, l)
           new == [desc |-> spec.desc, attr |-> spec.attr, action |-> spec.action,
                   default |-> IF l \in Tls THEN defaultCert(l) ELSE None,
                   extras |-> {}, acl |-> {}, aclType |-> None, refs |-> {}]
<1>1. PassRecord(pass) /\ listeners = [k \in Listener |-> listeners[k]]
  BY DEF Shapes
<1>2. pass.pc = "create" /\ <<l, "create">> \in pass.todo /\ config' = config
  BY DEF CreateALBListener, At
<1>3. NewListener(l, new)
  <2>1. spec.action = DefaultGroup(l)
    BY DEF buildListenerSpec
  <2> HIDE DEF spec
  <2>2. ListenerRecord(new)
    BY DEF ListenerRecord
  <2> QED
    BY <2>1, <2>2 DEF NewListener, spec
<1> HIDE DEF new
<1>4. CASE listeners' = [listeners EXCEPT ![l] = new] /\ listeners[l] = None
           /\ pass' = [pass EXCEPT !.todo = Step(l, "create", "extras")]
  <2>1. Worked(l, new) /\ Advanced(l) /\ UNCHANGED <<pass.acl, pass.drop>>
    BY <1>1, <1>2, <1>4 DEF Worked, Advanced, PassRecord, Working, Later, Step
  <2> QED
    BY <1>2, <1>3, <1>4, <2>1
<1>5. CASE listeners' = [listeners EXCEPT ![l] = new] /\ listeners[l] = None
           /\ pass' = Done(l, "create")
  <2>1. Worked(l, new) /\ Advanced(l) /\ UNCHANGED <<pass.acl, pass.drop>>
    BY <1>1, <1>2, <1>5 DEF Worked, Advanced, PassRecord, Working, Later, Fin, Done
  <2> QED
    BY <1>2, <1>3, <1>5, <2>1
<1>6. ASSUME NEW x, listeners' = [listeners EXCEPT ![l] = x],
             \/ x = listeners[l]
             \/ x = new /\ listeners[l] = None,
             NEW b \in BOOLEAN, pass' = [Note(l, "create") EXCEPT !.inUse = b]
      PROVE  /\ Worked(l, x) /\ UNCHANGED <<pass.acl, pass.drop>> /\ Failed(l)
             /\ x = listeners[l] \/ (listeners[l] = None /\ NewListener(l, x))
  <2>1. Worked(l, x) /\ Failed(l) /\ UNCHANGED <<pass.acl, pass.drop>>
    BY <1>1, <1>2, <1>6 DEF Worked, Failed, PassRecord, Working, Later, Fin, Note
  <2> QED
    BY <1>3, <1>6, <2>1
<1>7. listeners = [listeners EXCEPT ![l] = listeners[l]]
  BY <1>1
<1>8. \/ /\ listeners' = [listeners EXCEPT ![l] = new] /\ listeners[l] = None
         /\ pass' \in {[pass EXCEPT !.todo = Step(l, "create", "extras")], Done(l, "create")}
      \/ /\ listeners' = listeners \/ (listeners' = [listeners EXCEPT ![l] = new] /\ listeners[l] = None)
         /\ \E b \in BOOLEAN : pass' = [Note(l, "create") EXCEPT !.inUse = b]
  <2> DEFINE valid == isListenerValid(l) /\ (l \in Tls => Cardinality(defaultCerts(l)) = 1)
  <2>1. IF ok /\ valid /\ listeners[l] = None
          THEN /\ listeners' = [listeners EXCEPT ![l] = new]
               /\ pass' = IF l \in Tls
                            THEN [pass EXCEPT !.todo = Step(l, "create", "extras")]
                            ELSE Done(l, "create")
          ELSE /\ listeners' \in {listeners} \cup (IF valid /\ listeners[l] = None
                                                     THEN {[listeners EXCEPT ![l] = new]} ELSE {})
               /\ pass' = [Note(l, "create") EXCEPT !.inUse = @ \/ (ok /\ valid /\ ~pass.err)]
    BY DEF CreateALBListener, new
  <2>2. Note(l, "create").inUse \in BOOLEAN
    BY <1>1 DEF Note, PassRecord
  <2> HIDE DEF valid
  <2>3. \E b \in BOOLEAN : [Note(l, "create") EXCEPT !.inUse = @ \/ (ok /\ valid /\ ~pass.err)]
                             = [Note(l, "create") EXCEPT !.inUse = b]
    <3>1. PICK b : b = (Note(l, "create").inUse \/ (ok /\ valid /\ ~pass.err))
      OBVIOUS
    <3>2. b \in BOOLEAN
      BY <3>1
    <3> QED
      BY <3>1, <3>2
  <2> QED
    BY <2>1, <2>3
<1> QED
  BY <1>2, <1>4, <1>5, <1>6, <1>7, <1>8

\* A listener with what the configuration says of it
Described(l, x) == x.desc = buildListenerSpec(cfg, l).desc /\ x.action = DefaultGroup(l)

\* The calls for certificates and attributes are work on their listener.
LEMMA ListenerSteps ==
  ASSUME Shapes, NEW l \in Listener, NEW ok \in BOOLEAN,
         \/ AssociateNew(l, ok) \/ listListenerCerts(l, ok) \/ AssociateExtras(l, ok)
         \/ DissociateExtras(l, ok) \/ updateListenerAttribute(l, ok)
  PROVE  \E x : /\ Worked(l, x) /\ pass.pc \in {"create", "update"} /\ UNCHANGED <<pass.acl, pass.drop>>
                /\ l \in Touched(pass) /\ ListenerRecord(listeners[l]) /\ ListenerRecord(x)
                /\ SameAcl(l, x) /\ x.refs = listeners[l].refs /\ (SameUse(l, x) \/ Described(l, x))
                /\ pass.pc = "create" => SameUse(l, x) /\ <<l, "extras">> \in pass.todo
                /\ Failed(l) \/ (Advanced(l) /\ (pass.pc = "update" /\ l \in pass'.ids /\ l \notin pass.ids
                                                   => Described(l, x)))
<1>1. PassRecord(pass) /\ listeners = [k \in Listener |-> listeners[k]]
  BY DEF Shapes
<1>2. listeners = [listeners EXCEPT ![l] = listeners[l]]
  BY <1>1
<1> DEFINE Goal(x) ==
                /\ Worked(l, x) /\ pass.pc \in {"create", "update"} /\ UNCHANGED <<pass.acl, pass.drop>>
                /\ l \in Touched(pass) /\ ListenerRecord(listeners[l]) /\ ListenerRecord(x)
                /\ SameAcl(l, x) /\ x.refs = listeners[l].refs /\ (SameUse(l, x) \/ Described(l, x))
                /\ pass.pc = "create" => SameUse(l, x) /\ <<l, "extras">> \in pass.todo
                /\ Failed(l) \/ (Advanced(l) /\ (pass.pc = "update" /\ l \in pass'.ids /\ l \notin pass.ids
                                                   => Described(l, x)))
<1>3. ASSUME NEW x, NEW s \in Later, <<l, s>> \in pass.todo, pass.pc \in {"create", "update"},
             config' = config,
             pass.pc = "create" => s = "extras" /\ SameUse(l, x),
             ListenerRecord(listeners[l]) => ListenerRecord(x) /\ SameAcl(l, x) /\ x.refs = listeners[l].refs
                                            /\ (SameUse(l, x) \/ Described(l, x)),
             listeners' = [listeners EXCEPT ![l] = x],
             \/ pass' = Note(l, s)
             \/ pass' = Done(l, s)
                /\ (pass.pc = "update" => (ListenerRecord(listeners[l]) => Described(l, x)))
             \/ \E t \in Later : pass' = [pass EXCEPT !.todo = Step(l, s, t)]
      PROVE  Goal(x)
  <2>1. l \in Touched(pass)
    BY <1>3 DEF Touched, Working
  <2>2. ListenerRecord(listeners[l])
    BY <2>1 DEF Shapes
  <2>3. CASE pass' = Note(l, s)
    <3>1. Worked(l, x) /\ Failed(l) /\ UNCHANGED <<pass.acl, pass.drop>>
      BY <1>1, <1>3, <2>3 DEF Worked, Failed, PassRecord, Working, Fin, Note
    <3> QED
      BY <1>3, <2>1, <2>2, <3>1
  <2>4. CASE pass' = Done(l, s) /\ (pass.pc = "update" => (ListenerRecord(listeners[l]) => Described(l, x)))
    <3>1. Worked(l, x) /\ Advanced(l) /\ UNCHANGED <<pass.acl, pass.drop>>
      BY <1>1, <1>3, <2>4 DEF Worked, Advanced, PassRecord, Working, Fin, Done
    <3> QED
      BY <1>3, <2>1, <2>2, <2>4, <3>1
  <2>5. ASSUME NEW t \in Later, pass' = [pass EXCEPT !.todo = Step(l, s, t)] PROVE Goal(x)
    <3>1. Worked(l, x) /\ Advanced(l) /\ pass'.ids = pass.ids /\ UNCHANGED <<pass.acl, pass.drop>>
      BY <1>1, <1>3, <2>5 DEF Worked, Advanced, PassRecord, Working, Step
    <3> QED
      BY <1>3, <2>1, <2>2, <3>1
  <2> QED
    BY <1>3, <2>3, <2>4, <2>5
<1>4. ASSUME NEW y, ListenerRecord(listeners[l])
      PROVE  LET x == [listeners[l] EXCEPT !.extras = y]
             IN  ListenerRecord(x) /\ SameAcl(l, x) /\ SameUse(l, x)
  BY <1>4 DEF ListenerRecord, SameAcl, SameUse
<1>5. ListenerRecord(listeners[l]) => SameAcl(l, listeners[l]) /\ SameUse(l, listeners[l])
  BY DEF SameAcl, SameUse
<1>6. \A x : SameUse(l, x) => x.refs = listeners[l].refs
  BY DEF SameUse
<1>7. SameUse(l, listeners[l])
  BY DEF SameUse
<1>8. CASE AssociateNew(l, ok)
  <2>1. /\ pass.pc = "create" /\ <<l, "extras">> \in pass.todo /\ config' = config /\ "extras" \in Later
        /\ pass' = Done(l, "extras") \/ pass' = Note(l, "extras")
        /\ \/ listeners' = [listeners EXCEPT ![l].extras = extraCerts(l)]
           \/ listeners' = listeners
    BY <1>8 DEF AssociateNew, At, Later
  <2>2. l \in Touched(pass)
    BY <2>1 DEF Touched, Working
  <2>3. ListenerRecord(listeners[l])
    BY <2>2 DEF Shapes
  <2>4. PICK x : /\ listeners' = [listeners EXCEPT ![l] = x]
                 /\ x = listeners[l] \/ x = [listeners[l] EXCEPT !.extras = extraCerts(l)]
    BY <1>1, <1>2, <2>1
  <2>5. ListenerRecord(x) /\ SameAcl(l, x) /\ SameUse(l, x)
    BY <1>4, <1>5, <2>3, <2>4
  <2>6. Goal(x)
    <3> HIDE DEF Goal
    <3> QED
      BY <1>3, <1>6, <2>1, <2>4, <2>5
  <2> QED
    BY <2>6
<1>9. CASE listListenerCerts(l, ok)
  <2>1. /\ pass.pc = "update" /\ <<l, "list">> \in pass.todo /\ config' = config /\ "list" \in Later
        /\ \/ pass' = Note(l, "list")
           \/ \E t \in Later : pass' = [pass EXCEPT !.todo = Step(l, "list", t)]
        /\ listeners' = listeners
    BY <1>9 DEF listListenerCerts, At, Later, cloud
  <2>2. listeners' = [listeners EXCEPT ![l] = listeners[l]]
    BY <1>2, <2>1
  <2>3. Goal(listeners[l])
    <3>1. PICK x : x = listeners[l]
      OBVIOUS
    <3> HIDE DEF Goal
    <3>2. Goal(x)
      BY <1>3, <1>5, <1>6, <1>7, <2>1, <2>2, <3>1
    <3> QED
      BY <3>1, <3>2
  <2> QED
    BY <2>3
<1>10. CASE AssociateExtras(l, ok) \/ DissociateExtras(l, ok)
  <2>0. PICK s \in {"extras", "dissociate"} : \E y :
          /\ pass.pc = "update" /\ <<l, s>> \in pass.todo /\ config' = config
          /\ \/ pass' = Note(l, s)
             \/ \E t \in Later : pass' = [pass EXCEPT !.todo = Step(l, s, t)]
          /\ \/ listeners' = [listeners EXCEPT ![l].extras = y]
             \/ listeners' = listeners
    <3>1. CASE AssociateExtras(l, ok)
      BY <3>1 DEF AssociateExtras, At, Later
    <3>2. CASE DissociateExtras(l, ok)
      BY <3>2 DEF DissociateExtras, At, Later
    <3> QED
      BY <1>10, <3>1, <3>2
  <2>1. PICK y :
          /\ pass.pc = "update" /\ <<l, s>> \in pass.todo /\ config' = config
          /\ \/ pass' = Note(l, s)
             \/ \E t \in Later : pass' = [pass EXCEPT !.todo = Step(l, s, t)]
          /\ \/ listeners' = [listeners EXCEPT ![l].extras = y]
             \/ listeners' = listeners
    BY <2>0
  <2>2. s \in Later
    BY DEF Later
  <2>3. PICK x : /\ listeners' = [listeners EXCEPT ![l] = x]
                 /\ x = listeners[l] \/ x = [listeners[l] EXCEPT !.extras = y]
    BY <1>1, <1>2, <2>1
  <2>4. ListenerRecord(listeners[l]) => ListenerRecord(x) /\ SameAcl(l, x) /\ SameUse(l, x)
    BY <1>4, <1>5, <2>3
  <2>5. Goal(x)
    <3> HIDE DEF Goal
    <3> QED
      BY <1>3, <1>6, <2>1, <2>2, <2>3, <2>4
  <2> QED
    BY <2>5
<1>11. CASE updateListenerAttribute(l, ok)
  <2> DEFINE spec == buildListenerSpec(cfg, l)
             new == [listeners[l] EXCEPT !.desc = spec.desc, !.attr = spec.attr, !.action = spec.action,
                       !.default = IF l \in Tls /\ ~keepsDefault(l) THEN defaultCert(l) ELSE @]
  <2>1. /\ pass.pc = "update" /\ <<l, "attribute">> \in pass.todo /\ config' = config
        /\ "attribute" \in Later
    BY <1>11 DEF updateListenerAttribute, At, Later
  <2>2. \/ pass' = Done(l, "attribute") /\ listeners' = [listeners EXCEPT ![l] = new]
        \/ pass' = Note(l, "attribute") /\ listeners' \in {listeners, [listeners EXCEPT ![l] = new]}
    BY <1>11 DEF updateListenerAttribute
  <2>3. ListenerRecord(listeners[l]) =>
          ListenerRecord(new) /\ SameAcl(l, new) /\ new.refs = listeners[l].refs /\ Described(l, new)
    <3>1. spec.action = DefaultGroup(l)
      BY DEF buildListenerSpec
    <3> HIDE DEF spec
    <3>2. ListenerRecord(listeners[l]) =>
            /\ ListenerRecord(new) /\ SameAcl(l, new) /\ new.refs = listeners[l].refs
            /\ new.desc = spec.desc /\ new.action = spec.action
      <4>1. PICK r, d : r = listeners[l] /\ d = IF l \in Tls /\ ~keepsDefault(l) THEN defaultCert(l) ELSE r.default
        OBVIOUS
      <4>2. new = [r EXCEPT !.desc = spec.desc, !.attr = spec.attr, !.action = spec.action, !.default = d]
        BY <4>1
      <4> HIDE DEF new
      <4> QED
        BY <4>1, <4>2 DEF ListenerRecord, SameAcl
    <3> QED
      BY <3>1, <3>2 DEF Described, spec
  <2> HIDE DEF new
  <2>4. CASE listeners' = [listeners EXCEPT ![l] = new]
    <3>1. PICK x : x = new
      OBVIOUS
    <3>2. Goal(x)
      <4> HIDE DEF Goal
      <4> QED
        BY <1>3, <2>1, <2>2, <2>3, <2>4, <3>1
    <3> QED
      BY <3>2
  <2>5. CASE pass' = Note(l, "attribute") /\ listeners' = listeners
    <3>1. PICK x : x = listeners[l]
      OBVIOUS
    <3>2. listeners' = [listeners EXCEPT ![l] = x]
      BY <1>2, <2>5, <3>1
    <3>3. Goal(x)
      <4> HIDE DEF Goal
      <4> QED
        BY <1>3, <1>5, <1>6, <2>1, <2>5, <3>1, <3>2
    <3> QED
      BY <3>3
  <2> QED
    BY <2>2, <2>4, <2>5
<1> QED
  BY <1>8, <1>9, <1>10, <1>11

-----------------------------------------------------------------------------
(* Access control lists                                                    *)

OnlyLists(l) ==
  \A k \in Listener \ {l} : pass'.acl[k] = pass.acl[k] /\ pass'.drop[k] = pass.drop[k]

SameLists == pass'.acl = pass.acl /\ pass'.drop = pass.drop

\* What the goroutine of l does next and what is left of the lists
AclMove(l, x) ==
  LET r    == listeners[l]
      want == buildAcl(cfg, l)
  IN \/ \E s \in Later : /\ <<l, s>> \in pass.todo /\ pass'.todo = Fin(l, s)
                         /\ SameAcl(l, x) /\ SameLists
     \/ /\ <<l, "get">> \in pass.todo /\ pass'.todo = Step(l, "get", "associate")
        /\ want.type # None /\ want.name = <<>> /\ SameAcl(l, x) /\ OnlyLists(l)
        /\ pass'.acl[l] = IF r.aclType = want.type THEN want.ids \ r.acl ELSE want.ids
        /\ pass'.drop[l] = IF r.aclType = want.type THEN r.acl \ want.ids ELSE r.acl
     \/ \E s \in Later, t \in {"createAcl", "wait", "fill", "relate", "add", "remove", "related"} :
          /\ <<l, s>> \in pass.todo /\ pass'.todo = Step(l, s, t)
          /\ s = "get" => want.type # None
          /\ SameAcl(l, x) /\ OnlyLists(l)
     \/ /\ <<l, "associate">> \in pass.todo /\ pass'.todo = Step(l, "associate", "dissociate")
        /\ \/ SameAcl(l, x) /\ pass.acl[l] = {}
           \/ x.acl = r.acl \cup pass.acl[l] /\ x.aclType = want.type
        /\ SameLists
     \/ /\ <<l, "dissociate">> \in pass.todo /\ pass'.todo = Fin(l, "dissociate") /\ SameLists
        /\ x.acl = r.acl \ pass.drop[l]
        /\ x.aclType = IF r.acl \subseteq pass.drop[l] THEN None ELSE r.aclType
     \/ /\ <<l, "relate">> \in pass.todo /\ pass'.todo = Fin(l, "relate") /\ SameLists
        /\ x.acl = r.acl \cup pass.acl[l] /\ x.aclType = want.type

\* The calls for access control are work on their listener.
LEMMA AclSteps ==
  ASSUME Shapes, NEW l \in Listener, NEW ok \in BOOLEAN,
         \/ findListenerAclConfig(l, ok) \/ AssociateAclWithListener(l, ok)
         \/ DisassociateAclWithListener(l, ok) \/ createAcl(l, ok) \/ waitAclStatus(l, ok)
         \/ FillAcl(l, ok) \/ RelateAcl(l, ok) \/ AddAclEntries(l, ok) \/ RemoveAclEntries(l, ok)
         \/ isAssociateAclWithListener(l, ok)
  PROVE  \E x : /\ Worked(l, x) /\ pass.pc = "acl" /\ AclMove(l, x)
                /\ l \in Touched(pass) /\ ListenerRecord(listeners[l]) /\ ListenerRecord(x)
                /\ SameUse(l, x) /\ pass'.ids = pass.ids /\ pass'.errs = pass.errs
<1>1. PassRecord(pass) /\ listeners = [k \in Listener |-> listeners[k]]
  BY DEF Shapes
<1>2. listeners = [listeners EXCEPT ![l] = listeners[l]]
  BY <1>1
<1>3. /\ pass.pc = "acl" /\ config' = config
      /\ \E s \in Later : <<l, s>> \in pass.todo
  BY DEF findListenerAclConfig, AssociateAclWithListener, DisassociateAclWithListener, createAcl,
         waitAclStatus, FillAcl, RelateAcl, AddAclEntries, RemoveAclEntries,
         isAssociateAclWithListener, At, Later
<1>4. l \in Touched(pass)
  BY <1>3 DEF Touched, Working
<1>5. ListenerRecord(listeners[l]) /\ SameUse(l, listeners[l]) /\ SameAcl(l, listeners[l])
  BY <1>4 DEF Shapes, SameUse, SameAcl
<1>6. ASSUME NEW ids
      PROVE  /\ \E x : /\ Associate(l, ids) = [listeners EXCEPT ![l] = x]
                       /\ ListenerRecord(x) /\ SameUse(l, x)
                       /\ x.acl = listeners[l].acl \cup ids /\ x.aclType = buildAcl(cfg, l).type
             /\ \E x : /\ Dissociate(l, ids) = [listeners EXCEPT ![l] = x]
                       /\ ListenerRecord(x) /\ SameUse(l, x)
                       /\ x.acl = listeners[l].acl \ ids
                       /\ x.aclType = IF listeners[l].acl \subseteq ids THEN None ELSE listeners[l].aclType
  <2>1. PICK r, t : r = listeners[l] /\ t = buildAcl(cfg, l).type
    OBVIOUS
  <2> DEFINE x1 == [r EXCEPT !.acl = r.acl \cup ids, !.aclType = t]
             x2 == [r EXCEPT !.acl = r.acl \ ids, !.aclType = IF r.acl \subseteq ids THEN None ELSE r.aclType]
  <2>2. Associate(l, ids) = [listeners EXCEPT ![l] = x1]
    BY <1>1, <2>1 DEF Associate
  <2>3. Dissociate(l, ids) = [listeners EXCEPT ![l] = x2]
    <3>1. CASE r.acl \subseteq ids
      BY <1>1, <2>1, <3>1 DEF Dissociate
    <3>2. CASE ~(r.acl \subseteq ids)
      BY <1>1, <2>1, <3>2 DEF Dissociate
    <3> QED
      BY <3>1, <3>2
  <2>4. /\ ListenerRecord(x1) /\ x1.acl = r.acl \cup ids /\ x1.aclType = t
        /\ x1.desc = r.desc /\ x1.action = r.action /\ x1.refs = r.refs
    <3>1. PICK n : n = r.acl \cup ids
      OBVIOUS
    <3>2. x1 = [r EXCEPT !.acl = n, !.aclType = t]
      BY <3>1
    <3> HIDE DEF x1
    <3> QED
      BY <1>5, <2>1, <3>1, <3>2 DEF ListenerRecord
  <2>5. /\ ListenerRecord(x2) /\ x2.acl = r.acl \ ids
        /\ x2.aclType = (IF r.acl \subseteq ids THEN None ELSE r.aclType)
        /\ x2.desc = r.desc /\ x2.action = r.action /\ x2.refs = r.refs
    <3>1. PICK n : n = IF r.acl \subseteq ids THEN None ELSE r.aclType
      OBVIOUS
    <3>2. x2 = [r EXCEPT !.acl = r.acl \ ids, !.aclType = n]
      BY <3>1
    <3> HIDE DEF x2
    <3> QED
      BY <1>5, <2>1, <3>1, <3>2 DEF ListenerRecord
  <2> HIDE DEF x1, x2
  <2> QED
    BY <2>1, <2>2, <2>3, <2>4, <2>5 DEF SameUse
<1> DEFINE Rest == PassRecord(pass') /\ pass'.pc = pass.pc /\ pass'.cfg = pass.cfg /\ pass'.upd = pass.upd
                   /\ pass'.del = pass.del /\ pass'.gone = pass.gone /\ pass'.certs = pass.certs
                   /\ pass'.ids = pass.ids /\ pass'.errs = pass.errs
<1>7. ASSUME NEW s, NEW b \in BOOLEAN, pass' = AclDone(l, s, b)
      PROVE  Rest /\ pass'.todo = Fin(l, s) /\ SameLists
  BY <1>1, <1>7 DEF AclDone, PassRecord, SameLists
<1>8. ASSUME NEW s, NEW t, pass' = [pass EXCEPT !.todo = Step(l, s, t)]
      PROVE  Rest /\ pass'.todo = Step(l, s, t) /\ SameLists /\ OnlyLists(l)
  BY <1>1, <1>8 DEF PassRecord, SameLists, OnlyLists
<1>9. ASSUME NEW s, NEW t, NEW a, pass' = [pass EXCEPT !.todo = Step(l, s, t), !.acl[l] = a]
      PROVE  Rest /\ pass'.todo = Step(l, s, t) /\ OnlyLists(l)
  <2>1. /\ pass'.acl = [k \in Listener |-> pass'.acl[k]] /\ pass'.drop = [k \in Listener |-> pass'.drop[k]]
        /\ OnlyLists(l)
    BY <1>1, <1>9 DEF PassRecord, OnlyLists
  <2> QED
    BY <1>1, <1>9, <2>1 DEF PassRecord
<1>10. ASSUME NEW s, NEW t, NEW a, NEW d,
              pass' = [pass EXCEPT !.todo = Step(l, s, t), !.acl[l] = a, !.drop[l] = d]
       PROVE  Rest /\ pass'.todo = Step(l, s, t) /\ OnlyLists(l) /\ pass'.acl[l] = a /\ pass'.drop[l] = d
  <2>1. /\ pass'.acl = [k \in Listener |-> pass'.acl[k]] /\ pass'.drop = [k \in Listener |-> pass'.drop[k]]
        /\ OnlyLists(l) /\ pass'.acl[l] = a /\ pass'.drop[l] = d
    BY <1>1, <1>10 DEF PassRecord, OnlyLists
  <2> QED
    BY <1>1, <1>10, <2>1 DEF PassRecord
<1> HIDE DEF Rest
<1>11. SUFFICES \E x : /\ listeners' = [listeners EXCEPT ![l] = x] /\ AclMove(l, x)
                       /\ ListenerRecord(x) /\ SameUse(l, x) /\ Rest
  <2>1. ASSUME NEW x, listeners' = [listeners EXCEPT ![l] = x], AclMove(l, x), Rest PROVE Worked(l, x)
    <3>1. \E s \in Later \cup {"create"} :
            /\ <<l, s>> \in pass.todo
            /\ \/ pass'.todo = pass.todo \ {<<l, s>>}
               \/ \E t \in Later : pass'.todo = (pass.todo \ {<<l, s>>}) \cup {<<l, t>>}
      <4>1. {"get", "associate", "dissociate", "relate", "createAcl", "wait", "fill", "add", "remove", "related"}
              \subseteq Later
        BY DEF Later
      <4>2. \E s \in Later : /\ <<l, s>> \in pass.todo
                             /\ \/ pass'.todo = Fin(l, s)
                                \/ \E t \in Later : pass'.todo = Step(l, s, t)
        BY <2>1, <4>1 DEF AclMove
      <4> QED
        BY <4>2 DEF Fin, Step
    <3> QED
      BY <1>3, <2>1, <3>1 DEF Worked, Working, Rest
  <2> QED
    BY <1>3, <1>4, <1>5, <2>1 DEF Rest
<1>12. CASE findListenerAclConfig(l, ok)
  <2> DEFINE want == buildAcl(cfg, l)
             same == listeners[l].aclType = want.type
             a == IF same THEN want.ids \ listeners[l].acl ELSE want.ids
             d == IF same THEN listeners[l].acl \ want.ids ELSE listeners[l].acl
  <2>1. /\ <<l, "get">> \in pass.todo /\ listeners' = listeners /\ "get" \in Later
        /\ \/ pass' = AclDone(l, "get", ok)
           \/ /\ want.type # None /\ want.name = <<>>
              /\ pass' = [pass EXCEPT !.todo = Step(l, "get", "associate"), !.acl[l] = a, !.drop[l] = d]
           \/ /\ want.type # None
              /\ \E b : pass' = [pass EXCEPT !.todo = Step(l, "get", "add"), !.acl[l] = b]
           \/ /\ want.type # None
              /\ pass' = [pass EXCEPT !.todo = Step(l, "get", "createAcl")]
    <3>1. <<l, "get">> \in pass.todo /\ listeners' = listeners /\ "get" \in Later
      BY <1>12 DEF findListenerAclConfig, At, Later, cloud
    <3>2. IF ~ok \/ want.type = None
          THEN pass' = AclDone(l, "get", ok)
          ELSE IF want.name = <<>>
          THEN pass' = [pass EXCEPT !.todo = Step(l, "get", "associate"), !.acl[l] = a, !.drop[l] = d]
          ELSE IF same /\ matchResAndSDKAcls(l) # {}
          THEN \E b \in matchResAndSDKAcls(l) : pass' = [pass EXCEPT !.todo = Step(l, "get", "add"), !.acl[l] = {b}]
          ELSE pass' = [pass EXCEPT !.todo = Step(l, "get", "createAcl")]
      <4> HIDE DEF matchResAndSDKAcls, AclDone, Step, buildAcl
      <4> QED
        BY <1>12, Zenon DEF findListenerAclConfig
    <3> HIDE DEF want, same, a, d
    <3> QED
      BY <3>1, <3>2
  <2>2. PICK x : x = listeners[l] /\ listeners' = [listeners EXCEPT ![l] = x]
    BY <1>2, <2>1
  <2>3. Rest /\ AclMove(l, x)
    <3>1. CASE pass' = AclDone(l, "get", ok)
      BY <1>5, <1>7, <2>1, <2>2, <3>1 DEF AclMove
    <3>2. CASE /\ want.type # None /\ want.name = <<>>
               /\ pass' = [pass EXCEPT !.todo = Step(l, "get", "associate"), !.acl[l] = a, !.drop[l] = d]
      <4>1. PICK a1, d1 : a1 = a /\ d1 = d
        OBVIOUS
      <4>2. Rest /\ pass'.todo = Step(l, "get", "associate") /\ OnlyLists(l) /\ pass'.acl[l] = a1 /\ pass'.drop[l] = d1
        <5> HIDE DEF a, d
        <5> QED
          BY <1>10, <3>2, <4>1
      <4> QED
        BY <1>5, <2>1, <2>2, <3>2, <4>1, <4>2 DEF AclMove
    <3>3. ASSUME want.type # None, NEW b, pass' = [pass EXCEPT !.todo = Step(l, "get", "add"), !.acl[l] = b]
          PROVE  Rest /\ AclMove(l, x)
      BY <1>5, <1>9, <2>1, <2>2, <3>3 DEF AclMove
    <3>4. CASE want.type # None /\ pass' = [pass EXCEPT !.todo = Step(l, "get", "createAcl")]
      BY <1>5, <1>8, <2>1, <2>2, <3>4 DEF AclMove
    <3> QED
      BY <2>1, <3>1, <3>2, <3>3, <3>4
  <2> QED
    BY <1>5, <2>2, <2>3
<1>13. CASE AssociateAclWithListener(l, ok)
  <2>1. /\ <<l, "associate">> \in pass.todo /\ "associate" \in Later
        /\ \/ ok /\ pass' = [pass EXCEPT !.todo = Step(l, "associate", "dissociate")]
              /\ listeners' = IF pass.acl[l] # {} THEN Associate(l, pass.acl[l]) ELSE listeners
           \/ pass' = AclDone(l, "associate", FALSE) /\ listeners' = listeners
    BY <1>13 DEF AssociateAclWithListener, At, Later
  <2>2. CASE listeners' = listeners
    <3>1. PICK x : x = listeners[l] /\ listeners' = [listeners EXCEPT ![l] = x]
      BY <1>2, <2>2
    <3>2. CASE pass' = AclDone(l, "associate", FALSE)
      BY <1>5, <1>7, <2>1, <3>1, <3>2 DEF AclMove
    <3>3. CASE pass' = [pass EXCEPT !.todo = Step(l, "associate", "dissociate")] /\ pass.acl[l] = {}
      BY <1>5, <1>8, <2>1, <3>1, <3>3 DEF AclMove
    <3>4. CASE pass' = [pass EXCEPT !.todo = Step(l, "associate", "dissociate")] /\ listeners' = Associate(l, pass.acl[l])
      <4>1. PICK y : /\ Associate(l, pass.acl[l]) = [listeners EXCEPT ![l] = y]
                     /\ ListenerRecord(y) /\ SameUse(l, y)
                     /\ y.acl = listeners[l].acl \cup pass.acl[l] /\ y.aclType = buildAcl(cfg, l).type
        BY <1>6
      <4> QED
        BY <1>8, <2>1, <3>4, <4>1 DEF AclMove
    <3> QED
      BY <2>1, <3>2, <3>3, <3>4
  <2>3. CASE pass' = [pass EXCEPT !.todo = Step(l, "associate", "dissociate")] /\ listeners' = Associate(l, pass.acl[l])
    <3>1. PICK y : /\ Associate(l, pass.acl[l]) = [listeners EXCEPT ![l] = y]
                   /\ ListenerRecord(y) /\ SameUse(l, y)
                   /\ y.acl = listeners[l].acl \cup pass.acl[l] /\ y.aclType = buildAcl(cfg, l).type
      BY <1>6
    <3> QED
      BY <1>8, <2>1, <2>3, <3>1 DEF AclMove
  <2> QED
    BY <2>1, <2>2, <2>3
<1>14. CASE DisassociateAclWithListener(l, ok)
  <2>1. /\ <<l, "dissociate">> \in pass.todo /\ "dissociate" \in Later /\ pass' = AclDone(l, "dissociate", ok)
        /\ listeners' = listeners \/ listeners' = Dissociate(l, pass.drop[l])
    BY <1>14 DEF DisassociateAclWithListener, At, Later
  <2>2. CASE listeners' = listeners
    <3>1. PICK x : x = listeners[l] /\ listeners' = [listeners EXCEPT ![l] = x]
      BY <1>2, <2>2
    <3> QED
      BY <1>5, <1>7, <2>1, <3>1 DEF AclMove
  <2>3. CASE listeners' = Dissociate(l, pass.drop[l])
    <3>1. PICK y : /\ Dissociate(l, pass.drop[l]) = [listeners EXCEPT ![l] = y]
                   /\ ListenerRecord(y) /\ SameUse(l, y)
                   /\ y.acl = listeners[l].acl \ pass.drop[l]
                   /\ y.aclType = IF listeners[l].acl \subseteq pass.drop[l] THEN None ELSE listeners[l].aclType
      BY <1>6
    <3> QED
      BY <1>7, <2>1, <2>3, <3>1 DEF AclMove
  <2> QED
    BY <2>1, <2>2, <2>3
<1>15. CASE RelateAcl(l, ok)
  <2>1. /\ <<l, "relate">> \in pass.todo /\ "relate" \in Later /\ pass' = AclDone(l, "relate", ok)
        /\ listeners' = listeners \/ listeners' = Associate(l, pass.acl[l])
    BY <1>15 DEF RelateAcl, At, Later
  <2>2. CASE listeners' = listeners
    <3>1. PICK x : x = listeners[l] /\ listeners' = [listeners EXCEPT ![l] = x]
      BY <1>2, <2>2
    <3> QED
      BY <1>5, <1>7, <2>1, <3>1 DEF AclMove
  <2>3. CASE listeners' = Associate(l, pass.acl[l])
    <3>1. PICK y : /\ Associate(l, pass.acl[l]) = [listeners EXCEPT ![l] = y]
                   /\ ListenerRecord(y) /\ SameUse(l, y)
                   /\ y.acl = listeners[l].acl \cup pass.acl[l] /\ y.aclType = buildAcl(cfg, l).type
      BY <1>6
    <3> QED
      BY <1>7, <2>1, <2>3, <3>1 DEF AclMove
  <2> QED
    BY <2>1, <2>2, <2>3
<1>16. CASE \/ createAcl(l, ok) \/ waitAclStatus(l, ok) \/ FillAcl(l, ok) \/ AddAclEntries(l, ok)
            \/ RemoveAclEntries(l, ok) \/ isAssociateAclWithListener(l, ok)
  <2>1. PICK s \in Later \ {"get"} : /\ <<l, s>> \in pass.todo /\ listeners' = listeners
                          /\ \/ \E b \in BOOLEAN : pass' = AclDone(l, s, b)
                             \/ \E t \in {"createAcl", "wait", "fill", "relate", "add", "remove", "related"} :
                                  \/ pass' = [pass EXCEPT !.todo = Step(l, s, t)]
                                  \/ \E a : pass' = [pass EXCEPT !.todo = Step(l, s, t), !.acl[l] = a]
    <3>1. CASE createAcl(l, ok)
      BY <3>1 DEF createAcl, At, Later
    <3>2. CASE waitAclStatus(l, ok) \/ isAssociateAclWithListener(l, ok)
      BY <3>2 DEF waitAclStatus, isAssociateAclWithListener, At, Later, cloud
    <3>3. CASE FillAcl(l, ok) \/ AddAclEntries(l, ok) \/ RemoveAclEntries(l, ok)
      BY <3>3 DEF FillAcl, AddAclEntries, RemoveAclEntries, At, Later
    <3> QED
      BY <1>16, <3>1, <3>2, <3>3
  <2>2. PICK x : x = listeners[l] /\ listeners' = [listeners EXCEPT ![l] = x]
    BY <1>2, <2>1
  <2>3. CASE \E b \in BOOLEAN : pass' = AclDone(l, s, b)
    BY <1>5, <1>7, <2>1, <2>2, <2>3 DEF AclMove
  <2>4. ASSUME NEW t \in {"createAcl", "wait", "fill", "relate", "add", "remove", "related"},
               \/ pass' = [pass EXCEPT !.todo = Step(l, s, t)]
               \/ \E a : pass' = [pass EXCEPT !.todo = Step(l, s, t), !.acl[l] = a]
        PROVE  Rest /\ AclMove(l, x)
    <3>1. Rest /\ pass'.todo = Step(l, s, t) /\ OnlyLists(l)
      BY <1>8, <1>9, <2>4
    <3> QED
      BY <1>5, <2>1, <2>2, <3>1 DEF AclMove
  <2> QED
    BY <1>5, <2>1, <2>2, <2>3, <2>4
<1> QED
  BY <1>12, <1>13, <1>14, <1>15, <1>16

-----------------------------------------------------------------------------
(* Rules, deletions and the phases of a pass                               *)

\* The goroutine that applies the rules of l
RulesDone(l, x) ==
  /\ pass.pc = "rules" /\ <<l, "rules">> \in pass.todo /\ pass'.todo = Fin(l, "rules")
  /\ pass'.ids = pass.ids /\ pass'.errs = pass.errs
  /\ x.desc = listeners[l].desc /\ x.action = listeners[l].action
  /\ pass'.err \/ (~pass.err /\ x.refs = cfg.backs[l])

\* The rules of a listener are applied to that listener.
LEMMA RulesSteps ==
  ASSUME Shapes, NEW l \in Listener, NEW ok \in BOOLEAN, ApplyRules(l, ok)
  PROVE  \E x : /\ Worked(l, x) /\ RulesDone(l, x) /\ SameAcl(l, x)
                /\ l \in Touched(pass) /\ ListenerRecord(listeners[l]) /\ ListenerRecord(x)
<1>1. PassRecord(pass) /\ listeners = [k \in Listener |-> listeners[k]]
  BY DEF Shapes
<1>2. listeners = [listeners EXCEPT ![l] = listeners[l]]
  BY <1>1
<1>3. /\ pass.pc = "rules" /\ config' = config /\ <<l, "rules">> \in pass.todo
      /\ pass' = [pass EXCEPT !.todo = Fin(l, "rules"), !.err = @ \/ ~ok]
  BY DEF ApplyRules, At
<1>4. l \in Touched(pass)
  BY <1>3 DEF Touched, Working, Later
<1>5. ListenerRecord(listeners[l])
  BY <1>4 DEF Shapes
<1>6. ASSUME NEW y
      PROVE  LET x == [listeners[l] EXCEPT !.refs = y]
             IN  /\ ListenerRecord(x) /\ SameAcl(l, x) /\ x.refs = y
                 /\ x.desc = listeners[l].desc /\ x.action = listeners[l].action
  BY <1>5 DEF ListenerRecord, SameAcl
<1>7. \E y : listeners' = [listeners EXCEPT ![l] = [listeners[l] EXCEPT !.refs = y]]
             /\ (ok => y = cfg.backs[l])
  <2>1. CASE listeners' = [listeners EXCEPT ![l].refs = cfg.backs[l]]
    BY <1>1, <2>1
  <2>2. CASE ~ok /\ listeners' = listeners
    <3>1. listeners[l] = [listeners[l] EXCEPT !.refs = listeners[l].refs]
      BY <1>5 DEF ListenerRecord
    <3> QED
      BY <1>2, <2>2, <3>1
  <2>3. CASE ~ok /\ listeners' = [listeners EXCEPT ![l].refs = @ \cup cfg.backs[l]]
    <3>1. PICK y : y = listeners[l].refs \cup cfg.backs[l]
      OBVIOUS
    <3> QED
      BY <1>1, <2>3, <3>1
  <2> QED
    BY <2>1, <2>2, <2>3 DEF ApplyRules
<1>8. PICK y : listeners' = [listeners EXCEPT ![l] = [listeners[l] EXCEPT !.refs = y]]
               /\ (ok => y = cfg.backs[l])
  BY <1>7
<1>9. PICK x : x = [listeners[l] EXCEPT !.refs = y]
  OBVIOUS
<1>10. Worked(l, x)
  <2>1. PassRecord(pass') /\ pass'.ids = pass.ids
    BY <1>1, <1>3 DEF PassRecord
  <2> QED
    BY <1>1, <1>3, <1>8, <1>9, <2>1 DEF Worked, PassRecord, Working, Later, Fin
<1>11. RulesDone(l, x)
  <2>1. /\ pass'.todo = Fin(l, "rules") /\ pass'.ids = pass.ids /\ pass'.errs = pass.errs
        /\ pass'.err = (pass.err \/ ~ok) /\ pass.err \in BOOLEAN
    BY <1>1, <1>3 DEF PassRecord
  <2> QED
    BY <1>3, <1>6, <1>8, <1>9, <2>1 DEF RulesDone
<1> QED
  BY <1>4, <1>5, <1>6, <1>9, <1>10, <1>11

\* What every step keeps of the pass as long as it runs
SamePass ==
  /\ pass'.cfg = pass.cfg /\ pass'.certs = pass.certs /\ pass'.ids = pass.ids /\ pass'.errs = pass.errs

\* The goroutine that deletes l
Deleted(l) ==
  /\ pass.pc = "delete" /\ pass'.pc = "delete" /\ <<l, "delete">> \in pass.todo
  /\ pass'.todo = Fin(l, "delete") /\ SamePass /\ pass'.gone = pass.gone
  /\ pass.err => pass'.err
  /\ \/ listeners' = [listeners EXCEPT ![l] = None]
     \/ listeners' = listeners /\ pass'.err

\* The deletion of a listener removes that one and nothing else.
LEMMA DeleteSteps ==
  ASSUME Shapes, NEW l \in Listener, NEW ok \in BOOLEAN, DeleteALBListener(l, ok)
  PROVE  Deleted(l) /\ PassRecord(pass') /\ config' = config
<1>1. PassRecord(pass)
  BY DEF Shapes
<1>2. /\ pass.pc = "delete" /\ <<l, "delete">> \in pass.todo /\ config' = config
      /\ pass' = [pass EXCEPT !.todo = Fin(l, "delete"), !.err = @ \/ ~ok]
      /\ listeners' = IF ok THEN [listeners EXCEPT ![l] = None] ELSE listeners
  BY DEF DeleteALBListener, At
<1>3. /\ pass'.todo = Fin(l, "delete") /\ SamePass /\ pass'.gone = pass.gone
      /\ pass'.err = (pass.err \/ ~ok) /\ pass.err \in BOOLEAN /\ pass'.pc = pass.pc
      /\ PassRecord(pass')
  BY <1>1, <1>2 DEF PassRecord, SamePass
<1> QED
  BY <1>2, <1>3 DEF Deleted

Prepares ==
  /\ pass'.pc \in Preparing
  /\ \/ /\ pass.pc = "idle" /\ pass'.cfg = config /\ pass'.ids = {} /\ pass'.errs = {}
        /\ pass'.gone = {}
        /\ Buildable(config, CasList)
        /\ pass'.certs = [l \in Tls \cap DOMAIN config.ls |-> Certificates(config, l, CasList)]
     \/ /\ pass.pc \in Preparing /\ SamePass
        /\ pass'.gone = pass.gone \/ \E s \in SUBSET Group : pass'.gone = s \ WantedGroups(cfg)

\* The locals of a worker without a pass have their shape.
LEMMA IdleRecord ==
  /\ PassRecord(Idle) /\ Idle.pc = "idle" /\ Idle.todo = {} /\ Idle.ids = {} /\ Idle.errs = {}
  /\ Idle.gone = {}
BY DEF PassRecord, Idle

\* What happens before the listeners are listed leaves them alone.
LEMMA PrepareSteps ==
  ASSUME Shapes, NEW ok \in BOOLEAN,
         \/ Build(ok) \/ ListServerGroups(ok) \/ GroupsCreated
         \/ \E x \in Secrets : CreateSSLCertificateWithName(x, ok)
         \/ \E g \in Group :
              \/ CreateALBServerGroup(g, ok) \/ addServerToServerGroup(g, ok)
              \/ RollBackServerGroup(g, ok) \/ UpdateALBServerGroup(g, ok)
              \/ removeServerFromServerGroup(g, ok)
  PROVE  /\ listeners' = listeners /\ config' = config
         /\ pass' = Idle \/ (PassRecord(pass') /\ Prepares)
<1>1. PassRecord(pass)
  BY DEF Shapes
<1>2. ASSUME NEW t, NEW b \in BOOLEAN, pass' = [pass EXCEPT !.todo = t, !.err = b], pass.pc \in Preparing
      PROVE  PassRecord(pass') /\ Prepares
  <2>1. PassRecord(pass') /\ SamePass /\ pass'.gone = pass.gone /\ pass'.pc = pass.pc
    BY <1>1, <1>2 DEF PassRecord, SamePass
  <2> QED
    BY <1>2, <2>1 DEF Prepares
<1>3. ASSUME NEW t, NEW b \in BOOLEAN PROVE [pass EXCEPT !.todo = t] = [pass EXCEPT !.todo = t, !.err = pass.err]
  BY <1>1 DEF PassRecord
<1>4. CASE Build(ok)
  <2>1. listeners' = listeners /\ config' = config /\ pass.pc = "idle"
    BY <1>4 DEF Build
  <2>2. ASSUME NEW t, NEW c, pass' = [Idle EXCEPT !.pc = "secrets", !.cfg = config, !.todo = t, !.certs = c]
        PROVE  /\ PassRecord(pass') /\ pass'.pc = "secrets" /\ pass'.cfg = config /\ pass'.certs = c
               /\ pass'.ids = {} /\ pass'.errs = {} /\ pass'.gone = {}
    BY <2>2 DEF PassRecord, Idle
  <2>3. \/ pass' = Idle
        \/ /\ Buildable(config, CasList)
           /\ \E t : pass' = [Idle EXCEPT !.pc = "secrets", !.cfg = config, !.todo = t,
                             !.certs = [l \in Tls \cap DOMAIN config.ls |-> Certificates(config, l, CasList)]]
    BY <1>4, Zenon DEF Build, Fail
  <2>4. PICK c : c = [l \in Tls \cap DOMAIN config.ls |-> Certificates(config, l, CasList)]
    OBVIOUS
  <2>5. CASE /\ Buildable(config, CasList)
             /\ \E t : pass' = [Idle EXCEPT !.pc = "secrets", !.cfg = config, !.todo = t, !.certs = c]
    <3>1. /\ PassRecord(pass') /\ pass'.pc = "secrets" /\ pass'.cfg = config /\ pass'.certs = c
          /\ pass'.ids = {} /\ pass'.errs = {} /\ pass'.gone = {}
      BY <2>2, <2>5
    <3>2. "secrets" \in Preparing
      BY DEF Preparing
    <3> QED
      BY <2>1, <2>4, <2>5, <3>1, <3>2, Zenon DEF Prepares
  <2> QED
    BY <2>1, <2>3, <2>4, <2>5
<1>5. CASE ListServerGroups(ok)
  <2>1. listeners' = listeners /\ config' = config /\ pass.pc = "secrets"
    BY <1>5 DEF ListServerGroups, Through, cloud
  <2> DEFINE new == {g \in WantedGroups(cfg) : groups[g] = None} \X {"create"}
             upd == {g \in WantedGroups(cfg) : groups[g] # None}
             all == {g \in Group : groups[g] # None}
  <2>2. \/ pass' = Idle
        \/ pass' = [[pass EXCEPT !.pc = "groups", !.todo = new, !.err = FALSE]
                      EXCEPT !.upd = upd, !.gone = all \ WantedGroups(cfg)]
    BY <1>5, Zenon DEF ListServerGroups, Fail, Phase
  <2>3. all \in SUBSET Group
    OBVIOUS
  <2>4. PICK n, u, a, w : n = new /\ u = upd /\ a = all /\ w = WantedGroups(cfg)
    OBVIOUS
  <2> HIDE DEF new, upd, all
  <2>5. CASE pass' = [[pass EXCEPT !.pc = "groups", !.todo = n, !.err = FALSE]
                      EXCEPT !.upd = u, !.gone = a \ w]
    <3>1. PassRecord(pass') /\ SamePass /\ pass'.gone = a \ w /\ pass'.pc = "groups"
      BY <1>1, <2>5 DEF PassRecord, SamePass
    <3>2. "groups" \in Preparing /\ "secrets" \in Preparing
      BY DEF Preparing
    <3> QED
      BY <2>1, <2>3, <2>4, <3>1, <3>2, Zenon DEF Prepares
  <2> QED
    BY <2>1, <2>2, <2>4, <2>5
<1>6. CASE GroupsCreated
  <2>1. listeners' = listeners /\ config' = config /\ pass.pc = "groups"
    BY <1>6 DEF GroupsCreated, Through, cloud
  <2>2. \/ pass' = Idle
        \/ pass' = [pass EXCEPT !.pc = "regroup", !.todo = pass.upd \X {"update"}, !.err = FALSE]
    BY <1>6, Zenon DEF GroupsCreated, Fail, Phase
  <2>3. PICK n : n = pass.upd \X {"update"}
    OBVIOUS
  <2>4. CASE pass' = [pass EXCEPT !.pc = "regroup", !.todo = n, !.err = FALSE]
    <3>1. PassRecord(pass') /\ SamePass /\ pass'.gone = pass.gone /\ pass'.pc = "regroup"
      BY <1>1, <2>4 DEF PassRecord, SamePass
    <3>2. "groups" \in Preparing /\ "regroup" \in Preparing
      BY DEF Preparing
    <3> QED
      BY <2>1, <3>1, <3>2 DEF Prepares
  <2> QED
    BY <2>1, <2>2, <2>3, <2>4
<1>7. CASE \E x \in Secrets : CreateSSLCertificateWithName(x, ok)
  <2>1. PICK x : /\ listeners' = listeners /\ config' = config /\ pass.pc = "secrets"
                 /\ pass' = [pass EXCEPT !.todo = Fin(x, "create"), !.err = @ \/ ~ok]
    BY <1>7 DEF CreateSSLCertificateWithName, At
  <2>2. PICK b : b = (pass.err \/ ~ok)
    OBVIOUS
  <2>3. b \in BOOLEAN /\ pass' = [pass EXCEPT !.todo = Fin(x, "create"), !.err = b]
    BY <2>1, <2>2
  <2> QED
    BY <1>2, <2>1, <2>3 DEF Preparing
<1>8. ASSUME NEW g \in Group,
             \/ CreateALBServerGroup(g, ok) \/ addServerToServerGroup(g, ok)
             \/ RollBackServerGroup(g, ok) \/ UpdateALBServerGroup(g, ok)
             \/ removeServerFromServerGroup(g, ok)
      PROVE  listeners' = listeners /\ config' = config /\ PassRecord(pass') /\ Prepares
  <2>1. /\ listeners' = listeners /\ config' = config /\ pass.pc \in {"groups", "regroup"}
    BY <1>8 DEF CreateALBServerGroup, addServerToServerGroup, RollBackServerGroup, UpdateALBServerGroup,
                removeServerFromServerGroup, At
  <2>2. \E t, b : /\ b \in BOOLEAN
                  /\ pass' \in {[pass EXCEPT !.todo = t], [pass EXCEPT !.todo = t, !.err = b]}
    <3>1. CASE CreateALBServerGroup(g, ok)
      BY <3>1 DEF CreateALBServerGroup
    <3>2. CASE addServerToServerGroup(g, ok)
      BY <3>2 DEF addServerToServerGroup
    <3>3. CASE RollBackServerGroup(g, ok)
      BY <3>3 DEF RollBackServerGroup
    <3>4. CASE UpdateALBServerGroup(g, ok)
      <4>1. PICK d, t : pass' = [pass EXCEPT !.err = @ \/ ~d, !.todo = t]
        BY <3>4 DEF UpdateALBServerGroup
      <4>2. PICK b : b = (pass.err \/ ~d)
        OBVIOUS
      <4>3. b \in BOOLEAN /\ pass' = [pass EXCEPT !.todo = t, !.err = b]
        <5>1. b \in BOOLEAN
          BY <4>2
        <5>2. pass' = [pass EXCEPT !.err = b, !.todo = t]
          BY <4>1, <4>2
        <5> QED
          BY <1>1, <5>1, <5>2 DEF PassRecord
      <4> QED
        BY <4>3
    <3>5. CASE removeServerFromServerGroup(g, ok)
      BY <3>5 DEF removeServerFromServerGroup
    <3> QED
      BY <1>8, <3>1, <3>2, <3>3, <3>4, <3>5
  <2>3. PICK t, b : b \in BOOLEAN /\ pass' = [pass EXCEPT !.todo = t, !.err = b]
    <3>1. pass.err \in BOOLEAN
      BY <1>1 DEF PassRecord
    <3> QED
      BY <1>3, <2>2, <3>1
  <2> QED
    BY <1>2, <2>1, <2>3 DEF Preparing
<1> QED
  BY <1>4, <1>5, <1>6, <1>7, <1>8

\* The listeners are listed: those found are updated or deleted, the others
\* are created.
Listed ==
  /\ pass.pc = "regroup" /\ pass'.pc = "create" /\ SamePass /\ pass'.gone = pass.gone /\ ~pass'.err
  /\ pass'.todo = (DOMAIN cfg.ls \ findSDKListenersOnLB) \X {"create"}
  /\ pass'.upd = DOMAIN cfg.ls \cap findSDKListenersOnLB
  /\ pass'.del = findSDKListenersOnLB \ DOMAIN cfg.ls

\* An applier is through and the next one starts, with these resources.
Turned(from, to, items, step) ==
  /\ pass.pc = from /\ pass.todo = {} /\ pass'.pc = to /\ pass'.todo = items \X {step}
  /\ SamePass /\ pass'.gone = pass.gone /\ pass'.upd = pass.upd /\ pass'.del = pass.del
  /\ to \in {"update", "delete"} => ~pass'.err
  /\ to \in {"acl", "post"} => ~pass.err
  /\ to = "post" => pass.errs = {}

Turns ==
  \/ Turned("create", "update", pass.upd, "list") \/ Turned("update", "delete", pass.del, "delete")
  \/ Turned("delete", "acl", pass.ids, "get") \/ Turned("acl", "rules", pass.ids, "rules")
  \/ Turned("rules", "post", pass.gone, "delete")

\* The turns from one phase to the next leave the listeners alone.
LEMMA TurnSteps ==
  ASSUME Shapes, NEW ok \in BOOLEAN,
         \/ ListListeners(ok) \/ ListenersCreated \/ ListenersUpdated \/ ListenersDeleted
         \/ AclsApplied \/ RulesApplied
  PROVE  /\ listeners' = listeners /\ config' = config
         /\ pass' = Idle \/ (PassRecord(pass') /\ (Listed \/ Turns))
<1>1. PassRecord(pass)
  BY DEF Shapes
<1>2. ASSUME NEW pc, NEW items, NEW step, pass' = Phase(pc, items, step)
      PROVE  /\ PassRecord(pass') /\ pass'.pc = pc /\ pass'.todo = items \X {step} /\ pass'.err = FALSE
             /\ SamePass /\ pass'.gone = pass.gone /\ pass'.upd = pass.upd /\ pass'.del = pass.del
  <2>1. PICK t : t = items \X {step}
    OBVIOUS
  <2>2. pass' = [pass EXCEPT !.pc = pc, !.todo = t, !.err = FALSE]
    BY <1>2, <2>1 DEF Phase
  <2> QED
    BY <1>1, <2>1, <2>2 DEF PassRecord, SamePass
<1>3. ASSUME NEW pc, NEW items, NEW step, NEW b \in BOOLEAN, pass' = [Phase(pc, items, step) EXCEPT !.err = b]
      PROVE  /\ PassRecord(pass') /\ pass'.pc = pc /\ pass'.todo = items \X {step}
             /\ SamePass /\ pass'.gone = pass.gone /\ pass'.upd = pass.upd /\ pass'.del = pass.del
  <2>1. PICK t : t = items \X {step}
    OBVIOUS
  <2>2. PICK q : q = [pass EXCEPT !.pc = pc, !.todo = t, !.err = FALSE]
    OBVIOUS
  <2>3. pass' = [q EXCEPT !.err = b]
    BY <1>3, <2>1, <2>2 DEF Phase
  <2>4. q = [pc |-> pc, todo |-> t, err |-> FALSE, errs |-> pass.errs, inUse |-> pass.inUse,
             ids |-> pass.ids, upd |-> pass.upd, del |-> pass.del, gone |-> pass.gone, cfg |-> pass.cfg,
             certs |-> pass.certs, acl |-> pass.acl, drop |-> pass.drop]
    BY <1>1, <2>2 DEF PassRecord
  <2>5. pass' = [pc |-> pc, todo |-> t, err |-> b, errs |-> pass.errs, inUse |-> pass.inUse,
             ids |-> pass.ids, upd |-> pass.upd, del |-> pass.del, gone |-> pass.gone, cfg |-> pass.cfg,
             certs |-> pass.certs, acl |-> pass.acl, drop |-> pass.drop]
    BY <2>3, <2>4
  <2> QED
    BY <1>1, <2>1, <2>5 DEF PassRecord, SamePass
<1>4. CASE ListListeners(ok)
  <2>1. listeners' = listeners /\ config' = config /\ pass.pc = "regroup"
    BY <1>4 DEF ListListeners, Through, cloud
  <2>2. \/ pass' = Idle
        \/ pass' = [[pass EXCEPT !.pc = "create", !.todo = (DOMAIN cfg.ls \ findSDKListenersOnLB) \X {"create"},
                                 !.err = FALSE]
                      EXCEPT !.upd = DOMAIN cfg.ls \cap findSDKListenersOnLB,
                             !.del = findSDKListenersOnLB \ DOMAIN cfg.ls]
    BY <1>4, Zenon DEF ListListeners, Fail, Phase
  <2>3. PICK n, u, d : /\ n = (DOMAIN cfg.ls \ findSDKListenersOnLB) \X {"create"}
                       /\ u = DOMAIN cfg.ls \cap findSDKListenersOnLB
                       /\ d = findSDKListenersOnLB \ DOMAIN cfg.ls
    OBVIOUS
  <2>4. CASE pass' = [[pass EXCEPT !.pc = "create", !.todo = n, !.err = FALSE] EXCEPT !.upd = u, !.del = d]
    <3>1. /\ PassRecord(pass') /\ SamePass /\ pass'.gone = pass.gone /\ pass'.pc = "create"
          /\ pass'.err = FALSE /\ pass'.todo = n /\ pass'.upd = u /\ pass'.del = d
      BY <1>1, <2>4 DEF PassRecord, SamePass
    <3> QED
      BY <2>1, <2>3, <3>1 DEF Listed
  <2> QED
    BY <2>1, <2>2, <2>3, <2>4
<1>5. CASE ListenersCreated
  <2>1. /\ listeners' = listeners /\ config' = config /\ pass.pc = "create" /\ pass.todo = {}
        /\ pass' = Idle \/ pass' = Phase("update", pass.upd, "list")
    BY <1>5 DEF ListenersCreated, Through, cloud, Fail
  <2>2. ASSUME pass' = Phase("update", pass.upd, "list")
        PROVE  PassRecord(pass') /\ Turns
    <3>1. /\ PassRecord(pass') /\ pass'.pc = "update" /\ pass'.todo = pass.upd \X {"list"} /\ pass'.err = FALSE
          /\ SamePass /\ pass'.gone = pass.gone /\ pass'.upd = pass.upd /\ pass'.del = pass.del
      BY <1>2, <2>2
    <3> QED
      BY <2>1, <3>1 DEF Turns, Turned
  <2> QED
    BY <2>1, <2>2
<1>6. CASE ListenersUpdated
  <2>1. /\ listeners' = listeners /\ config' = config /\ pass.pc = "update" /\ pass.todo = {}
        /\ pass' = Phase("delete", pass.del, "delete")
    BY <1>6 DEF ListenersUpdated, Through, cloud
  <2>2. ASSUME pass' = Phase("delete", pass.del, "delete")
        PROVE  PassRecord(pass') /\ Turns
    <3>1. /\ PassRecord(pass') /\ pass'.pc = "delete" /\ pass'.todo = pass.del \X {"delete"} /\ pass'.err = FALSE
          /\ SamePass /\ pass'.gone = pass.gone /\ pass'.upd = pass.upd /\ pass'.del = pass.del
      BY <1>2, <2>2
    <3> QED
      BY <2>1, <3>1 DEF Turns, Turned
  <2> QED
    BY <2>1, <2>2
<1>7. CASE ListenersDeleted
  <2>1. /\ listeners' = listeners /\ config' = config /\ pass.pc = "delete" /\ pass.todo = {}
        /\ \/ pass' = Idle
           \/ ~pass.err /\ \E b \in BOOLEAN : pass' = [Phase("acl", pass.ids, "get") EXCEPT !.err = b]
    BY <1>7 DEF ListenersDeleted, Through, cloud, Fail
  <2> QED
    BY <1>3, <2>1 DEF Turns, Turned
<1>8. CASE AclsApplied
  <2>1. /\ listeners' = listeners /\ config' = config /\ pass.pc = "acl" /\ pass.todo = {}
        /\ \/ pass' = Idle
           \/ \E b \in BOOLEAN : pass' = [Phase("rules", pass.ids, "rules") EXCEPT !.err = b]
    BY <1>8 DEF AclsApplied, Through, cloud, Fail
  <2> QED
    BY <1>3, <2>1 DEF Turns, Turned
<1>9. CASE RulesApplied
  <2>1. /\ listeners' = listeners /\ config' = config /\ pass.pc = "rules" /\ pass.todo = {}
        /\ \/ pass' = Idle
           \/ ~pass.err /\ pass.errs = {} /\ pass' = Phase("post", pass.gone, "delete")
    BY <1>9 DEF RulesApplied, Through, cloud, Fail
  <2>2. ASSUME ~pass.err, pass.errs = {}, pass' = Phase("post", pass.gone, "delete")
        PROVE  PassRecord(pass') /\ Turns
    <3>1. /\ PassRecord(pass') /\ pass'.pc = "post" /\ pass'.todo = pass.gone \X {"delete"} /\ pass'.err = FALSE
          /\ SamePass /\ pass'.gone = pass.gone /\ pass'.upd = pass.upd /\ pass'.del = pass.del
      BY <1>2, <2>2
    <3> QED
      BY <2>1, <2>2, <3>1 DEF Turns, Turned
  <2> QED
    BY <2>1, <2>2
<1> QED
  BY <1>4, <1>5, <1>6, <1>7, <1>8, <1>9

\* The groups that are left over are being deleted.
Post == pass.pc = "post" /\ pass'.pc = "post" /\ SamePass /\ pass'.gone = pass.gone

\* Steps that change neither listeners nor what the pass is about
LEMMA OtherSteps ==
  ASSUME Shapes,
         \/ PassEnds \/ CacheExpires \/ Restart
         \/ \E c \in Config : ChangeConfig(c)
         \/ \E x \in Upload : UploadCertificate(x)
         \/ \E g \in Group, ok \in BOOLEAN : DeleteALBServerGroup(g, ok)
         \/ UNCHANGED vars
  PROVE  /\ listeners' = listeners /\ config' \in Config /\ PassRecord(pass')
         /\ pass' = pass \/ pass'.pc = "idle" \/ Post
<1>1. PassRecord(pass) /\ config \in Config
  BY DEF Shapes
<1>2. CASE PassEnds
  <2>1. ASSUME NEW c, NEW d, pass' = [Idle EXCEPT !.cfg = c, !.certs = d]
        PROVE  PassRecord(pass') /\ pass'.pc = "idle"
    BY <2>1 DEF PassRecord, Idle
  <2>2. pass' = Idle \/ \E c, d : pass' = [Idle EXCEPT !.cfg = c, !.certs = d]
    BY <1>2 DEF PassEnds, Fail
  <2>3. listeners' = listeners /\ config' = config
    BY <1>2 DEF PassEnds, cloud
  <2> QED
    BY <1>1, <2>1, <2>2, <2>3, IdleRecord
<1>3. CASE Restart
  BY <1>1, <1>3, IdleRecord DEF Restart
<1>4. CASE \/ CacheExpires \/ \E c \in Config : ChangeConfig(c)
           \/ \E x \in Upload : UploadCertificate(x)
           \/ UNCHANGED vars
  BY <1>1, <1>4 DEF CacheExpires, ChangeConfig, UploadCertificate, cloud, vars
<1>5. ASSUME NEW g \in Group, NEW ok \in BOOLEAN, DeleteALBServerGroup(g, ok)
      PROVE  listeners' = listeners /\ config' = config /\ PassRecord(pass') /\ Post
  <2>1. PICK t, b : /\ b \in BOOLEAN /\ pass.pc = "post" /\ listeners' = listeners /\ config' = config
                    /\ pass' = [pass EXCEPT !.todo = t, !.err = b]
    <3>1. PICK t, b : /\ b = (pass.err \/ ~ok \/ Used(g)) /\ pass.pc = "post" /\ listeners' = listeners
                      /\ config' = config /\ t = Fin(g, "delete")
      BY <1>5 DEF DeleteALBServerGroup, At
    <3>2. pass' = [pass EXCEPT !.todo = t, !.err = b]
      BY <1>5, <3>1 DEF DeleteALBServerGroup
    <3> QED
      BY <3>1, <3>2
  <2> QED
    BY <1>1, <2>1 DEF PassRecord, Post, SamePass
<1> QED
  BY <1>1, <1>2, <1>3, <1>4, <1>5

-----------------------------------------------------------------------------
(* Every step is one of these.                                             *)

Made(l, x) ==
  /\ Worked(l, x) /\ pass.pc = "create" /\ UNCHANGED <<pass.acl, pass.drop>>
  /\ \/ x = listeners[l] /\ Failed(l)
     \/ listeners[l] = None /\ NewListener(l, x) /\ (Failed(l) \/ Advanced(l))

Updated(l, x) ==
  /\ Worked(l, x) /\ pass.pc \in {"create", "update"} /\ UNCHANGED <<pass.acl, pass.drop>>
  /\ l \in Touched(pass) /\ ListenerRecord(listeners[l]) /\ ListenerRecord(x)
  /\ SameAcl(l, x) /\ x.refs = listeners[l].refs /\ (SameUse(l, x) \/ Described(l, x))
  /\ pass.pc = "create" => SameUse(l, x) /\ <<l, "extras">> \in pass.todo
  /\ Failed(l) \/ (Advanced(l) /\ (pass.pc = "update" /\ l \in pass'.ids /\ l \notin pass.ids
                                     => Described(l, x)))

Relisted(l, x) ==
  /\ Worked(l, x) /\ pass.pc = "acl" /\ AclMove(l, x)
  /\ l \in Touched(pass) /\ ListenerRecord(listeners[l]) /\ ListenerRecord(x)
  /\ SameUse(l, x) /\ pass'.ids = pass.ids /\ pass'.errs = pass.errs

Ruled(l, x) ==
  /\ Worked(l, x) /\ RulesDone(l, x) /\ SameAcl(l, x)
  /\ l \in Touched(pass) /\ ListenerRecord(listeners[l]) /\ ListenerRecord(x)

Moves ==
  \/ \E l \in Listener : \E x : Made(l, x) \/ Updated(l, x) \/ Relisted(l, x) \/ Ruled(l, x)
  \/ \E l \in Listener : Deleted(l) /\ PassRecord(pass') /\ config' = config
  \/ /\ listeners' = listeners /\ config' \in Config /\ PassRecord(pass')
     /\ pass' = pass \/ pass'.pc = "idle" \/ Prepares \/ Listed \/ Turns \/ Post

\* Every step is one of those moves.
LEMMA StepMoves == Shapes /\ [Next]_vars => Moves
<1> SUFFICES ASSUME Shapes, [Next]_vars PROVE Moves
  OBVIOUS
<1>1. config \in Config
  BY DEF Shapes
<1>2. CASE \/ PassEnds \/ CacheExpires \/ Restart
           \/ \E c \in Config : ChangeConfig(c)
           \/ \E x \in Upload : UploadCertificate(x)
           \/ \E g \in Group, ok \in BOOLEAN : DeleteALBServerGroup(g, ok)
           \/ UNCHANGED vars
  BY <1>2, OtherSteps DEF Moves
<1>3. ASSUME NEW ok \in BOOLEAN,
             \/ ListListeners(ok) \/ ListenersCreated \/ ListenersUpdated \/ ListenersDeleted
             \/ AclsApplied \/ RulesApplied
      PROVE  Moves
  BY <1>1, <1>3, TurnSteps, IdleRecord DEF Moves
<1>4. ASSUME NEW ok \in BOOLEAN,
             \/ Build(ok) \/ ListServerGroups(ok) \/ GroupsCreated
             \/ \E x \in Secrets : CreateSSLCertificateWithName(x, ok)
             \/ \E g \in Group :
                  \/ CreateALBServerGroup(g, ok) \/ addServerToServerGroup(g, ok)
                  \/ RollBackServerGroup(g, ok) \/ UpdateALBServerGroup(g, ok)
                  \/ removeServerFromServerGroup(g, ok)
      PROVE  Moves
  BY <1>1, <1>4, PrepareSteps, IdleRecord DEF Moves
<1>5. ASSUME NEW ok \in BOOLEAN, NEW l \in Listener, CreateALBListener(l, ok) PROVE Moves
  BY <1>5, CreateSteps DEF Moves, Made
<1>6. ASSUME NEW ok \in BOOLEAN, NEW l \in Listener,
             \/ AssociateNew(l, ok) \/ listListenerCerts(l, ok) \/ AssociateExtras(l, ok)
             \/ DissociateExtras(l, ok) \/ updateListenerAttribute(l, ok)
      PROVE  Moves
  BY <1>6, ListenerSteps DEF Moves, Updated
<1>7. ASSUME NEW ok \in BOOLEAN, NEW l \in Listener,
             \/ findListenerAclConfig(l, ok) \/ AssociateAclWithListener(l, ok)
             \/ DisassociateAclWithListener(l, ok) \/ createAcl(l, ok) \/ waitAclStatus(l, ok)
             \/ FillAcl(l, ok) \/ RelateAcl(l, ok) \/ AddAclEntries(l, ok) \/ RemoveAclEntries(l, ok)
             \/ isAssociateAclWithListener(l, ok)
      PROVE  Moves
  BY <1>7, AclSteps DEF Moves, Relisted
<1>8. ASSUME NEW ok \in BOOLEAN, NEW l \in Listener, ApplyRules(l, ok) PROVE Moves
  BY <1>8, RulesSteps DEF Moves, Ruled
<1>9. ASSUME NEW ok \in BOOLEAN, NEW l \in Listener, DeleteALBListener(l, ok) PROVE Moves
  BY <1>9, DeleteSteps DEF Moves
<1>10. CASE Pass
  <2>1. CASE ListenersCreated \/ ListenersUpdated \/ ListenersDeleted \/ AclsApplied \/ RulesApplied
             \/ GroupsCreated \/ PassEnds
    <3>1. TRUE \in BOOLEAN
      OBVIOUS
    <3> QED
      BY <1>2, <1>3, <1>4, <2>1, <3>1
  <2>2. ASSUME NEW ok \in BOOLEAN,
               \/ Build(ok) \/ ListServerGroups(ok) \/ ListListeners(ok)
               \/ \E x \in Secrets : CreateSSLCertificateWithName(x, ok)
               \/ \E g \in Group :
                    \/ CreateALBServerGroup(g, ok) \/ addServerToServerGroup(g, ok)
                    \/ RollBackServerGroup(g, ok) \/ UpdateALBServerGroup(g, ok)
                    \/ removeServerFromServerGroup(g, ok) \/ DeleteALBServerGroup(g, ok)
        PROVE  Moves
    BY <1>2, <1>3, <1>4, <2>2
  <2> QED
    BY <1>5, <1>6, <1>7, <1>8, <1>9, <1>10, <2>1, <2>2 DEF Pass
<1> QED
  BY <1>2, <1>10 DEF Next

\* Every move keeps the shapes.
LEMMA ShapesStep == Shapes /\ Moves => Shapes'
<1> SUFFICES ASSUME Shapes, Moves PROVE Shapes'
  OBVIOUS
<1>1. ASSUME NEW l \in Listener, NEW x, Made(l, x) PROVE Shapes'
  BY <1>1, WorkedStep DEF Made, NewListener, Failed
<1>2. ASSUME NEW l \in Listener, NEW x, Updated(l, x) \/ Relisted(l, x) \/ Ruled(l, x) PROVE Shapes'
  BY <1>2, WorkedStep DEF Updated, Relisted, Ruled
<1>3. ASSUME NEW l \in Listener, Deleted(l), PassRecord(pass'), config' = config PROVE Shapes'
  <2>1. l \notin DOMAIN pass.cfg.ls
    <3>1. <<l, "delete">>[1] \notin DOMAIN pass.cfg.ls
      BY <1>3 DEF Deleted, Shapes, Targets, Working
    <3> QED
      BY <3>1
  <2>2. /\ listeners' = [k \in Listener |-> listeners'[k]]
        /\ \A k \in Listener \ {l} : listeners'[k] = listeners[k]
        /\ listeners'[l] = None \/ listeners'[l] = listeners[l]
    BY <1>3 DEF Deleted, Shapes
  <2>3. Targets(pass')
    BY <1>3 DEF Deleted, Shapes, Targets, Fin, SamePass
  <2>4. ASSUME NEW k \in Touched(pass') PROVE ListenerRecord(listeners'[k])
    <3>1. k \in Listener /\ k \in Touched(pass)
      BY <1>3, <2>4 DEF Touched, Deleted, Fin, SamePass
    <3>2. k # l
      <4>1. \A y \in pass.todo : y[2] = "delete"
        BY <1>3 DEF Deleted, Shapes, Targets, Working
      <4>2. \A s : <<l, s>> \in pass.todo => s = "delete"
        BY <4>1
      <4>3. \A s : <<l, s>> \notin pass'.todo
        BY <1>3, <4>2 DEF Deleted, Fin
      <4>4. l \notin pass'.ids
        BY <1>3, <2>1 DEF Deleted, Shapes, Targets, Working, SamePass
      <4> QED
        BY <1>3, <2>4, <4>3, <4>4 DEF Touched, Deleted
    <3> QED
      BY <2>2, <3>1, <3>2 DEF Shapes
  <2>5. pass'.pc # "idle" /\ pass'.cfg \in Config /\ pass'.pc \notin Preparing
    BY <1>3 DEF Deleted, Shapes, SamePass, Preparing
  <2> QED
    BY <1>3, <2>2, <2>3, <2>4, <2>5 DEF Shapes
<1>4. ASSUME listeners' = listeners, config' \in Config, PassRecord(pass'),
             pass'.pc # "idle" => pass'.cfg \in Config, Targets(pass'),
             pass'.pc \in Preparing => pass'.ids = {} /\ pass'.errs = {},
             \A l \in Touched(pass') : ListenerRecord(listeners[l])
      PROVE  Shapes'
  BY <1>4 DEF Shapes
<1>5. ASSUME listeners' = listeners, config' \in Config, PassRecord(pass'),
             pass' = pass \/ pass'.pc = "idle" \/ Prepares \/ Post
      PROVE  Shapes'
  <2>1. CASE pass' = pass
    BY <1>5, <2>1 DEF Shapes
  <2>2. CASE /\ pass'.pc \notin Working /\ (pass'.pc # "idle" => pass'.cfg \in Config)
             /\ pass'.pc \in Preparing => pass'.ids = {} /\ pass'.errs = {}
    BY <1>4, <1>5, <2>2 DEF Targets, Touched, Working
  <2>3. CASE pass'.pc = "idle"
    BY <2>2, <2>3 DEF Working, Preparing
  <2>4. CASE Prepares
    BY <2>2, <2>4 DEF Prepares, Preparing, Working, Shapes, SamePass
  <2>5. CASE Post
    BY <2>2, <2>5 DEF Post, Working, Shapes, SamePass, Preparing
  <2> QED
    BY <1>5, <2>1, <2>3, <2>4, <2>5
<1>6. ASSUME listeners' = listeners, config' \in Config, PassRecord(pass'), Listed PROVE Shapes'
  <2>1. /\ pass.cfg \in Config /\ pass'.cfg = pass.cfg /\ pass'.pc = "create" /\ pass'.ids = {}
    BY <1>6 DEF Shapes, Listed, SamePass, Preparing
  <2>2. Targets(pass')
    <3>1. \A y \in pass'.todo : y[1] \in DOMAIN pass.cfg.ls
      BY <1>6 DEF Listed, cfg
    <3>2. pass'.upd \subseteq DOMAIN pass.cfg.ls /\ pass'.del \cap DOMAIN pass.cfg.ls = {}
      BY <1>6 DEF Listed, cfg
    <3> QED
      BY <2>1, <3>1, <3>2 DEF Targets
  <2>3. ASSUME NEW l \in Touched(pass') PROVE ListenerRecord(listeners[l])
    <3>1. \A s \in Later : <<l, s>> \notin pass'.todo
      BY <1>6 DEF Listed, Later
    <3>2. l \in Listener /\ l \in findSDKListenersOnLB
      BY <1>6, <2>1, <2>3, <3>1 DEF Touched, Listed
    <3> QED
      BY <3>2 DEF findSDKListenersOnLB, Shapes
  <2> QED
    BY <1>4, <1>6, <2>1, <2>2, <2>3 DEF Preparing
<1>7. ASSUME listeners' = listeners, config' \in Config, PassRecord(pass'), Turns PROVE Shapes'
  <2>1. /\ pass.pc \in Working /\ pass'.pc \in {"update", "delete", "acl", "rules", "post"}
        /\ pass'.ids = pass.ids /\ pass'.del = pass.del /\ pass'.cfg = pass.cfg
    BY <1>7 DEF Turns, Turned, Working, SamePass
  <2>2. pass.cfg \in Config /\ pass'.pc \notin Preparing
    BY <2>1 DEF Shapes, Working, Preparing
  <2>3. Targets(pass') /\ Touched(pass') \subseteq Touched(pass)
    <3>0. Targets(pass)
      BY DEF Shapes
    <3>1. CASE Turned("create", "update", pass.upd, "list")
      BY <2>1, <3>0, <3>1 DEF Targets, Touched, Turned, Working
    <3>2. CASE Turned("update", "delete", pass.del, "delete")
      BY <2>1, <3>0, <3>2 DEF Targets, Touched, Turned, Working
    <3>3. CASE Turned("delete", "acl", pass.ids, "get")
      BY <2>1, <3>0, <3>3 DEF Targets, Touched, Turned, Working
    <3>4. CASE Turned("acl", "rules", pass.ids, "rules")
      BY <2>1, <3>0, <3>4 DEF Targets, Touched, Turned, Working
    <3>5. CASE Turned("rules", "post", pass.gone, "delete")
      BY <2>1, <3>0, <3>5 DEF Targets, Touched, Turned, Working
    <3> QED
      BY <1>7, <3>1, <3>2, <3>3, <3>4, <3>5 DEF Turns
  <2>4. \A l \in Touched(pass') : ListenerRecord(listeners[l])
    BY <2>3 DEF Shapes
  <2> QED
    BY <1>4, <1>7, <2>1, <2>2, <2>3, <2>4
<1> QED
  BY <1>1, <1>2, <1>3, <1>5, <1>6, <1>7 DEF Moves

\* The shapes hold at first.
LEMMA ShapesInit == Init => Shapes
<1> SUFFICES ASSUME Init PROVE Shapes
  OBVIOUS
<1>1. config \in Config
  BY ListenersAssumption DEF Init
<1>2. ASSUME NEW l \in Listener PROVE listeners[l] = None \/ ListenerRecord(listeners[l])
  BY DEF Init, ListenerRecord
<1>3. listeners = [l \in Listener |-> listeners[l]]
  BY DEF Init
<1>4. PassRecord(pass) /\ pass.pc = "idle"
  BY IdleRecord DEF Init
<1>5. Targets(pass) /\ Touched(pass) = {}
  BY <1>4 DEF Targets, Touched, Working
<1> QED
  BY <1>1, <1>2, <1>3, <1>4, <1>5 DEF Shapes, Preparing

\* Listeners, AlbConfig and pass always have their shapes.
LEMMA ShapesAlways == Spec => []Shapes
BY ShapesInit, StepMoves, ShapesStep, PTL DEF Spec

-----------------------------------------------------------------------------
(* Listeners of users                                                      *)

\* No AlbConfig gives a listener the description that stands for what a
\* user made
Unclaimed == \A c \in Config : \A l \in DOMAIN c.ls : c.ls[l].desc # "user"

\* A pass that must not override has not found the user's listeners.
UserInv == pass.cfg.commonReuse => \A l \in Touched(pass) : listeners[l].desc # "user"

\* Work on a listener adds no other listener to those a pass touches.
LEMMA TouchedWorked ==
  ASSUME NEW l, NEW x, Worked(l, x), NEW k \in Touched(pass'), k # l
  PROVE  k \in Touched(pass) /\ k \in Listener
<1>1. \A t : <<k, t>> \in pass'.todo => <<k, t>> \in pass.todo
  BY DEF Worked
<1>2. k \in pass'.ids => k \in pass.ids
  BY DEF Worked
<1> QED
  BY <1>1, <1>2 DEF Touched, Worked

\* Work on a listener leaves the others alone.
LEMMA WorkedOthers ==
  ASSUME Shapes, NEW l \in Listener, NEW x, Worked(l, x)
  PROVE  /\ listeners'[l] = x
         /\ \A k \in Listener \ {l} : listeners'[k] = listeners[k]
BY DEF Shapes, Worked

\* Every move leaves the user's listeners alone if commonReuse says so.
LEMMA UserStep ==
  ASSUME Shapes, Moves, UserInv, Unclaimed
  PROVE  /\ UserInv'
         /\ \A l \in Reused :
              listeners[l] # None /\ listeners[l].desc = "user" /\ listeners'[l] # listeners[l]
                => ~pass.cfg.commonReuse
<1> DEFINE Kept == \A l \in Reused :
                     listeners[l] # None /\ listeners[l].desc = "user" /\ listeners'[l] # listeners[l]
                       => ~pass.cfg.commonReuse
<1>0. Reused \subseteq Listener
  BY ListenersAssumption
<1>1. ASSUME NEW l \in Listener, pass.cfg \in Config, l \in DOMAIN pass.cfg.ls
      PROVE  buildListenerSpec(cfg, l).desc # "user"
  BY <1>1 DEF buildListenerSpec, Unclaimed, cfg
<1>2. ASSUME NEW l \in Listener, NEW x, Worked(l, x)
      PROVE  pass.cfg \in Config /\ l \in DOMAIN pass.cfg.ls
  <2>1. PICK s : <<l, s>> \in pass.todo
    BY <1>2 DEF Worked
  <2>2. <<l, s>>[1] \in DOMAIN pass.cfg.ls
    BY <1>2, <2>1 DEF Worked, Shapes, Targets
  <2> QED
    BY <1>2, <2>2 DEF Worked, Shapes, Working
<1>3. ASSUME NEW l \in Listener, NEW x, Worked(l, x),
             pass.cfg.commonReuse /\ l \in Touched(pass') => x.desc # "user",
             pass.cfg.commonReuse => x = listeners[l] \/ listeners[l] = None \/ listeners[l].desc # "user"
      PROVE  UserInv' /\ Kept
  <2>1. pass'.cfg = pass.cfg
    BY <1>3 DEF Worked
  <2>2. /\ listeners'[l] = x
        /\ \A k \in Listener \ {l} : listeners'[k] = listeners[k]
    BY <1>3, WorkedOthers
  <2>3. ASSUME pass.cfg.commonReuse, NEW k \in Touched(pass') PROVE listeners'[k].desc # "user"
    <3>1. CASE k = l
      BY <1>3, <2>2, <2>3, <3>1
    <3>2. CASE k # l
      <4>1. k \in Touched(pass) /\ k \in Listener
        BY <1>3, <3>2, TouchedWorked
      <4> QED
        BY <2>2, <2>3, <3>2, <4>1 DEF UserInv
    <3> QED
      BY <3>1, <3>2
  <2>4. UserInv'
    BY <2>1, <2>3 DEF UserInv
  <2>5. Kept
    BY <1>0, <1>3, <2>2
  <2> QED
    BY <2>4, <2>5
<1>4. ASSUME NEW l \in Listener, NEW x, Made(l, x) PROVE UserInv' /\ Kept
  <2>1. CASE x = listeners[l] /\ Failed(l)
    <3>1. l \in Touched(pass') => l \in Touched(pass)
      BY <1>4, <2>1 DEF Touched, Made, Worked, Failed
    <3> QED
      BY <1>3, <1>4, <2>1, <3>1 DEF Made, UserInv
  <2>2. CASE listeners[l] = None /\ NewListener(l, x)
    <3>1. x.desc # "user"
      BY <1>1, <1>2, <1>4, <2>2 DEF NewListener, Made
    <3> QED
      BY <1>3, <1>4, <2>2, <3>1 DEF Made
  <2> QED
    BY <1>4, <2>1, <2>2 DEF Made
<1>5. ASSUME NEW l \in Listener, NEW x, Worked(l, x), l \in Touched(pass), SameUse(l, x) \/ Described(l, x)
      PROVE  UserInv' /\ Kept
  <2>1. pass.cfg.commonReuse => x.desc # "user" /\ listeners[l].desc # "user"
    BY <1>1, <1>2, <1>5 DEF UserInv, SameUse, Described
  <2> QED
    BY <1>3, <1>5, <2>1
<1>6. ASSUME NEW l \in Listener, NEW x, Ruled(l, x) PROVE UserInv' /\ Kept
  <2>1. pass.cfg.commonReuse => x.desc # "user" /\ listeners[l].desc # "user"
    BY <1>6 DEF UserInv, Ruled, RulesDone
  <2> QED
    BY <1>3, <1>6, <2>1 DEF Ruled
<1>7. ASSUME NEW l \in Listener, Deleted(l) PROVE UserInv' /\ Kept
  <2>1. l \in Touched(pass)
    BY <1>7 DEF Deleted, Touched, Working, Later
  <2>2. \A k \in Listener \ {l} : listeners'[k] = listeners[k]
    BY <1>7 DEF Deleted, Shapes
  <2>3. Kept
    BY <1>0, <2>1, <2>2 DEF UserInv
  <2>4. ASSUME NEW k \in Touched(pass') PROVE k \in Touched(pass) /\ k \in Listener /\ k # l
    <3>1. \A y \in pass.todo : y[1] \notin DOMAIN pass.cfg.ls /\ y[2] = "delete"
      BY <1>7 DEF Deleted, Shapes, Targets, Working
    <3>2. \A s : <<l, s>> \in pass.todo => s = "delete" /\ l \notin DOMAIN pass.cfg.ls
      BY <3>1
    <3>3. \A s : <<l, s>> \notin pass'.todo
      BY <1>7, <3>2 DEF Deleted, Fin
    <3>4. l \notin pass'.ids
      BY <1>7, <3>2 DEF Deleted, Shapes, Targets, Working, SamePass
    <3>5. k # l
      BY <1>7, <2>4, <3>3, <3>4 DEF Touched, Deleted
    <3> QED
      BY <1>7, <2>4, <3>5 DEF Touched, Deleted, Fin, SamePass
  <2>5. UserInv'
    BY <1>7, <2>2, <2>4 DEF UserInv, Deleted, SamePass
  <2> QED
    BY <2>3, <2>5
<1>8. ASSUME listeners' = listeners,
             pass' = pass \/ pass'.pc = "idle" \/ Prepares \/ Listed \/ Turns \/ Post
      PROVE  UserInv' /\ Kept
  <2>1. Kept
    BY <1>8
  <2>2. CASE pass'.pc \notin Working
    BY <2>1, <2>2 DEF UserInv, Touched, Working
  <2>3. CASE pass' = pass
    BY <1>8, <2>3 DEF UserInv
  <2>4. CASE pass'.pc = "idle" \/ Prepares \/ Post
    BY <2>2, <2>4 DEF Prepares, Post, Working, Preparing
  <2>5. CASE Listed
    <3>1. ASSUME NEW l \in Touched(pass'), pass.cfg.commonReuse PROVE listeners[l].desc # "user"
      <4>1. \A s \in Later : <<l, s>> \notin pass'.todo
        BY <2>5 DEF Listed, Later
      <4>2. l \in Listener /\ l \in findSDKListenersOnLB
        <5>1. pass'.ids = {} /\ pass'.pc = "create"
          BY <2>5 DEF Listed, SamePass, Shapes, Preparing
        <5> QED
          BY <2>5, <3>1, <4>1, <5>1 DEF Touched, Listed
      <4> QED
        BY <3>1, <4>2 DEF findSDKListenersOnLB, cfg
    <3> QED
      BY <1>8, <2>5, <3>1 DEF UserInv, Listed, SamePass
  <2>6. CASE Turns
    <3>1. pass'.cfg = pass.cfg /\ pass'.ids = pass.ids /\ pass'.del = pass.del
      BY <2>6 DEF Turns, Turned, SamePass
    <3>2. Touched(pass') \subseteq Touched(pass)
      <4>1. CASE Turned("create", "update", pass.upd, "list")
        BY <3>1, <4>1 DEF Touched, Turned, Working
      <4>2. CASE Turned("update", "delete", pass.del, "delete")
        BY <3>1, <4>2 DEF Touched, Turned, Working
      <4>3. CASE Turned("delete", "acl", pass.ids, "get")
        BY <3>1, <4>3 DEF Touched, Turned, Working
      <4>4. CASE Turned("acl", "rules", pass.ids, "rules")
        BY <3>1, <4>4 DEF Touched, Turned, Working
      <4>5. CASE Turned("rules", "post", pass.gone, "delete")
        BY <3>1, <4>5 DEF Touched, Turned, Working
      <4> QED
        BY <2>6, <4>1, <4>2, <4>3, <4>4, <4>5 DEF Turns
    <3> QED
      BY <1>8, <3>1, <3>2 DEF UserInv
  <2> QED
    BY <1>8, <2>1, <2>3, <2>4, <2>5, <2>6
<1> HIDE DEF Kept
<1>9. UserInv' /\ Kept
  BY <1>4, <1>5, <1>6, <1>7, <1>8 DEF Moves, Updated, Relisted
<1> QED
  BY <1>9 DEF Kept

\* On a load balancer that is reused without forceOverride, no pass changes
\* or deletes a listener that the controller did not make: whatever users
\* edit, and whichever calls fail or come after a restart, the listeners a
\* pass works on are those it found by their description or created itself
\* (findSDKListenersOnLB).
THEOREM UserListenersSafe ==
  ASSUME Unclaimed
  PROVE  Spec => UserListenersKept
<1>1. Init => UserInv
  BY IdleRecord DEF Init, UserInv, Touched, Working
<1>2. Shapes /\ UserInv /\ [Next]_vars
        => /\ UserInv'
           /\ [\A l \in Reused :
                 listeners[l] # None /\ listeners[l].desc = "user" /\ listeners'[l] # listeners[l]
                   => ~cfg.commonReuse]_vars
  BY StepMoves, UserStep DEF cfg
<1> QED
  BY <1>1, <1>2, ShapesAlways, PTL DEF Spec, UserListenersKept

-----------------------------------------------------------------------------
(* Access control stays                                                    *)

\* An AlbConfig that configures access control for a listener names lists or
\* gives entries, and the type of a listener's access control, once there is
\* one, is always the same
AclsSettled ==
  \A c \in Config : \A l \in DOMAIN c.ls :
    buildAcl(c, l).type # None =>
      /\ buildAcl(c, l).ids # {} \/ buildAcl(c, l).name # <<>>
      /\ \A d \in Config : l \in DOMAIN d.ls /\ buildAcl(d, l).type # None
                             => buildAcl(d, l).type = buildAcl(c, l).type

\* The lists of a listener are of the type that users ask for.
TypeFits(l, x) ==
  x.acl # {} => \A c \in Config : l \in DOMAIN c.ls /\ buildAcl(c, l).type # None
                                   => x.aclType = buildAcl(c, l).type

TypesFit ==
  \A l \in Listener : listeners[l] # None \/ l \in Touched(pass) => TypeFits(l, listeners[l])

\* There is one goroutine per listener; it has something to do when access
\* control is configured, and what it is about to take off leaves something.
AclJob(l, s) ==
  /\ \A t \in Later : <<l, t>> \in pass.todo => t = s
  /\ s # "get" => buildAcl(pass.cfg, l).type # None
  /\ s = "associate" => (listeners[l].acl \cup pass.acl[l]) \ pass.drop[l] # {}
  /\ s = "dissociate" => listeners[l].acl \ pass.drop[l] # {}

AclJobs == pass.pc = "acl" => \A l \in Listener, s \in Later : <<l, s>> \in pass.todo => AclJob(l, s)

AclInv == TypesFit /\ AclJobs

\* A pass comes to touch a listener only by listing it.
LEMMA TouchedNext ==
  ASSUME Shapes, pass' = pass \/ pass'.pc = "idle" \/ Prepares \/ Listed \/ Turns \/ Post,
         NEW k \in Touched(pass')
  PROVE  k \in Listener /\ (k \in Touched(pass) \/ (Listed /\ k \in findSDKListenersOnLB))
<1>1. k \in Listener /\ pass'.pc \in Working
  BY DEF Touched, Working
<1>2. CASE pass' = pass
  BY <1>1, <1>2
<1>3. CASE pass'.pc = "idle" \/ Prepares \/ Post
  BY <1>1, <1>3 DEF Working, Prepares, Preparing, Post
<1>4. CASE Listed
  <2>1. \A s \in Later : <<k, s>> \notin pass'.todo
    BY <1>4 DEF Listed, Later
  <2>2. pass'.ids = {} /\ pass'.pc = "create"
    BY <1>4 DEF Listed, SamePass, Shapes, Preparing
  <2> QED
    BY <1>1, <1>4, <2>1, <2>2 DEF Touched, Listed
<1>5. CASE Turns
  <2>1. pass'.ids = pass.ids /\ pass'.del = pass.del
    BY <1>5 DEF Turns, Turned, SamePass
  <2>2. CASE Turned("create", "update", pass.upd, "list")
    BY <1>1, <2>1, <2>2 DEF Touched, Turned, Working
  <2>3. CASE Turned("update", "delete", pass.del, "delete")
    BY <1>1, <2>1, <2>3 DEF Touched, Turned, Working
  <2>4. CASE Turned("delete", "acl", pass.ids, "get")
    BY <1>1, <2>1, <2>4 DEF Touched, Turned, Working
  <2>5. CASE Turned("acl", "rules", pass.ids, "rules")
    BY <1>1, <2>1, <2>5 DEF Touched, Turned, Working
  <2>6. CASE Turned("rules", "post", pass.gone, "delete")
    BY <1>1, <2>6 DEF Turned, Working
  <2> QED
    BY <1>5, <2>2, <2>3, <2>4, <2>5, <2>6 DEF Turns
<1> QED
  BY <1>2, <1>3, <1>4, <1>5

\* A deleted listener is touched no more.
LEMMA TouchedDeleted ==
  ASSUME Shapes, NEW l \in Listener, Deleted(l), NEW k \in Touched(pass')
  PROVE  k \in Touched(pass) /\ k \in Listener /\ k # l
<1>1. \A y \in pass.todo : y[1] \notin DOMAIN pass.cfg.ls /\ y[2] = "delete"
  BY DEF Deleted, Shapes, Targets, Working
<1>2. \A s : <<l, s>> \in pass.todo => s = "delete" /\ l \notin DOMAIN pass.cfg.ls
  BY <1>1
<1>3. \A s : <<l, s>> \notin pass'.todo
  BY <1>2 DEF Deleted, Fin
<1>4. l \notin pass'.ids
  BY <1>2 DEF Deleted, Shapes, Targets, Working, SamePass
<1>5. k # l
  BY <1>3, <1>4 DEF Touched, Deleted
<1> QED
  BY <1>5 DEF Touched, Deleted, Fin, SamePass

\* The goroutine of l does its next call.
LEMMA AclJobStep ==
  ASSUME Shapes, AclInv, AclsSettled, NEW l \in Listener, NEW x, Relisted(l, x)
  PROVE  /\ TypeFits(l, x) /\ (listeners[l].acl # {} => x.acl # {})
         /\ AclJobs'
<1> DEFINE r == listeners[l]
           want == buildAcl(cfg, l)
<1>1. /\ pass.pc = "acl" /\ pass'.pc = "acl" /\ pass'.cfg = pass.cfg /\ listeners'[l] = x
      /\ \A k \in Listener \ {l} : listeners'[k] = listeners[k]
  BY WorkedOthers DEF Relisted, Worked
<1>2. pass.cfg \in Config /\ l \in DOMAIN pass.cfg.ls
  <2>1. PICK s : <<l, s>> \in pass.todo
    BY DEF Relisted, Worked
  <2>2. <<l, s>>[1] \in DOMAIN pass.cfg.ls
    BY <1>1, <2>1 DEF Shapes, Targets, Working
  <2> QED
    BY <1>1, <2>2 DEF Shapes
<1>3. TypeFits(l, r)
  BY DEF AclInv, TypesFit, Relisted
<1>4. ASSUME NEW s \in Later, <<l, s>> \in pass.todo PROVE AclJob(l, s)
  BY <1>1, <1>4 DEF AclInv, AclJobs
<1>5. ASSUME NEW s \in Later, <<l, s>> \in pass.todo
      PROVE  /\ \A u \in Later : <<l, u>> \notin Fin(l, s)
             /\ \A t, u \in Later : <<l, u>> \in Step(l, s, t) => u = t
  BY <1>4, <1>5 DEF AclJob, Fin, Step
<1>6. ASSUME NEW y, y.aclType = want.type, want.type # None PROVE TypeFits(l, y)
  BY <1>2, <1>6 DEF TypeFits, AclsSettled, cfg
<1>7. ASSUME SameLists \/ OnlyLists(l), NEW k \in Listener \ {l}
      PROVE  pass'.acl[k] = pass.acl[k] /\ pass'.drop[k] = pass.drop[k]
  BY <1>7 DEF SameLists, OnlyLists
<1>8. ASSUME SameLists \/ OnlyLists(l),
             NEW s \in Later, <<l, s>> \in pass.todo, NEW t \in Later,
             \/ pass'.todo = Fin(l, s)
             \/ /\ pass'.todo = Step(l, s, t)
                /\ t # "get" => want.type # None
                /\ t = "associate" => (x.acl \cup pass'.acl[l]) \ pass'.drop[l] # {}
                /\ t = "dissociate" => x.acl \ pass'.drop[l] # {}
      PROVE  AclJobs'
  <2>1. ASSUME NEW k \in Listener, NEW u \in Later, <<k, u>> \in pass'.todo
        PROVE  /\ \A v \in Later : <<k, v>> \in pass'.todo => v = u
               /\ u # "get" => buildAcl(pass.cfg, k).type # None
               /\ u = "associate" => (listeners'[k].acl \cup pass'.acl[k]) \ pass'.drop[k] # {}
               /\ u = "dissociate" => listeners'[k].acl \ pass'.drop[k] # {}
    <3>1. CASE k = l
      <4>1. u = t /\ pass'.todo = Step(l, s, t)
        BY <1>5, <1>8, <2>1, <3>1
      <4>2. \A v \in Later : <<l, v>> \in pass'.todo => v = t
        BY <1>5, <1>8, <4>1
      <4>3. pass'.todo # Fin(l, s)
        BY <1>5, <1>8, <2>1, <3>1
      <4>4. /\ t # "get" => want.type # None
            /\ t = "associate" => (x.acl \cup pass'.acl[l]) \ pass'.drop[l] # {}
            /\ t = "dissociate" => x.acl \ pass'.drop[l] # {}
        BY <1>8, <4>3
      <4> QED
        BY <1>1, <3>1, <4>1, <4>2, <4>4 DEF cfg
    <3>2. CASE k # l
      <4>1. \A v : <<k, v>> \in pass'.todo <=> <<k, v>> \in pass.todo
        BY <1>8, <3>2 DEF Fin, Step
      <4>2. AclJob(k, u)
        BY <1>1, <2>1, <4>1 DEF AclInv, AclJobs
      <4>3. /\ pass'.acl[k] = pass.acl[k] /\ pass'.drop[k] = pass.drop[k]
            /\ listeners'[k] = listeners[k]
        BY <1>1, <1>7, <1>8, <3>2
      <4> QED
        BY <4>1, <4>2, <4>3 DEF AclJob
    <3> QED
      BY <3>1, <3>2
  <2> QED
    BY <1>1, <2>1 DEF AclJobs, AclJob
<1>9. "associate" \in Later /\ "dissociate" \in Later /\ "get" \in Later /\ "relate" \in Later
      /\ {"createAcl", "wait", "fill", "relate", "add", "remove", "related"} \subseteq Later
  BY DEF Later
<1>10. SameAcl(l, x) => TypeFits(l, x) /\ (r.acl # {} => x.acl # {})
  BY <1>3 DEF SameAcl, TypeFits
<1> HIDE DEF r, want
<1>11. AclMove(l, x)
  BY DEF Relisted
<1>12. CASE \E s \in Later : /\ <<l, s>> \in pass.todo /\ pass'.todo = Fin(l, s)
                             /\ SameAcl(l, x) /\ SameLists
  BY <1>8, <1>9, <1>10, <1>12 DEF r
<1>13. CASE /\ <<l, "get">> \in pass.todo /\ pass'.todo = Step(l, "get", "associate")
            /\ want.type # None /\ want.name = <<>> /\ SameAcl(l, x) /\ OnlyLists(l)
            /\ pass'.acl[l] = IF r.aclType = want.type THEN want.ids \ r.acl ELSE want.ids
            /\ pass'.drop[l] = IF r.aclType = want.type THEN r.acl \ want.ids ELSE r.acl
  <2>1. want.ids # {}
    BY <1>2, <1>13 DEF AclsSettled, want, cfg
  <2>2. r.acl # {} => r.aclType = want.type
    BY <1>2, <1>3, <1>13 DEF TypeFits, want, cfg
  <2>3. x.acl = r.acl
    BY <1>13 DEF SameAcl, r
  <2>4. (x.acl \cup pass'.acl[l]) \ pass'.drop[l] # {}
    BY <1>13, <2>1, <2>2, <2>3
  <2>5. AclJobs'
    BY <1>8, <1>9, <1>13, <2>4
  <2> QED
    BY <1>10, <1>13, <2>5 DEF r
<1>14. CASE \E s \in Later, t \in {"createAcl", "wait", "fill", "relate", "add", "remove", "related"} :
              /\ <<l, s>> \in pass.todo /\ pass'.todo = Step(l, s, t)
              /\ s = "get" => want.type # None
              /\ SameAcl(l, x) /\ OnlyLists(l)
  <2>1. PICK s \in Later, t \in {"createAcl", "wait", "fill", "relate", "add", "remove", "related"} :
              /\ <<l, s>> \in pass.todo /\ pass'.todo = Step(l, s, t)
              /\ s = "get" => want.type # None
              /\ SameAcl(l, x) /\ OnlyLists(l)
    BY <1>14
  <2>2. want.type # None /\ t \in Later /\ t # "associate" /\ t # "dissociate"
    BY <1>4, <1>9, <2>1 DEF AclJob, want, cfg
  <2>3. AclJobs'
    BY <1>8, <2>1, <2>2
  <2> QED
    BY <1>10, <2>1, <2>3 DEF r
<1>15. CASE /\ <<l, "associate">> \in pass.todo /\ pass'.todo = Step(l, "associate", "dissociate")
            /\ \/ SameAcl(l, x) /\ pass.acl[l] = {}
               \/ x.acl = r.acl \cup pass.acl[l] /\ x.aclType = want.type
            /\ SameLists
  <2>1. AclJob(l, "associate")
    BY <1>4, <1>9, <1>15
  <2>2. want.type # None /\ (r.acl \cup pass.acl[l]) \ pass.drop[l] # {}
    BY <2>1 DEF AclJob, want, r, cfg
  <2>3. x.acl = r.acl \cup pass.acl[l]
    <3>1. CASE SameAcl(l, x) /\ pass.acl[l] = {}
      BY <3>1 DEF SameAcl, r
    <3> QED
      BY <1>15, <3>1
  <2>4. pass'.drop[l] = pass.drop[l]
    BY <1>15 DEF SameLists
  <2>5. AclJobs'
    BY <1>8, <1>9, <1>15, <2>2, <2>3, <2>4
  <2>6. TypeFits(l, x)
    BY <1>6, <1>10, <1>15, <2>2
  <2> QED
    BY <2>3, <2>5, <2>6 DEF r
<1>16. CASE /\ <<l, "dissociate">> \in pass.todo /\ pass'.todo = Fin(l, "dissociate") /\ SameLists
            /\ x.acl = r.acl \ pass.drop[l]
            /\ x.aclType = IF r.acl \subseteq pass.drop[l] THEN None ELSE r.aclType
  <2>1. AclJob(l, "dissociate")
    BY <1>4, <1>9, <1>16
  <2>2. x.acl # {} /\ r.acl # {} /\ x.aclType = r.aclType
    BY <1>16, <2>1 DEF AclJob, r
  <2>3. AclJobs'
    BY <1>8, <1>9, <1>16
  <2>4. TypeFits(l, x)
    BY <1>3, <2>2 DEF TypeFits
  <2> QED
    BY <2>2, <2>3, <2>4
<1>17. CASE /\ <<l, "relate">> \in pass.todo /\ pass'.todo = Fin(l, "relate") /\ SameLists
            /\ x.acl = r.acl \cup pass.acl[l] /\ x.aclType = want.type
  <2>1. want.type # None
    BY <1>4, <1>9, <1>17 DEF AclJob, want, cfg
  <2>2. AclJobs'
    BY <1>8, <1>9, <1>17
  <2>3. TypeFits(l, x)
    BY <1>6, <1>17, <2>1
  <2> QED
    BY <1>17, <2>2, <2>3 DEF r
<1> QED
  BY <1>11, <1>12, <1>13, <1>14, <1>15, <1>16, <1>17 DEF AclMove, r, want

\* No move takes the last access control list from a listener.
LEMMA AclStep ==
  ASSUME Shapes, Moves, AclInv, AclsSettled
  PROVE  /\ AclInv'
         /\ \A l \in Listener :
              listeners[l] # None /\ listeners'[l] # None /\ listeners[l].acl # {}
                => listeners'[l].acl # {}
<1> DEFINE Stays == \A l \in Listener :
                      listeners[l] # None /\ listeners'[l] # None /\ listeners[l].acl # {}
                        => listeners'[l].acl # {}
<1>1. ASSUME NEW l \in Listener, NEW x, Worked(l, x), AclJobs',
             \/ TypeFits(l, x)
             \/ x = listeners[l] /\ (l \in Touched(pass') => l \in Touched(pass)),
             listeners[l] # None /\ listeners[l].acl # {} => x.acl # {}
      PROVE  AclInv' /\ Stays
  <2>1. /\ listeners'[l] = x
        /\ \A k \in Listener \ {l} : listeners'[k] = listeners[k]
    BY <1>1, WorkedOthers
  <2>2. Stays
    BY <1>1, <2>1
  <2>3. ASSUME NEW k \in Listener, listeners'[k] # None \/ k \in Touched(pass') PROVE TypeFits(k, listeners'[k])
    <3>1. CASE k = l
      BY <1>1, <2>1, <2>3, <3>1 DEF AclInv, TypesFit
    <3>2. CASE k # l
      <4>1. k \in Touched(pass') => k \in Touched(pass)
        BY <1>1, <3>2, TouchedWorked
      <4> QED
        BY <2>1, <2>3, <3>2, <4>1 DEF AclInv, TypesFit
    <3> QED
      BY <3>1, <3>2
  <2>4. TypesFit'
    BY <2>3 DEF TypesFit
  <2> QED
    BY <1>1, <2>2, <2>4 DEF AclInv
<1>2. ASSUME NEW l \in Listener, NEW x, Made(l, x) PROVE AclInv' /\ Stays
  <2>1. AclJobs'
    BY <1>2 DEF AclJobs, Made, Worked
  <2>2. CASE x = listeners[l] /\ Failed(l)
    <3>1. l \in Touched(pass') => l \in Touched(pass)
      BY <1>2, <2>2 DEF Touched, Made, Worked, Failed
    <3> QED
      BY <1>1, <1>2, <2>1, <2>2, <3>1 DEF Made
  <2>3. CASE listeners[l] = None /\ NewListener(l, x)
    BY <1>1, <1>2, <2>1, <2>3 DEF Made, NewListener, TypeFits
  <2> QED
    BY <1>2, <2>2, <2>3 DEF Made
<1>3. ASSUME NEW l \in Listener, NEW x, Updated(l, x) \/ Ruled(l, x) PROVE AclInv' /\ Stays
  <2>1. AclJobs'
    BY <1>3 DEF AclJobs, Updated, Ruled, RulesDone, Worked
  <2>2. /\ Worked(l, x) /\ SameAcl(l, x) /\ l \in Touched(pass)
    BY <1>3 DEF Updated, Ruled
  <2>3. TypeFits(l, x)
    BY <2>2 DEF AclInv, TypesFit, SameAcl, TypeFits
  <2> QED
    BY <1>1, <2>1, <2>2, <2>3 DEF SameAcl
<1>4. ASSUME NEW l \in Listener, NEW x, Relisted(l, x) PROVE AclInv' /\ Stays
  BY <1>1, <1>4, AclJobStep DEF Relisted
<1>5. ASSUME NEW l \in Listener, Deleted(l) PROVE AclInv' /\ Stays
  <2>1. /\ \A k \in Listener \ {l} : listeners'[k] = listeners[k]
        /\ listeners'[l] = None \/ listeners'[l] = listeners[l]
    BY <1>5 DEF Deleted, Shapes
  <2>2. Stays
    BY <2>1
  <2>3. AclJobs'
    BY <1>5 DEF AclJobs, Deleted
  <2>4. \A k \in Touched(pass') : k \in Touched(pass) /\ k # l
    BY <1>5, TouchedDeleted
  <2>5. ASSUME NEW k \in Listener, listeners'[k] # None \/ k \in Touched(pass') PROVE TypeFits(k, listeners'[k])
    BY <2>1, <2>4, <2>5 DEF AclInv, TypesFit
  <2> QED
    BY <2>2, <2>3, <2>5 DEF AclInv, TypesFit
<1>6. ASSUME listeners' = listeners,
             pass' = pass \/ pass'.pc = "idle" \/ Prepares \/ Listed \/ Turns \/ Post
      PROVE  AclInv' /\ Stays
  <2>1. \A k \in Touched(pass') : k \in Touched(pass) \/ k \in findSDKListenersOnLB
    BY <1>6, TouchedNext
  <2>2. TypesFit'
    BY <1>6, <2>1 DEF AclInv, TypesFit, findSDKListenersOnLB
  <2>3. AclJobs'
    <3>1. CASE pass' = pass
      BY <1>6, <3>1 DEF AclInv, AclJobs, AclJob
    <3>2. CASE pass'.pc = "idle" \/ Prepares \/ Listed \/ Post
      BY <3>2 DEF AclJobs, Prepares, Preparing, Listed, Post
    <3>3. CASE Turns
      <4>1. pass'.pc = "acl" => pass'.todo = pass.ids \X {"get"}
        BY <3>3 DEF Turns, Turned
      <4> QED
        BY <4>1 DEF AclJobs, AclJob
    <3> QED
      BY <1>6, <3>1, <3>2, <3>3
  <2> QED
    BY <1>6, <2>2, <2>3 DEF AclInv
<1> HIDE DEF Stays
<1>7. AclInv' /\ Stays
  BY <1>2, <1>3, <1>4, <1>5, <1>6 DEF Moves
<1> QED
  BY <1>7 DEF Stays

\* A listener that has an access control list is never without one while it
\* exists, whichever of the calls fails and wherever a restart cuts a pass
\* short, as long as AlbConfigs that ask for access control give lists or
\* entries and do not change its type: what a goroutine takes off leaves a
\* list that it has found or associated (synthesizeAclsOnListener).
THEOREM AccessControlStays ==
  ASSUME AclsSettled
  PROVE  Spec => AclNeverLifted
<1>1. Init => AclInv
  <2> SUFFICES ASSUME Init PROVE AclInv
    OBVIOUS
  <2>1. pass.pc = "idle" /\ Touched(pass) = {}
    BY IdleRecord DEF Init, Touched, Working
  <2>2. \A l \in Listener : listeners[l] # None => listeners[l].acl = {}
    BY DEF Init
  <2> QED
    BY <2>1, <2>2 DEF AclInv, TypesFit, TypeFits, AclJobs
<1>2. Shapes /\ AclInv /\ [Next]_vars
        => /\ AclInv'
           /\ [\A l \in Listener :
                 listeners[l] # None /\ listeners'[l] # None /\ listeners[l].acl # {}
                   => listeners'[l].acl # {}]_vars
  BY StepMoves, AclStep
<1> QED
  BY <1>1, <1>2, ShapesAlways, PTL DEF Spec, AclNeverLifted

-----------------------------------------------------------------------------
(* What is deleted at the end of a pass                                    *)

\* On a load balancer that is reused, listeners are recognised by the
\* description the controller gives: no AlbConfig gives another one
Recognized ==
  (\E c \in Config : c.commonReuse)
    => \A c \in Config : \A l \in DOMAIN c.ls : c.ls[l].desc \in {"", AutoDesc}

\* Listeners that are not recognised use no server group.
Bare(x) == x.desc # AutoDesc => x.action = None /\ x.refs = {}

Unlinked ==
  (\E c \in Config : c.commonReuse)
    => \A l \in Listener : listeners[l] # None \/ l \in Touched(pass) => Bare(listeners[l])

Running == Working \cup {"post"}

\* Listeners that are done are as configured.
IdsFit ==
  /\ pass.pc \in Running => \A l \in pass.ids : Described(l, listeners[l])
  /\ pass.pc = "create" =>
       \A l \in Listener : <<l, "extras">> \in pass.todo => Described(l, listeners[l])
  /\ pass.pc \in {"acl", "rules"} =>
       \A l \in Listener, s \in Later : <<l, s>> \in pass.todo => l \in pass.ids

\* Without an error that was noted, every listener of the configuration is
\* done, being worked on or about to be.
Covered ==
  /\ pass.pc \in {"create", "update"} /\ pass.err => pass.errs # {}
  /\ pass.pc \in {"create", "update"} /\ pass.errs = {} =>
       \A l \in DOMAIN pass.cfg.ls : \/ pass.pc = "create" /\ l \in pass.upd
                                     \/ l \in pass.ids
                                     \/ \E s \in Later \cup {"create"} : <<l, s>> \in pass.todo
  /\ pass.pc \in {"delete", "acl", "rules", "post"} /\ pass.errs = {} => DOMAIN pass.cfg.ls \subseteq pass.ids
  /\ pass.pc = "post" => pass.errs = {}

\* A listener that is not configured has been deleted or will be, unless the
\* pass does not see it.
Disposed(l) ==
  \/ listeners[l] = None
  \/ pass.cfg.commonReuse /\ listeners[l].desc # AutoDesc
  \/ pass.pc \in {"create", "update"} /\ l \in pass.del
  \/ pass.pc = "delete" /\ (<<l, "delete">> \in pass.todo \/ pass.err)

OthersGo == pass.pc \in Running => \A l \in Listener \ DOMAIN pass.cfg.ls : Disposed(l)

RulesFit ==
  /\ pass.pc = "rules" =>
       \A l \in pass.ids : \/ listeners[l].refs = pass.cfg.backs[l]
                           \/ <<l, "rules">> \in pass.todo \/ pass.err
  /\ pass.pc = "post" => \A l \in pass.ids : listeners[l].refs = pass.cfg.backs[l]

GoneUnwanted == pass.pc # "idle" => pass.gone \subseteq Group /\ pass.gone \cap WantedGroups(pass.cfg) = {}

UnusedInv == Unlinked /\ IdsFit /\ Covered /\ OthersGo /\ RulesFit /\ GoneUnwanted

\* A pass works on listeners of its AlbConfig.
LEMMA WorkedTarget ==
  ASSUME Shapes, NEW l \in Listener, NEW x, Worked(l, x)
  PROVE  /\ pass.cfg \in Config /\ l \in DOMAIN pass.cfg.ls /\ pass'.cfg = pass.cfg
         /\ pass'.pc = pass.pc /\ pass.pc \in Working \ {"delete"}
         /\ \A k, s : k # l => (<<k, s>> \in pass'.todo <=> <<k, s>> \in pass.todo)
<1>1. PICK s : <<l, s>> \in pass.todo
  BY DEF Worked
<1>2. <<l, s>>[1] \in DOMAIN pass.cfg.ls
  BY <1>1 DEF Worked, Shapes, Targets
<1>3. \A k, t : k # l => (<<k, t>> \in pass'.todo <=> <<k, t>> \in pass.todo)
  BY DEF Worked
<1> QED
  BY <1>2, <1>3 DEF Worked, Shapes, Working

\* Listeners that are not recognised still use no server group.
LEMMA UnlinkedStep ==
  ASSUME Shapes, Moves, UnusedInv, Recognized
  PROVE  Unlinked'
<1> SUFFICES ASSUME \E c \in Config : c.commonReuse,
                    NEW k \in Listener, listeners'[k] # None \/ k \in Touched(pass')
             PROVE  Bare(listeners'[k])
  BY DEF Unlinked
<1>1. ASSUME NEW c \in Config, NEW l \in DOMAIN c.ls PROVE buildListenerSpec(c, l).desc = AutoDesc
  BY <1>1 DEF Recognized, buildListenerSpec, AutoDesc
<1>2. ASSUME NEW l \in Listener, listeners[l] # None \/ l \in Touched(pass) PROVE Bare(listeners[l])
  BY <1>2 DEF UnusedInv, Unlinked
<1>3. ASSUME NEW l \in Listener, NEW x, Worked(l, x),
             \/ Bare(x)
             \/ x = listeners[l] /\ (l \in Touched(pass') => l \in Touched(pass))
      PROVE  Bare(listeners'[k])
  <2>1. /\ listeners'[l] = x
        /\ \A j \in Listener \ {l} : listeners'[j] = listeners[j]
    BY <1>3, WorkedOthers
  <2>2. CASE k = l
    BY <1>2, <1>3, <2>1, <2>2
  <2>3. CASE k # l
    <3>1. k \in Touched(pass') => k \in Touched(pass)
      BY <1>3, <2>3, TouchedWorked
    <3> QED
      BY <1>2, <2>1, <2>3, <3>1
  <2> QED
    BY <2>2, <2>3
<1>4. ASSUME NEW l \in Listener, NEW x, Worked(l, x), Described(l, x) PROVE Bare(x)
  <2>1. pass.cfg \in Config /\ l \in DOMAIN pass.cfg.ls
    BY <1>4, WorkedTarget
  <2> QED
    BY <1>1, <1>4, <2>1 DEF Described, Bare, cfg
<1>5. ASSUME NEW l \in Listener, NEW x, Made(l, x) PROVE Bare(listeners'[k])
  <2>1. CASE x = listeners[l] /\ Failed(l)
    <3>1. l \in Touched(pass') => l \in Touched(pass)
      BY <1>5, <2>1 DEF Touched, Made, Worked, Failed
    <3> QED
      BY <1>3, <1>5, <2>1, <3>1 DEF Made
  <2>2. CASE NewListener(l, x)
    BY <1>3, <1>4, <1>5, <2>2 DEF Made, NewListener, Described
  <2> QED
    BY <1>5, <2>1, <2>2 DEF Made
<1>6. ASSUME NEW l \in Listener, NEW x, Worked(l, x), l \in Touched(pass), SameUse(l, x) \/ Described(l, x)
      PROVE  Bare(listeners'[k])
  <2>1. Bare(listeners[l])
    BY <1>2, <1>6
  <2>2. SameUse(l, x) => Bare(x)
    BY <2>1 DEF SameUse, Bare
  <2> QED
    BY <1>3, <1>4, <1>6, <2>2
<1>7. ASSUME NEW l \in Listener, NEW x, Ruled(l, x) PROVE Bare(listeners'[k])
  <2>1. Worked(l, x) /\ pass.pc = "rules" /\ <<l, "rules">> \in pass.todo /\ x.desc = listeners[l].desc
    BY <1>7 DEF Ruled, RulesDone
  <2>2. l \in pass.ids
    BY <2>1 DEF UnusedInv, IdsFit, Later
  <2>3. Described(l, listeners[l])
    BY <2>1, <2>2 DEF UnusedInv, IdsFit, Running, Working
  <2>4. pass.cfg \in Config /\ l \in DOMAIN pass.cfg.ls
    BY <2>1, WorkedTarget
  <2>5. Bare(x)
    BY <1>1, <2>1, <2>3, <2>4 DEF Described, Bare, cfg
  <2> QED
    BY <1>3, <2>1, <2>5
<1>8. ASSUME NEW l \in Listener, Deleted(l) PROVE Bare(listeners'[k])
  <2>1. /\ \A j \in Listener \ {l} : listeners'[j] = listeners[j]
        /\ listeners'[l] = None \/ listeners'[l] = listeners[l]
    BY <1>8 DEF Deleted, Shapes
  <2>2. k \in Touched(pass') => k \in Touched(pass) /\ k # l
    BY <1>8, TouchedDeleted
  <2> QED
    BY <1>2, <2>1, <2>2
<1>9. ASSUME listeners' = listeners,
             pass' = pass \/ pass'.pc = "idle" \/ Prepares \/ Listed \/ Turns \/ Post
      PROVE  Bare(listeners'[k])
  <2>1. k \in Touched(pass') => k \in Touched(pass) \/ k \in findSDKListenersOnLB
    BY <1>9, TouchedNext
  <2> QED
    BY <1>2, <1>9, <2>1 DEF findSDKListenersOnLB
<1> QED
  BY <1>5, <1>6, <1>7, <1>8, <1>9 DEF Moves, Updated, Relisted

\* Listeners that are done stay as configured.
LEMMA IdsFitStep ==
  ASSUME Shapes, Moves, UnusedInv
  PROVE  IdsFit'
<1>1. ASSUME NEW l \in Listener, NEW x, Worked(l, x),
             l \in pass'.ids => Described(l, x),
             pass.pc = "create" /\ <<l, "extras">> \in pass'.todo => Described(l, x),
             pass.pc \in {"acl", "rules"} => pass'.ids = pass.ids /\ l \in pass.ids
      PROVE  IdsFit'
  <2>1. /\ pass'.cfg = pass.cfg /\ pass'.pc = pass.pc
        /\ \A k, s : k # l => (<<k, s>> \in pass'.todo <=> <<k, s>> \in pass.todo)
    BY <1>1, WorkedTarget
  <2>2. /\ listeners'[l] = x
        /\ \A k \in Listener \ {l} : listeners'[k] = listeners[k]
    BY <1>1, WorkedOthers
  <2>3. pass.pc \in Working /\ pass.ids \subseteq DOMAIN pass.cfg.ls /\ DOMAIN pass.cfg.ls \subseteq Listener
    BY <1>1, ListenersAssumption DEF Worked, Shapes, Targets, Working
  <2>4. ASSUME NEW k \in pass'.ids PROVE Described(k, listeners'[k])
    <3>1. CASE k = l
      BY <1>1, <2>2, <2>4, <3>1
    <3>2. CASE k # l
      <4>1. k \in pass.ids /\ k \in Listener
        BY <1>1, <2>3, <2>4, <3>2 DEF Worked
      <4> QED
        BY <2>2, <2>3, <3>2, <4>1 DEF UnusedInv, IdsFit, Running
    <3> QED
      BY <3>1, <3>2
  <2>5. ASSUME pass.pc = "create", NEW k \in Listener, <<k, "extras">> \in pass'.todo
        PROVE  Described(k, listeners'[k])
    BY <1>1, <2>1, <2>2, <2>5 DEF UnusedInv, IdsFit
  <2>6. ASSUME pass.pc \in {"acl", "rules"}, NEW k \in Listener, NEW s \in Later, <<k, s>> \in pass'.todo
        PROVE  k \in pass'.ids
    BY <1>1, <2>1, <2>6 DEF UnusedInv, IdsFit
  <2> QED
    BY <2>1, <2>4, <2>5, <2>6 DEF IdsFit, Described, cfg
<1>2. ASSUME NEW l \in Listener, NEW x, Made(l, x) PROVE IdsFit'
  <2>1. pass.pc = "create" /\ Worked(l, x)
    BY <1>2 DEF Made
  <2>2. l \in pass.ids => Described(l, listeners[l])
    BY <2>1 DEF UnusedInv, IdsFit, Running, Working
  <2>3. <<l, "extras">> \in pass.todo => Described(l, listeners[l])
    BY <2>1 DEF UnusedInv, IdsFit
  <2>4. CASE x = listeners[l] /\ Failed(l)
    BY <1>1, <2>1, <2>2, <2>3, <2>4 DEF Failed
  <2>5. CASE NewListener(l, x)
    BY <1>1, <2>1, <2>5 DEF NewListener, Described
  <2> QED
    BY <1>2, <2>4, <2>5 DEF Made
<1>3. ASSUME NEW l \in Listener, NEW x, Updated(l, x) PROVE IdsFit'
  <2>1. /\ pass.pc \in {"create", "update"} /\ Worked(l, x)
        /\ SameUse(l, x) \/ Described(l, x)
        /\ pass.pc = "create" => SameUse(l, x) /\ <<l, "extras">> \in pass.todo
        /\ Failed(l) \/ (Advanced(l) /\ (pass.pc = "update" /\ l \in pass'.ids /\ l \notin pass.ids
                                     => Described(l, x)))
    BY <1>3 DEF Updated
  <2>2. l \in pass.ids \/ pass.pc = "create" => Described(l, listeners[l])
    BY <2>1 DEF UnusedInv, IdsFit, Running, Working
  <2>3. l \in pass.ids \/ pass.pc = "create" => Described(l, x)
    BY <2>1, <2>2 DEF SameUse, Described
  <2>4. l \in pass'.ids => Described(l, x)
    BY <2>1, <2>3 DEF Failed
  <2> QED
    BY <1>1, <2>1, <2>3, <2>4
<1>4. ASSUME NEW l \in Listener, NEW x, Relisted(l, x) \/ Ruled(l, x) PROVE IdsFit'
  <2>1. /\ pass.pc \in {"acl", "rules"} /\ Worked(l, x) /\ l \in Touched(pass) /\ pass'.ids = pass.ids
        /\ x.desc = listeners[l].desc /\ x.action = listeners[l].action
    BY <1>4 DEF Relisted, Ruled, RulesDone, SameUse
  <2>2. l \in pass.ids
    BY <2>1 DEF Touched, UnusedInv, IdsFit
  <2>3. Described(l, x)
    <3>1. Described(l, listeners[l])
      BY <2>1, <2>2 DEF UnusedInv, IdsFit, Running, Working
    <3> QED
      BY <2>1, <3>1 DEF Described
  <2> QED
    BY <1>1, <2>1, <2>2, <2>3
<1>5. ASSUME NEW l \in Listener, Deleted(l) PROVE IdsFit'
  <2>1. \A k \in pass.ids : k # l /\ k \in Listener
    <3>1. <<l, "delete">>[1] \notin DOMAIN pass.cfg.ls
      BY <1>5 DEF Deleted, Shapes, Targets, Working
    <3>2. pass.ids \subseteq DOMAIN pass.cfg.ls /\ pass.cfg \in Config
      BY <1>5 DEF Deleted, Shapes, Targets, Working
    <3> QED
      BY <3>1, <3>2, ListenersAssumption
  <2>2. \A k \in Listener \ {l} : listeners'[k] = listeners[k]
    BY <1>5 DEF Deleted, Shapes
  <2> QED
    BY <1>5, <2>1, <2>2 DEF Deleted, SamePass, UnusedInv, IdsFit, Running, Working, Described, cfg
<1>6. ASSUME listeners' = listeners,
             pass' = pass \/ pass'.pc = "idle" \/ Prepares \/ Listed \/ Turns \/ Post
      PROVE  IdsFit'
  <2>1. CASE pass' = pass
    BY <1>6, <2>1 DEF UnusedInv, IdsFit, Described, cfg
  <2>2. CASE pass'.pc = "idle" \/ Prepares
    BY <2>2 DEF Prepares, Preparing, IdsFit, Running, Working
  <2>3. CASE Listed
    <3>1. pass'.ids = {} /\ pass'.pc = "create"
      BY <2>3 DEF Listed, SamePass, Shapes, Preparing
    <3>2. \A l : <<l, "extras">> \notin pass'.todo
      BY <2>3 DEF Listed
    <3> QED
      BY <3>1, <3>2 DEF IdsFit
  <2>4. CASE Turns \/ Post
    <3>1. /\ pass.pc \in Running /\ pass'.cfg = pass.cfg /\ pass'.ids = pass.ids
          /\ pass'.pc # "create"
      BY <2>4 DEF Turns, Turned, Post, SamePass, Running, Working
    <3>2. \A l \in pass'.ids : Described(l, listeners'[l])
      BY <1>6, <3>1 DEF UnusedInv, IdsFit
    <3>3. pass'.pc \in {"acl", "rules"} => \E s : pass'.todo = pass.ids \X {s}
      BY <2>4 DEF Turns, Turned, Post
    <3> QED
      BY <3>1, <3>2, <3>3 DEF IdsFit, Described, cfg
  <2> QED
    BY <1>6, <2>1, <2>2, <2>3, <2>4
<1> QED
  BY <1>2, <1>3, <1>4, <1>5, <1>6 DEF Moves

\* Every listener of the AlbConfig stays done, worked on or about to be.
LEMMA CoveredStep ==
  ASSUME Shapes, Moves, UnusedInv
  PROVE  Covered'
<1>0. Covered
  BY DEF UnusedInv
<1>1. ASSUME NEW l \in Listener, NEW x, Worked(l, x), pass.pc \in {"create", "update"}, Failed(l)
      PROVE  Covered'
  <2>1. pass'.pc = pass.pc
    BY <1>1, WorkedTarget
  <2>2. pass'.errs # {}
    BY <1>0, <1>1 DEF Covered, Failed
  <2> QED
    BY <1>1, <2>1, <2>2 DEF Covered
<1>2. ASSUME NEW l \in Listener, NEW x, Worked(l, x), pass.pc \in {"create", "update"}, Advanced(l)
      PROVE  Covered'
  <2>1. /\ pass'.pc = pass.pc /\ pass'.cfg = pass.cfg /\ pass'.upd = pass.upd
        /\ pass'.err = pass.err /\ pass'.errs = pass.errs
        /\ \A k, s : k # l => (<<k, s>> \in pass'.todo <=> <<k, s>> \in pass.todo)
        /\ pass.ids \subseteq pass'.ids
    BY <1>2, WorkedTarget DEF Worked, Advanced
  <2>2. l \in pass'.ids \/ \E t \in Later : <<l, t>> \in pass'.todo
    BY <1>2 DEF Advanced
  <2>3. ASSUME pass.errs = {}, NEW k \in DOMAIN pass.cfg.ls
        PROVE  \/ pass.pc = "create" /\ k \in pass.upd
               \/ k \in pass'.ids
               \/ \E s \in Later \cup {"create"} : <<k, s>> \in pass'.todo
    <3>1. CASE k = l
      BY <2>2, <3>1
    <3>2. CASE k # l
      BY <1>0, <1>2, <2>1, <2>3, <3>2 DEF Covered
    <3> QED
      BY <3>1, <3>2
  <2> QED
    BY <1>0, <1>2, <2>1, <2>3 DEF Covered
<1>3. ASSUME NEW l \in Listener, NEW x, Relisted(l, x) \/ Ruled(l, x) PROVE Covered'
  <2>1. /\ pass.pc \in {"acl", "rules"} /\ pass'.pc = pass.pc /\ pass'.cfg = pass.cfg
        /\ pass'.ids = pass.ids /\ pass'.errs = pass.errs
    BY <1>3 DEF Relisted, Ruled, RulesDone, Worked
  <2> QED
    BY <1>0, <2>1 DEF Covered
<1>4. ASSUME NEW l \in Listener, Deleted(l) PROVE Covered'
  BY <1>0, <1>4 DEF Covered, Deleted, SamePass
<1>5. ASSUME pass' = pass \/ pass'.pc = "idle" \/ Prepares \/ Listed \/ Turns \/ Post
      PROVE  Covered'
  <2>1. CASE pass' = pass
    BY <1>0, <2>1 DEF Covered
  <2>2. CASE pass'.pc = "idle" \/ Prepares
    BY <2>2 DEF Covered, Prepares, Preparing
  <2>3. CASE Listed
    <3>1. pass'.pc = "create" /\ ~pass'.err /\ pass'.cfg = pass.cfg
      BY <2>3 DEF Listed, SamePass
    <3>2. ASSUME NEW l \in DOMAIN pass.cfg.ls PROVE l \in pass'.upd \/ <<l, "create">> \in pass'.todo
      BY <2>3 DEF Listed, cfg
    <3> QED
      BY <3>1, <3>2 DEF Covered
  <2>4. CASE Post
    BY <1>0, <2>4 DEF Covered, Post, SamePass
  <2>5. CASE Turns
    <3>1. pass'.cfg = pass.cfg /\ pass'.ids = pass.ids /\ pass'.errs = pass.errs /\ pass'.upd = pass.upd
      BY <2>5 DEF Turns, Turned, SamePass
    <3>2. CASE Turned("create", "update", pass.upd, "list")
      <4>1. /\ pass.pc = "create" /\ pass.todo = {} /\ pass'.pc = "update" /\ ~pass'.err
            /\ pass'.todo = pass.upd \X {"list"} /\ "list" \in Later
        BY <3>2 DEF Turned, Later
      <4>2. ASSUME pass.errs = {}, NEW l \in DOMAIN pass.cfg.ls
            PROVE  l \in pass'.ids \/ <<l, "list">> \in pass'.todo
        BY <1>0, <3>1, <4>1, <4>2 DEF Covered
      <4> QED
        BY <3>1, <4>1, <4>2 DEF Covered
    <3>3. CASE Turned("update", "delete", pass.del, "delete")
      <4>1. pass.pc = "update" /\ pass.todo = {} /\ pass'.pc = "delete"
        BY <3>3 DEF Turned
      <4> QED
        BY <1>0, <3>1, <4>1 DEF Covered
    <3>4. CASE Turned("delete", "acl", pass.ids, "get") \/ Turned("acl", "rules", pass.ids, "rules")
      BY <1>0, <3>1, <3>4 DEF Covered, Turned
    <3>5. CASE Turned("rules", "post", pass.gone, "delete")
      BY <1>0, <3>1, <3>5 DEF Covered, Turned
    <3> QED
      BY <2>5, <3>2, <3>3, <3>4, <3>5 DEF Turns
  <2> QED
    BY <1>5, <2>1, <2>2, <2>3, <2>4, <2>5
<1> QED
  BY <1>1, <1>2, <1>3, <1>4, <1>5 DEF Moves, Made, Updated

\* Listeners that are not configured stay deleted or on their way out.
LEMMA OthersGoStep ==
  ASSUME Shapes, Moves, UnusedInv
  PROVE  OthersGo'
<1>0. OthersGo
  BY DEF UnusedInv
<1>1. ASSUME NEW l \in Listener, NEW x, Worked(l, x) PROVE OthersGo'
  <2>1. /\ l \in DOMAIN pass.cfg.ls /\ pass'.cfg = pass.cfg /\ pass'.pc = pass.pc /\ pass'.del = pass.del
        /\ pass.pc \in Working \ {"delete"}
    BY <1>1, WorkedTarget DEF Worked
  <2>2. \A k \in Listener \ {l} : listeners'[k] = listeners[k]
    BY <1>1, WorkedOthers
  <2> QED
    BY <1>0, <2>1, <2>2 DEF OthersGo, Disposed
<1>2. ASSUME NEW l \in Listener, Deleted(l) PROVE OthersGo'
  <2>1. /\ \A k \in Listener \ {l} : listeners'[k] = listeners[k]
        /\ listeners'[l] = None \/ pass'.err
    BY <1>2 DEF Deleted, Shapes
  <2>2. /\ pass'.cfg = pass.cfg /\ pass'.pc = pass.pc /\ pass.pc = "delete" /\ pass.err => pass'.err
        /\ \A k : k # l /\ <<k, "delete">> \in pass.todo => <<k, "delete">> \in pass'.todo
    BY <1>2 DEF Deleted, SamePass, Fin
  <2>3. pass.err => pass'.err
    BY <1>2 DEF Deleted
  <2>4. pass'.cfg = pass.cfg /\ pass'.pc = "delete" /\ pass.pc = "delete"
    BY <1>2 DEF Deleted, SamePass
  <2>5. ASSUME NEW k \in Listener \ DOMAIN pass.cfg.ls
        PROVE  \/ listeners'[k] = None
               \/ pass.cfg.commonReuse /\ listeners'[k].desc # AutoDesc
               \/ <<k, "delete">> \in pass'.todo \/ pass'.err
    <3>1. Disposed(k)
      BY <1>0, <2>4, <2>5 DEF OthersGo, Running, Working
    <3>2. CASE k = l
      BY <2>1, <3>2
    <3>3. CASE k # l
      <4>1. <<k, "delete">> \in pass.todo => <<k, "delete">> \in pass'.todo
        BY <1>2, <3>3 DEF Deleted, Fin
      <4> QED
        BY <2>1, <2>3, <2>4, <3>1, <3>3, <4>1 DEF Disposed
    <3> QED
      BY <3>2, <3>3
  <2> QED
    BY <2>4, <2>5 DEF OthersGo, Disposed
<1>3. ASSUME listeners' = listeners,
             pass' = pass \/ pass'.pc = "idle" \/ Prepares \/ Listed \/ Turns \/ Post
      PROVE  OthersGo'
  <2>1. CASE pass' = pass
    BY <1>0, <1>3, <2>1 DEF OthersGo, Disposed
  <2>2. CASE pass'.pc = "idle" \/ Prepares
    BY <2>2 DEF OthersGo, Prepares, Preparing, Running, Working
  <2>3. CASE Listed
    <3>1. pass'.pc = "create" /\ pass'.cfg = pass.cfg /\ pass'.del = findSDKListenersOnLB \ DOMAIN pass.cfg.ls
      BY <2>3 DEF Listed, SamePass, cfg
    <3> QED
      BY <1>3, <3>1 DEF OthersGo, Disposed, findSDKListenersOnLB, AutoDesc, cfg
  <2>4. CASE Turns \/ Post
    <3>1. pass'.cfg = pass.cfg /\ pass.pc \in Running /\ (Turns => pass'.del = pass.del)
      BY <2>4 DEF Turns, Turned, Post, SamePass, Running, Working
    <3>2. ASSUME NEW l \in Listener \ DOMAIN pass.cfg.ls PROVE Disposed(l)'
      <4>1. Disposed(l)
        BY <1>0, <3>1, <3>2 DEF OthersGo
      <4>2. CASE Turned("create", "update", pass.upd, "list")
        BY <1>3, <3>1, <4>1, <4>2 DEF Turned, Disposed
      <4>3. CASE Turned("update", "delete", pass.del, "delete")
        BY <1>3, <3>1, <4>1, <4>3 DEF Turned, Disposed
      <4>4. CASE Turned("delete", "acl", pass.ids, "get")
        BY <1>3, <3>1, <4>1, <4>4 DEF Turned, Disposed
      <4>5. CASE Turned("acl", "rules", pass.ids, "rules") \/ Turned("rules", "post", pass.gone, "delete")
        BY <1>3, <3>1, <4>1, <4>5 DEF Turned, Disposed
      <4>6. CASE Post
        BY <1>3, <3>1, <4>1, <4>6 DEF Post, Disposed
      <4> QED
        BY <2>4, <4>2, <4>3, <4>4, <4>5, <4>6 DEF Turns
    <3> QED
      BY <3>1, <3>2 DEF OthersGo
  <2> QED
    BY <1>3, <2>1, <2>2, <2>3, <2>4
<1> QED
  BY <1>1, <1>2, <1>3 DEF Moves, Made, Updated, Relisted, Ruled

\* The rules of a listener that is done stay as configured.
LEMMA RulesFitStep ==
  ASSUME Shapes, Moves, UnusedInv
  PROVE  RulesFit'
<1>0. RulesFit
  BY DEF UnusedInv
<1>1. ASSUME NEW l \in Listener, NEW x, Made(l, x) \/ Updated(l, x) \/ Relisted(l, x) PROVE RulesFit'
  <2>1. pass'.pc \in {"create", "update", "acl"}
    BY <1>1 DEF Made, Updated, Relisted, Worked
  <2> QED
    BY <2>1 DEF RulesFit
<1>2. ASSUME NEW l \in Listener, NEW x, Ruled(l, x) PROVE RulesFit'
  <2>1. /\ listeners'[l] = x
        /\ \A k \in Listener \ {l} : listeners'[k] = listeners[k]
    BY <1>2, WorkedOthers DEF Ruled
  <2>2. /\ pass.pc = "rules" /\ pass'.pc = "rules" /\ pass'.cfg = pass.cfg /\ pass'.ids = pass.ids
        /\ \A k, s : k # l => (<<k, s>> \in pass'.todo <=> <<k, s>> \in pass.todo)
    BY <1>2, WorkedTarget DEF Ruled, RulesDone
  <2>3. pass'.err \/ (~pass.err /\ x.refs = pass.cfg.backs[l])
    BY <1>2 DEF Ruled, RulesDone, cfg
  <2>4. pass.ids \subseteq Listener
    BY <2>2, ListenersAssumption DEF Shapes, Targets, Working
  <2>5. ASSUME NEW k \in pass.ids
        PROVE  listeners'[k].refs = pass.cfg.backs[k] \/ <<k, "rules">> \in pass'.todo \/ pass'.err
    <3>1. CASE k = l
      BY <2>1, <2>3, <3>1
    <3>2. CASE k # l
      BY <1>0, <2>1, <2>2, <2>3, <2>4, <2>5, <3>2 DEF RulesFit
    <3> QED
      BY <3>1, <3>2
  <2> QED
    BY <2>2, <2>5 DEF RulesFit
<1>3. ASSUME NEW l \in Listener, Deleted(l) PROVE RulesFit'
  BY <1>3 DEF RulesFit, Deleted
<1>4. ASSUME listeners' = listeners,
             pass' = pass \/ pass'.pc = "idle" \/ Prepares \/ Listed \/ Turns \/ Post
      PROVE  RulesFit'
  <2>1. CASE pass' = pass
    BY <1>0, <1>4, <2>1 DEF RulesFit
  <2>2. CASE pass'.pc = "idle" \/ Prepares \/ Listed
    BY <2>2 DEF RulesFit, Prepares, Preparing, Listed
  <2>3. CASE Post
    BY <1>0, <1>4, <2>3 DEF RulesFit, Post, SamePass
  <2>4. CASE Turned("rules", "post", pass.gone, "delete")
    BY <1>0, <1>4, <2>4 DEF RulesFit, Turned, SamePass
  <2>5. CASE Turned("acl", "rules", pass.ids, "rules")
    BY <2>5 DEF RulesFit, Turned, SamePass
  <2>6. CASE \/ Turned("create", "update", pass.upd, "list") \/ Turned("update", "delete", pass.del, "delete")
             \/ Turned("delete", "acl", pass.ids, "get")
    BY <2>6 DEF RulesFit, Turned
  <2> QED
    BY <1>4, <2>1, <2>2, <2>3, <2>4, <2>5, <2>6 DEF Turns
<1> QED
  BY <1>1, <1>2, <1>3, <1>4 DEF Moves

\* The groups a pass is to delete stay unwanted.
LEMMA GoneStep ==
  ASSUME Shapes, Moves, UnusedInv
  PROVE  GoneUnwanted'
<1>0. GoneUnwanted
  BY DEF UnusedInv
<1>1. CASE pass'.gone = pass.gone /\ pass'.cfg = pass.cfg /\ pass.pc # "idle"
  BY <1>0, <1>1 DEF GoneUnwanted
<1>2. ASSUME NEW l \in Listener, NEW x, Worked(l, x) PROVE GoneUnwanted'
  BY <1>1, <1>2 DEF Worked, Working
<1>3. ASSUME NEW l \in Listener, Deleted(l) PROVE GoneUnwanted'
  BY <1>1, <1>3 DEF Deleted, SamePass
<1>4. CASE pass' = pass
  BY <1>0, <1>4 DEF GoneUnwanted
<1>5. CASE pass'.pc = "idle"
  BY <1>5 DEF GoneUnwanted
<1>6. CASE Listed \/ Turns \/ Post
  BY <1>1, <1>6 DEF Listed, Turns, Turned, Post, SamePass
<1>7. CASE Prepares
  <2>1. CASE pass.pc = "idle"
    <3>1. pass'.gone = {}
      BY <1>7, <2>1 DEF Prepares, Preparing
    <3> QED
      BY <3>1 DEF GoneUnwanted
  <2>2. CASE pass.pc \in Preparing /\ pass'.gone = pass.gone /\ SamePass
    BY <1>1, <2>2 DEF SamePass, Preparing
  <2>3. CASE pass.pc \in Preparing /\ SamePass /\ \E s \in SUBSET Group : pass'.gone = s \ WantedGroups(cfg)
    <3>1. pass'.cfg = pass.cfg
      BY <2>3 DEF SamePass
    <3> QED
      BY <2>3, <3>1 DEF GoneUnwanted, cfg
  <2> QED
    BY <1>7, <2>1, <2>2, <2>3 DEF Prepares
<1> QED
  BY <1>2, <1>3, <1>4, <1>5, <1>6, <1>7 DEF Moves, Made, Updated, Relisted, Ruled

\* The invariant says that only unused groups are deleted.
LEMMA UnusedEnough == Shapes /\ UnusedInv => DeletesUnused
<1> SUFFICES ASSUME Shapes, UnusedInv, pass.pc = "post", NEW g \in pass.gone, NEW l \in Listener,
                    listeners[l] # None, g = listeners[l].action \/ g \in listeners[l].refs
             PROVE  FALSE
  BY DEF DeletesUnused, Used
<1>1. g \in Group /\ g \notin WantedGroups(pass.cfg)
  BY DEF UnusedInv, GoneUnwanted
<1>2. CASE l \in DOMAIN pass.cfg.ls
  <2>1. l \in pass.ids
    BY <1>2 DEF UnusedInv, Covered
  <2>2. listeners[l].action = DefaultGroup(l)
    BY <2>1 DEF UnusedInv, IdsFit, Running, Working, Described
  <2>3. listeners[l].refs = pass.cfg.backs[l]
    BY <2>1 DEF UnusedInv, RulesFit
  <2>4. g \in {DefaultGroup(l)} \cup pass.cfg.backs[l]
    BY <2>2, <2>3
  <2>5. g \in WantedGroups(pass.cfg)
    BY <1>2, <2>4 DEF WantedGroups
  <2> QED
    BY <1>1, <2>5
<1>3. CASE l \notin DOMAIN pass.cfg.ls
  <2>1. Disposed(l)
    BY <1>3 DEF UnusedInv, OthersGo, Running, Working
  <2>2. pass.cfg.commonReuse /\ listeners[l].desc # AutoDesc
    BY <2>1 DEF Disposed
  <2>3. pass.cfg \in Config
    BY DEF Shapes
  <2>4. listeners[l].action = None /\ listeners[l].refs = {}
    BY <2>2, <2>3 DEF UnusedInv, Unlinked, Bare
  <2> QED
    BY <1>1, <2>4, ListenersAssumption
<1> QED
  BY <1>2, <1>3

\* When the server groups that are left over are deleted, no default action
\* and no rule of any listener refers to them: a pass gets that far only when
\* every listener of the configuration has been brought up to date, every
\* other listener it can see is gone and every rule has been applied, and a
\* failed goroutine whose error is not noted is covered by the one that was
\* (PostApply of serverGroupApplier).
THEOREM DeletedUnused ==
  ASSUME Recognized
  PROVE  Spec => []DeletesUnused
<1>1. Init => UnusedInv
  <2> SUFFICES ASSUME Init PROVE UnusedInv
    OBVIOUS
  <2>1. pass.pc = "idle" /\ Touched(pass) = {}
    BY IdleRecord DEF Init, Touched, Working
  <2>2. \A l \in Listener : listeners[l] # None => Bare(listeners[l])
    BY DEF Init, Bare
  <2>3. Unlinked
    BY <2>1, <2>2 DEF Unlinked
  <2> QED
    BY <2>1, <2>3 DEF UnusedInv, IdsFit, Covered, OthersGo, RulesFit, GoneUnwanted, Running, Working
<1>2. Shapes /\ UnusedInv /\ [Next]_vars => UnusedInv'
  BY StepMoves, UnlinkedStep, IdsFitStep, CoveredStep, OthersGoStep, RulesFitStep, GoneStep DEF UnusedInv
<1> QED
  BY <1>1, <1>2, UnusedEnough, ShapesAlways, PTL DEF Spec

-----------------------------------------------------------------------------
(* Certificates stay                                                       *)

\* An AlbConfig marks no certificate but its first as the default.
FirstDefault ==
  \A c \in Config : \A l \in Tls \cap DOMAIN c.ls : \A i \in DOMAIN c.ls[l].certs :
    c.ls[l].certs[i].isDefault => i = 1

CasTyped == cas \subseteq Cert /\ (casCache = None \/ casCache \subseteq Cert)

\* Only the first of the certificates a pass wants is the default.
CertsFit ==
  pass.pc # "idle" =>
    \A l \in Tls \cap DOMAIN pass.cfg.ls : \A i \in DOMAIN pass.certs[l] :
      pass.certs[l][i].isDefault => i = 1

\* The elements of two sequences put together.
LEMMA ConcatAt ==
  ASSUME NEW m \in Nat, NEW n \in Nat, NEW s, NEW t,
         s = [i \in 1..m |-> s[i]], t = [i \in 1..n |-> t[i]]
  PROVE  /\ s \o t = [i \in 1..(m + n) |-> (s \o t)[i]]
         /\ \A i \in 1..m : (s \o t)[i] = s[i]
         /\ \A i \in (m + 1)..(m + n) : (s \o t)[i] = t[i - m]
<1> DEFINE A == {s[i] : i \in 1..m} \cup {t[i] : i \in 1..n}
<1>1. s \in [1..m -> A] /\ t \in [1..n -> A]
  OBVIOUS
<1>2. s \in Seq(A) /\ t \in Seq(A) /\ Len(s) = m /\ Len(t) = n
  <2> HIDE DEF A
  <2> QED
    BY <1>1
<1> HIDE DEF A
<1>3. /\ s \o t \in Seq(A) /\ Len(s \o t) = m + n
      /\ \A i \in 1..(m + n) : (s \o t)[i] = IF i <= m THEN s[i] ELSE t[i - m]
  BY <1>2, ConcatProperties
<1>4. s \o t = [i \in 1..(m + n) |-> (s \o t)[i]]
  BY <1>3
<1>5. ASSUME NEW i \in 1..m PROVE (s \o t)[i] = s[i]
  <2>1. i \in 1..(m + n) /\ i <= m
    OBVIOUS
  <2> QED
    BY <1>3, <2>1
<1>6. ASSUME NEW i \in (m + 1)..(m + n) PROVE (s \o t)[i] = t[i - m]
  <2>1. i \in 1..(m + n) /\ ~(i <= m)
    OBVIOUS
  <2> QED
    BY <1>3, <2>1
<1> QED
  BY <1>4, <1>5, <1>6

\* The certificates of Secrets and those that are discovered are not defaults.
LEMMA SecretCertsPlain ==
  ASSUME NEW c \in Config, NEW l \in Tls \cap DOMAIN c.ls
  PROVE  \E n \in Nat : /\ SecretCerts(c, l) = [k \in 1..n |-> SecretCerts(c, l)[k]]
                        /\ \A k \in 1..n : SecretCerts(c, l)[k].isDefault = FALSE
<1> DEFINE named == {i \in DOMAIN c.tls[l] : c.tls[l][i].secret # None}
           id(i) == CertOf[c.tls[l][i].secret][c.secret[c.tls[l][i].secret]]
           new == {i \in named : \A j \in named : j < i => id(j) # id(i)}
<1>1. IsFiniteSet(new)
  <2>1. c.tls[l] \in Seq([secret : Secret \cup {None}, hosts : SUBSET Host])
    BY ListenersAssumption
  <2>2. PICK T : T = [secret : Secret \cup {None}, hosts : SUBSET Host]
    OBVIOUS
  <2>3. DOMAIN c.tls[l] = 1..Len(c.tls[l]) /\ Len(c.tls[l]) \in Nat
    BY <2>1, <2>2
  <2>4. IsFiniteSet(1..Len(c.tls[l]))
    BY <2>3, FS_Interval
  <2>5. new \subseteq 1..Len(c.tls[l])
    BY <2>3
  <2> QED
    BY <2>4, <2>5, FS_Subset
<1>2. Cardinality(new) \in Nat
  BY <1>1, FS_CardinalityType
<1>3. SecretCerts(c, l) = [k \in DOMAIN Sorted(new) |-> [id |-> id(Sorted(new)[k]), isDefault |-> FALSE]]
  BY DEF SecretCerts
<1> HIDE DEF new, id, named
<1>4. DOMAIN Sorted(new) = 1..Cardinality(new)
  BY DEF Sorted
<1>5. SecretCerts(c, l) = [k \in 1..Cardinality(new) |-> [id |-> id(Sorted(new)[k]), isDefault |-> FALSE]]
  BY <1>3, <1>4
<1> QED
  BY <1>2, <1>5

\* Of the certificates of a listener at most the first is the default.
LEMMA CertificatesFit ==
  ASSUME FirstDefault, NEW c \in Config, NEW l \in Tls \cap DOMAIN c.ls, NEW list \in SUBSET Cert,
         Buildable(c, list)
  PROVE  \A i \in DOMAIN Certificates(c, l, list) : Certificates(c, l, list)[i].isDefault => i = 1
<1> DEFINE found == Discover(list, MissHosts(c.tls[l]))
           sorted == Sorted(found)
           plain == [i \in DOMAIN sorted |-> [id |-> sorted[i], isDefault |-> FALSE]]
           fixed == IF c.ls[l].certs # <<>> \/ MissHosts(c.tls[l]) = {} THEN c.ls[l].certs ELSE plain
           certs == fixed \o SecretCerts(c, l)
<1>1. Certificates(c, l, list)
        = IF (c.tls[l] = <<>> /\ c.backs[l] = {}) \/ certs = <<>> THEN c.ls[l].certs ELSE [certs EXCEPT ![1].isDefault = TRUE]
  BY DEF Certificates
<1>2. PICK n \in Nat : /\ SecretCerts(c, l) = [k \in 1..n |-> SecretCerts(c, l)[k]]
                       /\ \A k \in 1..n : SecretCerts(c, l)[k].isDefault = FALSE
  BY SecretCertsPlain
<1>3. \E m \in Nat : /\ c.ls[l].certs = [i \in 1..m |-> c.ls[l].certs[i]]
                     /\ \A i \in 1..m : c.ls[l].certs[i].isDefault => i = 1
  <2>1. c.ls[l].certs \in Seq([id : Cert, isDefault : BOOLEAN])
    BY ListenersAssumption
  <2>2. PICK m : m = Len(c.ls[l].certs)
    OBVIOUS
  <2>3. m \in Nat /\ c.ls[l].certs = [i \in 1..m |-> c.ls[l].certs[i]] /\ DOMAIN c.ls[l].certs = 1..m
    BY <2>1, <2>2
  <2> QED
    BY <2>3 DEF FirstDefault
<1>4. ASSUME c.ls[l].certs = <<>> /\ MissHosts(c.tls[l]) # {}
      PROVE  \E m \in Nat : fixed = [i \in 1..m |-> fixed[i]] /\ \A i \in 1..m : fixed[i].isDefault => i = 1
  <2>1. found # None
    BY <1>4 DEF Buildable, Discovers
  <2>2. found \subseteq Cert
    BY <2>1 DEF Discover
  <2>3. IsFiniteSet(found) /\ Cardinality(found) \in Nat
    BY <2>2, ListenersAssumption, FS_Subset, FS_CardinalityType
  <2> HIDE DEF found
  <2>4. DOMAIN sorted = 1..Cardinality(found)
    BY DEF Sorted
  <2> HIDE DEF sorted
  <2>5. \E m \in Nat : plain = [i \in 1..m |-> plain[i]] /\ \A i \in 1..m : plain[i].isDefault => i = 1
    BY <2>3, <2>4
  <2>6. fixed = plain
    BY <1>4
  <2> HIDE DEF plain, fixed
  <2> QED
    BY <2>5, <2>6
<1>5. PICK m \in Nat : fixed = [i \in 1..m |-> fixed[i]] /\ \A i \in 1..m : fixed[i].isDefault => i = 1
  <2> HIDE DEF plain
  <2>1. CASE ~(c.ls[l].certs = <<>> /\ MissHosts(c.tls[l]) # {})
    <3>1. fixed = c.ls[l].certs
      BY <2>1
    <3> QED
      BY <1>3, <3>1
  <2> QED
    BY <1>4, <2>1
<1>6. CASE (c.tls[l] = <<>> /\ c.backs[l] = {}) \/ certs = <<>>
  BY <1>1, <1>3, <1>6
<1>7. CASE ~((c.tls[l] = <<>> /\ c.backs[l] = {}) \/ certs = <<>>)
  <2>0. PICK f, t : f = fixed /\ t = SecretCerts(c, l)
    OBVIOUS
  <2> HIDE DEF fixed
  <2>1. /\ f \o t = [i \in 1..(m + n) |-> (f \o t)[i]]
        /\ \A i \in 1..m : (f \o t)[i] = f[i]
        /\ \A i \in (m + 1)..(m + n) : (f \o t)[i] = t[i - m]
    BY <1>2, <1>5, <2>0, ConcatAt
  <2>2. PICK s : s = f \o t
    OBVIOUS
  <2>3. ASSUME NEW i \in 1..(m + n), s[i].isDefault PROVE i = 1
    <3>1. CASE i \in 1..m
      BY <1>5, <2>0, <2>1, <2>2, <2>3, <3>1
    <3>2. CASE i \in (m + 1)..(m + n)
      <4>1. i - m \in 1..n
        BY <3>2
      <4>2. s[i].isDefault = FALSE
        BY <1>2, <2>0, <2>1, <2>2, <3>2, <4>1
      <4> QED
        BY <2>3, <4>2
    <3> QED
      BY <3>1, <3>2
  <2>4. Certificates(c, l, list) = [s EXCEPT ![1].isDefault = TRUE]
    BY <1>1, <1>7, <2>0, <2>2
  <2>5. s = [i \in 1..(m + n) |-> s[i]]
    BY <2>1, <2>2
  <2>6. ASSUME NEW i \in DOMAIN Certificates(c, l, list), i # 1
        PROVE  i \in 1..(m + n) /\ Certificates(c, l, list)[i] = s[i]
    BY <2>4, <2>5, <2>6
  <2> QED
    BY <2>3, <2>6
<1> QED
  BY <1>6, <1>7

\* The certificates a pass found always have their shape.
LEMMA CasAlways == Spec => []CasTyped
<1>1. Init => CasTyped
  BY ListenersAssumption DEF Init, CasTyped
<1>2. ASSUME CasTyped, [Next]_vars PROVE CasTyped'
  <2>1. ASSUME NEW ok \in BOOLEAN, Build(ok) PROVE CasTyped'
    <3>1. cas' = cas /\ (casCache' = casCache \/ casCache' = CasList)
      BY <2>1 DEF Build
    <3> QED
      BY <1>2, <3>1 DEF CasTyped, CasList
  <2>2. ASSUME NEW ok \in BOOLEAN, NEW x \in Secrets, CreateSSLCertificateWithName(x, ok) PROVE CasTyped'
    <3>1. cas' \subseteq cas \cup {x} /\ (casCache' = casCache \/ casCache' = None) /\ x \in Cert
      BY <2>2, ListenersAssumption DEF CreateSSLCertificateWithName
    <3> QED
      BY <1>2, <3>1 DEF CasTyped
  <2>3. CASE CacheExpires \/ Restart \/ \E x \in Upload : UploadCertificate(x)
    <3>1. Upload \subseteq Cert
      BY ListenersAssumption
    <3> QED
      BY <1>2, <2>3, <3>1 DEF CasTyped, CacheExpires, Restart, UploadCertificate
  <2>4. CASE UNCHANGED <<cas, casCache>>
    BY <1>2, <2>4 DEF CasTyped
  <2>5. CASE (\E c \in Config : ChangeConfig(c)) \/ UNCHANGED vars
    BY <2>4, <2>5 DEF ChangeConfig, cloud, vars
  <2>6. CASE \/ GroupsCreated \/ ListenersCreated \/ ListenersUpdated
             \/ ListenersDeleted \/ AclsApplied \/ RulesApplied \/ PassEnds
             \/ \E ok \in BOOLEAN : ListServerGroups(ok) \/ ListListeners(ok)
    BY <2>4, <2>6 DEF GroupsCreated, ListenersCreated, ListenersUpdated, ListenersDeleted, AclsApplied,
                      RulesApplied, PassEnds, ListServerGroups, ListListeners, cloud
  <2>7. CASE \E ok \in BOOLEAN, g \in Group :
            \/ CreateALBServerGroup(g, ok) \/ addServerToServerGroup(g, ok)
            \/ RollBackServerGroup(g, ok) \/ UpdateALBServerGroup(g, ok)
            \/ removeServerFromServerGroup(g, ok) \/ DeleteALBServerGroup(g, ok)
    BY <2>4, <2>7 DEF CreateALBServerGroup, addServerToServerGroup, RollBackServerGroup,
                      UpdateALBServerGroup, removeServerFromServerGroup, DeleteALBServerGroup
  <2>8. CASE \E ok \in BOOLEAN, l \in Listener :
            \/ CreateALBListener(l, ok) \/ AssociateNew(l, ok) \/ listListenerCerts(l, ok)
            \/ AssociateExtras(l, ok) \/ DissociateExtras(l, ok)
            \/ updateListenerAttribute(l, ok) \/ DeleteALBListener(l, ok)
    BY <2>4, <2>8 DEF CreateALBListener, AssociateNew, listListenerCerts, AssociateExtras,
                      DissociateExtras, updateListenerAttribute, DeleteALBListener, cloud
  <2>9. CASE \E ok \in BOOLEAN, l \in Listener :
            \/ findListenerAclConfig(l, ok) \/ AssociateAclWithListener(l, ok)
            \/ DisassociateAclWithListener(l, ok) \/ createAcl(l, ok) \/ waitAclStatus(l, ok) \/ FillAcl(l, ok)
            \/ RelateAcl(l, ok) \/ AddAclEntries(l, ok) \/ RemoveAclEntries(l, ok)
            \/ isAssociateAclWithListener(l, ok)
            \/ ApplyRules(l, ok)
    <3>1. CASE \E ok \in BOOLEAN, l \in Listener :
            \/ findListenerAclConfig(l, ok) \/ waitAclStatus(l, ok) \/ isAssociateAclWithListener(l, ok)
      BY <2>4, <3>1 DEF findListenerAclConfig, waitAclStatus, isAssociateAclWithListener, cloud
    <3>2. CASE \E ok \in BOOLEAN, l \in Listener :
            \/ AssociateAclWithListener(l, ok) \/ DisassociateAclWithListener(l, ok) \/ ApplyRules(l, ok)
      BY <2>4, <3>2 DEF AssociateAclWithListener, DisassociateAclWithListener, ApplyRules
    <3>3. CASE \E ok \in BOOLEAN, l \in Listener : createAcl(l, ok) \/ FillAcl(l, ok) \/ RelateAcl(l, ok)
      BY <2>4, <3>3 DEF createAcl, FillAcl, RelateAcl
    <3>4. CASE \E ok \in BOOLEAN, l \in Listener : AddAclEntries(l, ok) \/ RemoveAclEntries(l, ok)
      BY <2>4, <3>4 DEF AddAclEntries, RemoveAclEntries
    <3> QED
      BY <2>9, <3>1, <3>2, <3>3, <3>4
  <2>10. ASSUME NEW ok \in BOOLEAN,
               \/ Build(ok) \/ ListServerGroups(ok) \/ ListListeners(ok)
               \/ \E x \in Secrets : CreateSSLCertificateWithName(x, ok)
         PROVE  CasTyped'
    BY <2>1, <2>2, <2>6, <2>10
  <2>11. CASE Pass
    BY <2>6, <2>7, <2>8, <2>9, <2>10, <2>11 DEF Pass
  <2> QED
    BY <1>2, <2>3, <2>5, <2>11 DEF Next
<1> QED
  BY <1>1, <1>2, PTL DEF Spec

\* Every move keeps the default certificate first.
LEMMA CertsStep ==
  ASSUME Shapes, Moves, CasTyped, CertsFit, FirstDefault
  PROVE  CertsFit'
<1>1. CASE pass.pc # "idle" /\ pass'.cfg = pass.cfg /\ pass'.certs = pass.certs
  BY <1>1 DEF CertsFit
<1>2. ASSUME NEW l \in Listener, NEW x, Worked(l, x) PROVE CertsFit'
  BY <1>1, <1>2 DEF Worked, Working
<1>3. ASSUME NEW l \in Listener, Deleted(l) PROVE CertsFit'
  BY <1>1, <1>3 DEF Deleted, SamePass
<1>4. CASE pass' = pass
  BY <1>4 DEF CertsFit
<1>5. CASE pass'.pc = "idle"
  BY <1>5 DEF CertsFit
<1>6. CASE Listed \/ Turns \/ Post
  BY <1>1, <1>6 DEF Listed, Turns, Turned, Post, SamePass
<1>7. CASE Prepares
  <2>1. CASE pass.pc \in Preparing /\ SamePass
    BY <1>1, <2>1 DEF SamePass, Preparing
  <2>2. CASE /\ pass'.cfg = config /\ Buildable(config, CasList)
             /\ pass'.certs = [l \in Tls \cap DOMAIN config.ls |-> Certificates(config, l, CasList)]
    <3>1. config \in Config /\ CasList \in SUBSET Cert
      BY DEF Shapes, CasTyped, CasList
    <3>2. PICK c, list : c = config /\ list = CasList
      OBVIOUS
    <3>3. ASSUME NEW l \in Tls \cap DOMAIN c.ls, NEW i \in DOMAIN pass'.certs[l], pass'.certs[l][i].isDefault
          PROVE  i = 1
      <4>1. pass'.certs[l] = Certificates(c, l, list)
        BY <2>2, <3>2, <3>3
      <4>2. \A j \in DOMAIN Certificates(c, l, list) : Certificates(c, l, list)[j].isDefault => j = 1
        BY <2>2, <3>1, <3>2, <3>3, CertificatesFit
      <4> QED
        BY <3>3, <4>1, <4>2
    <3> QED
      BY <2>2, <3>2, <3>3 DEF CertsFit
  <2> QED
    BY <1>7, <2>1, <2>2 DEF Prepares
<1> QED
  BY <1>2, <1>3, <1>4, <1>5, <1>6, <1>7 DEF Moves, Made, Updated, Relisted, Ruled

\* An additional certificate that is wanted stays on the listener.
LEMMA CertSteps ==
  ASSUME Shapes, NEW l \in Listener, NEW ok \in BOOLEAN,
         \/ listListenerCerts(l, ok) \/ AssociateExtras(l, ok)
         \/ DissociateExtras(l, ok) \/ updateListenerAttribute(l, ok)
  PROVE  /\ \A k \in Listener \ {l} : listeners'[k] = listeners[k]
         /\ \A y \in extraCerts(l) : y \in {listeners[l].default} \cup listeners[l].extras
                                       => y \in {listeners'[l].default} \cup listeners'[l].extras
<1>1. listeners = [k \in Listener |-> listeners[k]]
  BY DEF Shapes
<1>2. ListenerRecord(listeners[l])
  <2>1. \E s \in Later : pass.pc = "update" /\ <<l, s>> \in pass.todo
    BY DEF listListenerCerts, AssociateExtras, DissociateExtras, updateListenerAttribute, At, Later
  <2>2. l \in Touched(pass)
    BY <2>1 DEF Touched, Working
  <2> QED
    BY <2>2 DEF Shapes
<1>3. CASE listeners' = listeners
  BY <1>3
<1>4. ASSUME NEW x, listeners' = [listeners EXCEPT ![l] = x],
             \A y \in extraCerts(l) : y \in {listeners[l].default} \cup listeners[l].extras
                                        => y \in {x.default} \cup x.extras
      PROVE  /\ \A k \in Listener \ {l} : listeners'[k] = listeners[k]
             /\ \A y \in extraCerts(l) : y \in {listeners[l].default} \cup listeners[l].extras
                                           => y \in {listeners'[l].default} \cup listeners'[l].extras
  BY <1>1, <1>4
<1>5. CASE listListenerCerts(l, ok)
  BY <1>3, <1>5 DEF listListenerCerts, cloud
<1>6. ASSUME NEW e PROVE LET x == [listeners[l] EXCEPT !.extras = e]
                         IN  x.default = listeners[l].default /\ x.extras = e
  BY <1>2 DEF ListenerRecord
<1>7. CASE AssociateExtras(l, ok)
  <2>1. PICK e : e = listeners[l].extras \cup desiredExtraCertIDs(l)
    OBVIOUS
  <2>2. listeners' = listeners \/ listeners' = [listeners EXCEPT ![l] = [listeners[l] EXCEPT !.extras = e]]
    BY <1>1, <1>7, <2>1 DEF AssociateExtras
  <2>3. PICK x : x = [listeners[l] EXCEPT !.extras = e]
    OBVIOUS
  <2>4. x.default = listeners[l].default /\ x.extras = e
    BY <1>6, <2>3
  <2> QED
    BY <1>3, <1>4, <2>1, <2>2, <2>3, <2>4
<1>8. CASE DissociateExtras(l, ok)
  <2>1. PICK e : e = listeners[l].extras \cap desiredExtraCertIDs(l)
    OBVIOUS
  <2>2. listeners' = listeners \/ listeners' = [listeners EXCEPT ![l] = [listeners[l] EXCEPT !.extras = e]]
    BY <1>1, <1>8, <2>1 DEF DissociateExtras
  <2>3. PICK x : x = [listeners[l] EXCEPT !.extras = e]
    OBVIOUS
  <2>4. x.default = listeners[l].default /\ x.extras = e
    BY <1>6, <2>3
  <2>5. \A y \in extraCerts(l) : y # listeners[l].default => y \in desiredExtraCertIDs(l)
    BY DEF desiredExtraCertIDs
  <2> QED
    BY <1>3, <1>4, <2>1, <2>2, <2>3, <2>4, <2>5
<1>9. CASE updateListenerAttribute(l, ok)
  <2> DEFINE spec == buildListenerSpec(cfg, l)
             new == [listeners[l] EXCEPT !.desc = spec.desc, !.attr = spec.attr, !.action = spec.action,
                       !.default = IF l \in Tls /\ ~keepsDefault(l) THEN defaultCert(l) ELSE @]
  <2>1. listeners' \in {listeners, [listeners EXCEPT ![l] = new]}
    BY <1>9 DEF updateListenerAttribute
  <2>2. PICK r, d : r = listeners[l] /\ d = IF l \in Tls /\ ~keepsDefault(l) THEN defaultCert(l) ELSE r.default
    OBVIOUS
  <2> HIDE DEF spec
  <2>3. new = [r EXCEPT !.desc = spec.desc, !.attr = spec.attr, !.action = spec.action, !.default = d]
    BY <2>2
  <2> HIDE DEF new
  <2>4. new.default = d /\ new.extras = r.extras
    BY <1>2, <2>2, <2>3 DEF ListenerRecord
  <2>5. r.default \in extraCerts(l) => d = r.default
    BY <2>2 DEF keepsDefault
  <2>6. PICK x : x = new
    OBVIOUS
  <2> QED
    BY <1>3, <1>4, <2>1, <2>2, <2>4, <2>5, <2>6
<1> QED
  BY <1>5, <1>7, <1>8, <1>9

\* While listeners are updated only these steps change them.
LEMMA UpdateOnly ==
  ASSUME Shapes, [Next]_vars, pass.pc = "update"
  PROVE  \/ listeners' = listeners
         \/ \E l \in Listener, ok \in BOOLEAN :
              \/ listListenerCerts(l, ok) \/ AssociateExtras(l, ok)
              \/ DissociateExtras(l, ok) \/ updateListenerAttribute(l, ok)
<1> DEFINE Goal == \/ listeners' = listeners
                   \/ \E l \in Listener, ok \in BOOLEAN :
                        \/ listListenerCerts(l, ok) \/ AssociateExtras(l, ok)
                        \/ DissociateExtras(l, ok) \/ updateListenerAttribute(l, ok)
<1>1. CASE \/ PassEnds \/ CacheExpires \/ Restart
           \/ \E c \in Config : ChangeConfig(c)
           \/ \E x \in Upload : UploadCertificate(x)
           \/ \E g \in Group, ok \in BOOLEAN : DeleteALBServerGroup(g, ok)
           \/ UNCHANGED vars
  BY <1>1, OtherSteps
<1>2. ASSUME NEW ok \in BOOLEAN,
             \/ ListListeners(ok) \/ ListenersCreated \/ ListenersUpdated \/ ListenersDeleted
             \/ AclsApplied \/ RulesApplied
      PROVE  Goal
  BY <1>2, TurnSteps
<1>3. ASSUME NEW ok \in BOOLEAN,
             \/ Build(ok) \/ ListServerGroups(ok) \/ GroupsCreated
             \/ \E x \in Secrets : CreateSSLCertificateWithName(x, ok)
             \/ \E g \in Group :
                  \/ CreateALBServerGroup(g, ok) \/ addServerToServerGroup(g, ok)
                  \/ RollBackServerGroup(g, ok) \/ UpdateALBServerGroup(g, ok)
                  \/ removeServerFromServerGroup(g, ok)
      PROVE  Goal
  BY <1>3, PrepareSteps
<1>4. ASSUME NEW ok \in BOOLEAN, NEW l \in Listener,
             \/ CreateALBListener(l, ok) \/ AssociateNew(l, ok) \/ DeleteALBListener(l, ok) \/ ApplyRules(l, ok)
      PROVE  Goal
  BY <1>4 DEF CreateALBListener, AssociateNew, DeleteALBListener, ApplyRules, At
<1>5. ASSUME NEW ok \in BOOLEAN, NEW l \in Listener,
             \/ findListenerAclConfig(l, ok) \/ AssociateAclWithListener(l, ok)
             \/ DisassociateAclWithListener(l, ok) \/ createAcl(l, ok) \/ waitAclStatus(l, ok)
             \/ FillAcl(l, ok) \/ RelateAcl(l, ok) \/ AddAclEntries(l, ok) \/ RemoveAclEntries(l, ok)
             \/ isAssociateAclWithListener(l, ok)
      PROVE  Goal
  BY <1>5, AclSteps
<1>6. TRUE \in BOOLEAN
  OBVIOUS
<1>7. CASE \/ GroupsCreated \/ ListenersCreated \/ ListenersUpdated
           \/ ListenersDeleted \/ AclsApplied \/ RulesApplied \/ PassEnds
  <2> HIDE DEF Goal
  <2>1. Goal
    <3>1. PassEnds => Goal
      BY <1>1 DEF Goal
    <3> QED
      BY <1>2, <1>3, <1>6, <1>7, <3>1
  <2> QED
    BY <2>1 DEF Goal
<1>8. CASE Pass
  BY <1>1, <1>2, <1>3, <1>4, <1>5, <1>7, <1>8 DEF Pass
<1> QED
  BY <1>1, <1>8 DEF Next

\* While a listener is updated, a certificate that it has and the pass wants
\* as an additional one is never taken off, whatever fails: what is
\* dissociated is not wanted, and the default is only replaced by another one
\* when it is not wanted (updateListenerExtraCertificates and
\* updateListenerAttribute).
THEOREM CertificatesStay ==
  ASSUME FirstDefault
  PROVE  Spec => WantedCertsStay
<1> DEFINE Stay ==
      \A l \in Tls :
       pass.pc = "update" /\ listeners[l] # None /\ l \in DOMAIN cfg.ls =>
         \A x \in {listeners[l].default} \cup listeners[l].extras :
           /\ \E i \in DOMAIN pass.certs[l] : pass.certs[l][i].id = x
           /\ x # pass.certs[l][1].id
           => x \in {listeners'[l].default} \cup listeners'[l].extras
<1>1. Init => CertsFit
  BY IdleRecord DEF Init, CertsFit
<1>2. ASSUME Shapes, CasTyped, CertsFit, [Next]_vars PROVE CertsFit' /\ [Stay]_vars
  <2>1. CertsFit'
    BY <1>2, StepMoves, CertsStep
  <2>2. ASSUME NEW l \in Tls, pass.pc = "update", listeners[l] # None, l \in DOMAIN pass.cfg.ls,
               NEW x \in {listeners[l].default} \cup listeners[l].extras,
               \E i \in DOMAIN pass.certs[l] : pass.certs[l][i].id = x,
               x # pass.certs[l][1].id
        PROVE  x \in {listeners'[l].default} \cup listeners'[l].extras
    <3>1. x \in extraCerts(l)
      <4>1. PICK i \in DOMAIN pass.certs[l] : pass.certs[l][i].id = x
        BY <2>2
      <4>2. ~pass.certs[l][i].isDefault
        BY <1>2, <2>2, <4>1 DEF CertsFit
      <4> QED
        BY <4>1, <4>2 DEF extraCerts, ToSet
    <3>2. CASE listeners' = listeners
      BY <2>2, <3>2
    <3>3. ASSUME NEW k \in Listener, NEW ok \in BOOLEAN,
                 \/ listListenerCerts(k, ok) \/ AssociateExtras(k, ok)
                 \/ DissociateExtras(k, ok) \/ updateListenerAttribute(k, ok)
          PROVE  x \in {listeners'[l].default} \cup listeners'[l].extras
      <4>1. l \in Listener
        BY ListenersAssumption
      <4>2. /\ \A j \in Listener \ {k} : listeners'[j] = listeners[j]
            /\ \A y \in extraCerts(k) : y \in {listeners[k].default} \cup listeners[k].extras
                                          => y \in {listeners'[k].default} \cup listeners'[k].extras
        BY <1>2, <3>3, CertSteps
      <4>3. CASE k = l
        BY <2>2, <3>1, <4>2, <4>3
      <4>4. CASE k # l
        <5>1. listeners'[l] = listeners[l]
          BY <4>1, <4>2, <4>4
        <5> QED
          BY <2>2, <5>1
      <4> QED
        BY <4>3, <4>4
    <3> QED
      BY <1>2, <2>2, <3>2, <3>3, UpdateOnly
  <2>3. Stay
    BY <2>2 DEF cfg
  <2> HIDE DEF Stay
  <2> QED
    BY <2>1, <2>3
<1> QED
  BY <1>1, <1>2, ShapesAlways, CasAlways, PTL DEF Spec, WantedCertsStay

-----------------------------------------------------------------------------
(* At rest                                                                 *)

\* Whatever certificates there are, a TLS listener has a default one.
Certified ==
  \A c \in Config : \A l \in Tls \cap DOMAIN c.ls, list \in SUBSET Cert :
    Buildable(c, list) => /\ 1 \in DOMAIN Certificates(c, l, list)
                          /\ Certificates(c, l, list)[1].isDefault

\* Access control lists named by ID are those of users, entries are entries,
\* and no two listeners of an AlbConfig share the name of a list.
ListsApart ==
  \A c \in Config : \A l \in DOMAIN c.ls :
    LET want == buildAcl(c, l)
    IN  /\ want.ids \subseteq UserAcl /\ want.entries \subseteq Entry
        /\ \A k \in DOMAIN c.ls \ {l} : want.name # <<>> => buildAcl(c, k).name # want.name

\* None is no record.
Apart ==
  /\ \A x : ListenerRecord(x) => x # None
  /\ \A a, b : [attr |-> a, servers |-> b] # None /\ [name |-> a, entries |-> b] # None

\* The pass knows the configuration there is, or is in for another one.
Aware == dirty \/ pass.cfg = config

\* The first certificate a pass wants is the default.
CertsHead ==
  pass.pc # "idle" =>
    \A l \in Tls \cap DOMAIN pass.cfg.ls : 1 \in DOMAIN pass.certs[l] /\ pass.certs[l][1].isDefault

\* A listener has the certificates that the pass wants.
CertsOn(l, x) == {x.default} \cup x.extras = {y.id : y \in ToSet(pass.certs[l])}

\* The attributes and certificates of a listener that is done
DoneFits(l, x) == x.attr = Sent(pass.cfg, l) /\ (l \in Tls => CertsOn(l, x))

\* How far the goroutine of a listener has come, by its next call
CertState(l, s) ==
  /\ pass.pc = "create" /\ s = "extras" =>
       /\ listeners[l].attr = Sent(pass.cfg, l) /\ listeners[l].default = defaultCert(l)
       /\ l \in Tls
  /\ pass.pc = "update" /\ l \in Tls =>
       /\ s = "dissociate" => desiredExtraCertIDs(l) \subseteq listeners[l].extras
       /\ s = "attribute" => desiredExtraCertIDs(l) = listeners[l].extras

\* There is one goroutine for a listener, and the listener is not done.
CertJob(l, s) ==
  /\ l \notin pass.ids
  /\ \A t \in Later \cup {"create"} : <<l, t>> \in pass.todo => t = s
  /\ CertState(l, s)

CertJobs ==
  /\ pass.pc \in {"create", "update"} =>
       \A l \in Listener, s \in Later \cup {"create"} : <<l, s>> \in pass.todo => CertJob(l, s)
  /\ pass.pc = "create" => pass.upd \cap pass.ids = {} /\ \A x \in pass.todo : x[1] \notin pass.upd
  /\ pass.pc \in Running => \A l \in pass.ids : DoneFits(l, listeners[l])

\* Access control lists

AclRecord(x) == x # None /\ x = [name |-> x.name, entries |-> x.entries]

ListsExist ==
  /\ acls = [a \in AclId |-> acls[a]]
  /\ \A a \in UserAcl : AclRecord(acls[a])
  /\ \A l \in Listener : listeners[l] # None =>
       \A a \in listeners[l].acl : a \in AclId /\ AclRecord(acls[a])

\* The access control list that the pass wants for l is in force.
InForce(l) ==
  LET want == buildAcl(pass.cfg, l)
      cur == listeners[l].acl
  IN want.type # None =>
       /\ listeners[l].aclType = want.type
       /\ IF want.name = <<>> THEN cur = want.ids
            ELSE \E a \in cur : acls[a].name = want.name /\ acls[a].entries = want.entries

\* The list a goroutine works on
OwnList(l) ==
  \E a \in AclId : /\ pass.acl[l] = {a} /\ AclRecord(acls[a])
                   /\ acls[a].name = buildAcl(pass.cfg, l).name

ListJob(l, s) ==
  LET want == buildAcl(pass.cfg, l)
      cur == listeners[l].acl
  IN /\ s # "get" => want.type # None
     /\ s \in {"associate", "dissociate"} => want.name = <<>>
     /\ s = "associate" => /\ (cur \cup pass.acl[l]) \ pass.drop[l] = want.ids
                           /\ pass.acl[l] \subseteq UserAcl
                           /\ pass.acl[l] = {} => listeners[l].aclType = want.type
     /\ s = "dissociate" => cur \ pass.drop[l] = want.ids /\ listeners[l].aclType = want.type
     /\ s \in {"createAcl", "wait", "fill", "relate", "add", "remove", "related"} => want.name # <<>>
     /\ s \in {"wait", "fill", "relate", "add", "remove", "related"} => OwnList(l)
     /\ s \in {"wait", "fill", "relate"} =>
          \A a \in pass.acl[l] :
            /\ a \notin UserAcl
            /\ \A k \in Listener : listeners[k] # None => a \notin listeners[k].acl
            /\ acls[a].entries = IF s = "relate" THEN want.entries ELSE {}
     /\ s \in {"add", "remove", "related"} =>
          /\ listeners[l].aclType = want.type
          /\ \A a \in pass.acl[l] :
               /\ a \in cur
               /\ s = "remove" => want.entries \subseteq acls[a].entries
               /\ s = "related" => acls[a].entries = want.entries

ListJobs ==
  /\ pass.pc = "acl" =>
       /\ \A l \in Listener, s \in Later : <<l, s>> \in pass.todo => ListJob(l, s)
       /\ \A l \in pass.ids : pass.err \/ InForce(l) \/ \E s \in Later : <<l, s>> \in pass.todo
  /\ pass.pc \in {"rules", "post"} => \A l \in pass.ids : InForce(l)

\* Server groups

GroupRecord(x) == x # None /\ x = [attr |-> x.attr, servers |-> x.servers]

GroupsShape ==
  /\ groups = [g \in Group |-> groups[g]]
  /\ \A g \in Group : groups[g] = None \/ GroupRecord(groups[g])

\* Groups that are not wanted will be deleted, and those that are get there.
GroupJobs ==
  LET wanted == WantedGroups(pass.cfg)
  IN /\ pass.pc \in {"groups", "regroup"} \cup Running =>
          \A g \in Group \ wanted : groups[g] # None => g \in pass.gone
     /\ pass.pc = "groups" =>
          /\ pass.upd \subseteq wanted
          /\ \A g \in wanted : /\ g \in pass.upd => groups[g] # None
                               /\ \/ groups[g] # None \/ <<g, "create">> \in pass.todo \/ pass.err
                               /\ g \notin pass.upd /\ groups[g] # None => groups[g].attr = pass.cfg.sgp
          /\ \A x \in pass.todo : /\ x[1] \in wanted \ pass.upd
                                  /\ x[2] \in {"servers", "rollback"} => groups[x[1]] # None
                                  /\ \A y \in pass.todo : y[1] = x[1] => y = x
     /\ pass.pc = "regroup" =>
          /\ \A g \in wanted : /\ groups[g] # None
                               /\ groups[g].attr = pass.cfg.sgp \/ <<g, "update">> \in pass.todo \/ pass.err
          /\ \A x \in pass.todo : x[1] \in wanted
     /\ pass.pc \in Running => \A g \in wanted : groups[g] # None /\ groups[g].attr = pass.cfg.sgp
     /\ pass.pc = "post" =>
          /\ \A g \in Group \ wanted : groups[g] = None \/ <<g, "delete">> \in pass.todo \/ pass.err
          /\ \A x \in pass.todo : x[1] \in pass.gone

\* On a load balancer that is reused there are the user's listeners and the
\* controller's.
DescFits ==
  (\E c \in Config : c.commonReuse)
    => \A l \in Listener : listeners[l] # None => listeners[l].desc \in {"user", AutoDesc}

\* The listeners that are done exist.
IdsThere == pass.pc = "post" => \A l \in pass.ids : ListenerRecord(listeners[l])

RestInv ==
  /\ Aware /\ CertsHead /\ CertJobs /\ ListsExist /\ ListJobs /\ GroupsShape /\ GroupJobs /\ DescFits
  /\ IdsThere /\ QuietInSync

-----------------------------------------------------------------------------
(* Steps that end a pass or do not concern it                              *)

\* A server group that changes its attributes or servers is still one.
LEMMA GroupExcept ==
  ASSUME Apart, NEW x, GroupRecord(x), NEW b
  PROVE  /\ GroupRecord([x EXCEPT !.servers = b]) /\ [x EXCEPT !.servers = b].attr = x.attr
         /\ GroupRecord([x EXCEPT !.attr = b]) /\ [x EXCEPT !.attr = b].attr = b
<1>1. x = [attr |-> x.attr, servers |-> x.servers]
  BY DEF GroupRecord
<1>2. PICK y, z : y = [attr |-> x.attr, servers |-> b] /\ z = [attr |-> b, servers |-> x.servers]
  OBVIOUS
<1>3. [x EXCEPT !.servers = b] = y /\ [x EXCEPT !.attr = b] = z
  BY <1>1, <1>2
<1>4. GroupRecord(y) /\ GroupRecord(z) /\ y.attr = x.attr /\ z.attr = b
  BY <1>2 DEF GroupRecord, Apart
<1> QED
  BY <1>3, <1>4

Stops ==
  /\ pass' = Idle /\ dirty' = TRUE /\ config' = config /\ listeners' = listeners /\ acls' = acls
  /\ \/ groups' = groups
     \/ groups' = [g \in Group |-> IF groups[g] # None /\ g \in config.live
                                     THEN [groups[g] EXCEPT !.servers = TRUE] ELSE groups[g]]

\* A pass that fails or is cut short leaves the AlbConfig in the queue.
LEMMA RestStops ==
  ASSUME Shapes, RestInv, Apart, Stops
  PROVE  RestInv'
<1>1. pass'.pc = "idle" /\ dirty'
  BY IdleRecord DEF Stops
<1>2. Aware' /\ CertsHead' /\ IdsThere' /\ QuietInSync'
  BY <1>1 DEF Aware, CertsHead, IdsThere, QuietInSync, Quiet
<1>3. CertJobs' /\ ListJobs' /\ GroupJobs'
  BY <1>1 DEF CertJobs, ListJobs, GroupJobs, Running, Working
<1>4. ListsExist' /\ DescFits'
  BY DEF RestInv, Stops, ListsExist, DescFits
<1>5. GroupsShape'
  <2>1. CASE groups' = groups
    BY <2>1 DEF RestInv, GroupsShape
  <2>2. CASE groups' # groups
    <3>1. PICK b : b = config.live
      OBVIOUS
    <3>2. groups' = [g \in Group |-> IF groups[g] # None /\ g \in b
                                       THEN [groups[g] EXCEPT !.servers = TRUE] ELSE groups[g]]
      BY <2>2, <3>1 DEF Stops
    <3>3. ASSUME NEW g \in Group PROVE groups'[g] = None \/ GroupRecord(groups'[g])
      <4>1. CASE groups[g] = None
        BY <3>2, <4>1
      <4>2. CASE GroupRecord(groups[g])
        <5>1. GroupRecord([groups[g] EXCEPT !.servers = TRUE])
          BY <4>2, GroupExcept
        <5> QED
          BY <3>2, <4>2, <5>1
      <4> QED
        BY <4>1, <4>2 DEF RestInv, GroupsShape
    <3> QED
      BY <3>2, <3>3 DEF GroupsShape
  <2> QED
    BY <2>1, <2>2
<1> QED
  BY <1>2, <1>3, <1>4, <1>5 DEF RestInv

Outside ==
  /\ pass' = pass /\ listeners' = listeners /\ acls' = acls /\ groups' = groups
  /\ dirty' = TRUE \/ (dirty' = dirty /\ config' = config)

\* Users, time and the certificate service change nothing that a pass has done.
LEMMA RestOutside ==
  ASSUME RestInv, Outside
  PROVE  RestInv'
<1>1. Aware'
  BY DEF RestInv, Aware, Outside
<1>2. CertsHead' /\ ListsExist' /\ GroupsShape' /\ DescFits' /\ IdsThere'
  BY DEF RestInv, Outside, CertsHead, ListsExist, GroupsShape, DescFits, IdsThere
<1>3. CertJobs'
  <2>1. ASSUME NEW l PROVE /\ desiredExtraCertIDs(l)' = desiredExtraCertIDs(l)
                           /\ defaultCert(l)' = defaultCert(l)
    BY DEF Outside, desiredExtraCertIDs, keepsDefault, extraCerts, defaultCert, defaultCerts
  <2>2. ASSUME NEW l, NEW s PROVE CertJob(l, s)' <=> CertJob(l, s)
    BY <2>1 DEF Outside, CertJob, CertState
  <2>4. ASSUME NEW l PROVE DoneFits(l, listeners[l])' <=> DoneFits(l, listeners[l])
    BY DEF Outside, DoneFits, CertsOn
  <2> QED
    BY <2>2, <2>4 DEF RestInv, Outside, CertJobs
<1>4. ListJobs'
  BY DEF RestInv, Outside, ListJobs, ListJob, OwnList, InForce
<1>5. GroupJobs'
  BY DEF RestInv, Outside, GroupJobs
<1>6. QuietInSync'
  <2>1. CASE dirty' = TRUE
    BY <2>1 DEF QuietInSync, Quiet
  <2>2. CASE dirty' = dirty /\ config' = config
    BY <2>2 DEF RestInv, Outside, QuietInSync, Quiet, InSync, AclInForce
  <2> QED
    BY <2>1, <2>2 DEF Outside
<1> QED
  BY <1>1, <1>2, <1>3, <1>4, <1>5, <1>6 DEF RestInv

\* The certificates of a pass and their default stay as they are while it runs.
LEMMA HeadStep ==
  ASSUME Shapes, Moves, CasTyped, CertsHead, Certified
  PROVE  CertsHead'
<1>1. CASE pass.pc # "idle" /\ pass'.cfg = pass.cfg /\ pass'.certs = pass.certs
  BY <1>1 DEF CertsHead
<1>2. ASSUME NEW l \in Listener, NEW x, Worked(l, x) PROVE CertsHead'
  BY <1>1, <1>2 DEF Worked, Working
<1>3. ASSUME NEW l \in Listener, Deleted(l) PROVE CertsHead'
  BY <1>1, <1>3 DEF Deleted, SamePass
<1>4. CASE pass' = pass
  BY <1>4 DEF CertsHead
<1>5. CASE pass'.pc = "idle"
  BY <1>5 DEF CertsHead
<1>6. CASE Listed \/ Turns \/ Post
  BY <1>1, <1>6 DEF Listed, Turns, Turned, Post, SamePass
<1>7. CASE Prepares
  <2>1. CASE pass.pc \in Preparing /\ SamePass
    BY <1>1, <2>1 DEF SamePass, Preparing
  <2>2. CASE /\ pass'.cfg = config /\ Buildable(config, CasList)
             /\ pass'.certs = [l \in Tls \cap DOMAIN config.ls |-> Certificates(config, l, CasList)]
    <3>1. config \in Config /\ CasList \in SUBSET Cert
      BY DEF Shapes, CasTyped, CasList
    <3>2. PICK c, list : c = config /\ list = CasList
      OBVIOUS
    <3>3. ASSUME NEW l \in Tls \cap DOMAIN c.ls
          PROVE  1 \in DOMAIN pass'.certs[l] /\ pass'.certs[l][1].isDefault
      <4>1. pass'.certs[l] = Certificates(c, l, list)
        BY <2>2, <3>2, <3>3
      <4>2. 1 \in DOMAIN Certificates(c, l, list) /\ Certificates(c, l, list)[1].isDefault
        BY <2>2, <3>1, <3>2, <3>3 DEF Certified
      <4> QED
        BY <4>1, <4>2
    <3> QED
      BY <2>2, <3>2, <3>3 DEF CertsHead
  <2> QED
    BY <1>7, <2>1, <2>2 DEF Prepares
<1> QED
  BY <1>2, <1>3, <1>4, <1>5, <1>6, <1>7 DEF Moves, Made, Updated, Relisted, Ruled

\* On a load balancer that is reused no description comes up but the user's and
\* the controller's.
LEMMA DescStep ==
  ASSUME Shapes, Moves, DescFits, Recognized, Apart
  PROVE  DescFits'
<1> SUFFICES ASSUME \E c \in Config : c.commonReuse, NEW k \in Listener, listeners'[k] # None
             PROVE  listeners'[k].desc \in {"user", AutoDesc}
  BY DEF DescFits
<1>1. ASSUME NEW c \in Config, NEW l \in DOMAIN c.ls PROVE buildListenerSpec(c, l).desc = AutoDesc
  BY <1>1 DEF Recognized, buildListenerSpec, AutoDesc
<1>2. ASSUME NEW l \in Listener, listeners[l] # None PROVE listeners[l].desc \in {"user", AutoDesc}
  BY <1>2 DEF DescFits
<1>3. ASSUME NEW l \in Listener, NEW x, Worked(l, x),
             x = listeners[l] \/ (x.desc = listeners[l].desc /\ listeners[l] # None) \/ Described(l, x)
      PROVE  listeners'[k].desc \in {"user", AutoDesc}
  <2>1. listeners'[l] = x /\ \A j \in Listener \ {l} : listeners'[j] = listeners[j]
    BY <1>3, WorkedOthers
  <2>2. pass.cfg \in Config /\ l \in DOMAIN pass.cfg.ls
    BY <1>3, WorkedTarget
  <2>3. Described(l, x) => x.desc = AutoDesc
    BY <1>1, <2>2 DEF Described, cfg
  <2>4. CASE k = l
    BY <1>2, <1>3, <2>1, <2>3, <2>4
  <2>5. CASE k # l
    BY <1>2, <2>1, <2>5
  <2> QED
    BY <2>4, <2>5
<1>4. ASSUME NEW l \in Listener, NEW x, Made(l, x) PROVE listeners'[k].desc \in {"user", AutoDesc}
  BY <1>3, <1>4 DEF Made, NewListener, Described
<1>5. ASSUME NEW l \in Listener, NEW x, Updated(l, x) \/ Relisted(l, x) \/ Ruled(l, x)
      PROVE  listeners'[k].desc \in {"user", AutoDesc}
  <2>1. Worked(l, x) /\ ListenerRecord(listeners[l]) /\ (x.desc = listeners[l].desc \/ Described(l, x))
    BY <1>5 DEF Updated, Relisted, Ruled, RulesDone, SameUse
  <2> QED
    BY <1>3, <2>1 DEF Apart
<1>6. ASSUME NEW l \in Listener, Deleted(l) PROVE listeners'[k].desc \in {"user", AutoDesc}
  <2>1. /\ \A j \in Listener \ {l} : listeners'[j] = listeners[j]
        /\ listeners'[l] = None \/ listeners'[l] = listeners[l]
    BY <1>6 DEF Deleted, Shapes
  <2> QED
    BY <1>2, <2>1
<1>7. CASE listeners' = listeners
  BY <1>2, <1>7
<1> QED
  BY <1>4, <1>5, <1>6, <1>7 DEF Moves

-----------------------------------------------------------------------------
(* Server groups                                                           *)

\* What an AlbConfig wants are server groups.
LEMMA WantedKnown ==
  ASSUME NEW c \in Config
  PROVE  WantedGroups(c) \subseteq Group
BY ListenersAssumption DEF WantedGroups, Group

\* A step of the applier of server groups that goes on
Preparation ==
  /\ pass.pc \in Preparing /\ pass'.pc \in Preparing /\ SamePass
  /\ listeners' = listeners /\ acls' = acls /\ config' = config /\ dirty' = dirty

\* Certificates of Secrets are created.
LEMMA SecretsKeep ==
  ASSUME Shapes, RestInv, NEW x \in Secrets, NEW ok \in BOOLEAN, CreateSSLCertificateWithName(x, ok)
  PROVE  Preparation /\ GroupsShape' /\ GroupJobs'
<1>1. /\ pass.pc = "secrets" /\ groups' = groups /\ listeners' = listeners /\ acls' = acls
      /\ config' = config /\ dirty' = dirty
      /\ pass' = [pass EXCEPT !.todo = Fin(x, "create"), !.err = @ \/ ~ok]
  BY DEF CreateSSLCertificateWithName, At
<1>2. pass'.pc = "secrets" /\ SamePass
  BY <1>1 DEF Shapes, PassRecord, SamePass
<1>3. GroupsShape' /\ GroupJobs'
  BY <1>1, <1>2 DEF RestInv, GroupsShape, GroupJobs, Running, Working
<1> QED
  BY <1>1, <1>2, <1>3 DEF Preparation, Preparing

\* The server groups are listed.
LEMMA GroupsListed ==
  ASSUME Shapes, RestInv, NEW ok \in BOOLEAN, ListServerGroups(ok)
  PROVE  Stops \/ (Preparation /\ GroupsShape' /\ GroupJobs')
<1>1. /\ pass.pc = "secrets" /\ groups' = groups /\ listeners' = listeners /\ acls' = acls
      /\ config' = config
  BY DEF ListServerGroups, Through, cloud
<1>2. CASE Fail
  BY <1>1, <1>2 DEF Fail, Stops
<1>3. CASE ~Fail
  <2> DEFINE wanted == WantedGroups(pass.cfg)
             new == {g \in wanted : groups[g] = None}
             old == {g \in wanted : groups[g] # None}
             rest == {g \in Group : groups[g] # None} \ wanted
  <2>1. /\ dirty' = dirty
        /\ pass' = [[pass EXCEPT !.pc = "groups", !.todo = new \X {"create"}, !.err = FALSE]
                      EXCEPT !.upd = old, !.gone = rest]
    BY <1>3 DEF ListServerGroups, Phase, cfg
  <2>2. PassRecord(pass)
    BY DEF Shapes
  <2> HIDE DEF new, old, rest
  <2>3. /\ pass'.pc = "groups" /\ SamePass /\ pass'.todo = new \X {"create"} /\ pass'.upd = old
        /\ pass'.gone = rest /\ pass'.cfg = pass.cfg
    BY <2>1, <2>2 DEF PassRecord, SamePass
  <2>4. GroupsShape'
    BY <1>1 DEF RestInv, GroupsShape
  <2>5. ASSUME NEW x \in pass'.todo PROVE x[1] \in new /\ x = <<x[1], "create">>
    BY <2>3
  <2>6. GroupJobs'
    <3>1. \A g \in Group \ wanted : groups[g] # None => g \in rest
      BY DEF rest
    <3>2. old \subseteq wanted /\ \A g \in wanted : /\ g \in old <=> groups[g] # None
                                                    /\ groups[g] = None => g \in new
      BY DEF old, new
    <3>3. \A g \in wanted : groups[g] # None \/ <<g, "create">> \in pass'.todo
      BY <2>3, <3>2
    <3>4. \A x \in pass'.todo : /\ x[1] \in wanted \ old
                                /\ x[2] \notin {"servers", "rollback"}
                                /\ \A y \in pass'.todo : y[1] = x[1] => y = x
      BY <2>5, <3>2 DEF new, old
    <3> HIDE DEF wanted
    <3>5. pass'.pc \notin {"regroup"} \cup Running
      BY <2>3 DEF Running, Working
    <3>6. WantedGroups(pass'.cfg) = wanted
      BY <2>3 DEF wanted
    <3> QED
      BY <1>1, <2>3, <3>1, <3>2, <3>3, <3>4, <3>5, <3>6 DEF GroupJobs
  <2> QED
    BY <1>1, <2>1, <2>3, <2>4, <2>6 DEF Preparation, Preparing
<1> QED
  BY <1>2, <1>3

\* What a step on one server group has to keep
LEMMA GroupWorked ==
  ASSUME RestInv, Shapes, pass.pc = "groups", NEW g, NEW s, <<g, s>> \in pass.todo, NEW x,
         groups' = [groups EXCEPT ![g] = x],
         x = None \/ (GroupRecord(x) /\ x.attr = pass.cfg.sgp),
         pass'.pc = "groups", pass'.cfg = pass.cfg, pass'.gone = pass.gone, pass'.upd = pass.upd,
         \/ pass'.todo = Fin(g, s)
         \/ x # None /\ \E t : pass'.todo = Step(g, s, t),
         pass'.err \in BOOLEAN, pass.err => pass'.err, x = None => pass'.err
  PROVE  GroupsShape' /\ GroupJobs'
<1> DEFINE wanted == WantedGroups(pass.cfg)
<1>1. GroupJobs /\ GroupsShape
  BY DEF RestInv
<1>2. <<g, s>>[1] \in wanted \ pass.upd /\ \A y \in pass.todo : y[1] = <<g, s>>[1] => y = <<g, s>>
  BY <1>1 DEF GroupJobs
<1>3. g \in wanted \ pass.upd /\ g \in Group /\ \A y \in pass.todo : y[1] = g => y = <<g, s>>
  <2>1. wanted \subseteq Group
    BY WantedKnown DEF Shapes
  <2> QED
    BY <1>2, <2>1
<1>4. groups'[g] = x /\ \A h \in Group \ {g} : groups'[h] = groups[h]
  BY <1>1, <1>3 DEF GroupsShape
<1>5. GroupsShape'
  <2>1. groups' = [h \in Group |-> groups'[h]]
    BY <1>1 DEF GroupsShape
  <2>2. ASSUME NEW h \in Group PROVE groups'[h] = None \/ GroupRecord(groups'[h])
    BY <1>1, <1>4 DEF GroupsShape
  <2> QED
    BY <2>1, <2>2 DEF GroupsShape
<1>6. ASSUME NEW y \in pass'.todo
      PROVE  \/ y \in pass.todo /\ y[1] # g
             \/ x # None /\ y[1] = g /\ \E t : pass'.todo = Step(g, s, t) /\ y = <<g, t>>
  BY <1>3 DEF Fin, Step
<1>7. ASSUME NEW h, h # g, <<h, "create">> \in pass.todo PROVE <<h, "create">> \in pass'.todo
  BY <1>7 DEF Fin, Step
<1>8. wanted \subseteq Group
  BY WantedKnown DEF Shapes
<1> HIDE DEF wanted
<1>9. /\ \A h \in Group \ wanted : groups[h] # None => h \in pass.gone
      /\ pass.upd \subseteq wanted
      /\ \A h \in wanted : /\ h \in pass.upd => groups[h] # None
                           /\ \/ groups[h] # None \/ <<h, "create">> \in pass.todo \/ pass.err
                           /\ h \notin pass.upd /\ groups[h] # None => groups[h].attr = pass.cfg.sgp
      /\ \A y \in pass.todo : /\ y[1] \in wanted \ pass.upd
                              /\ y[2] \in {"servers", "rollback"} => groups[y[1]] # None
                              /\ \A z \in pass.todo : z[1] = y[1] => z = y
  BY <1>1 DEF GroupJobs, wanted
<1>10. \A h \in Group \ wanted : groups'[h] # None => h \in pass.gone
  BY <1>3, <1>4, <1>9
<1>11. ASSUME NEW h \in wanted
       PROVE  /\ h \in pass.upd => groups'[h] # None
              /\ \/ groups'[h] # None \/ <<h, "create">> \in pass'.todo \/ pass'.err
              /\ h \notin pass.upd /\ groups'[h] # None => groups'[h].attr = pass.cfg.sgp
  <2>1. CASE h = g
    BY <1>3, <1>4, <2>1 DEF GroupRecord
  <2>2. CASE h # g
    BY <1>4, <1>7, <1>8, <1>9, <2>2
  <2> QED
    BY <2>1, <2>2
<1>12. ASSUME NEW y \in pass'.todo
       PROVE  /\ y[1] \in wanted \ pass.upd
              /\ y[2] \in {"servers", "rollback"} => groups'[y[1]] # None
              /\ \A z \in pass'.todo : z[1] = y[1] => z = y
  <2>1. CASE y[1] = g
    <3>1. PICK t : pass'.todo = Step(g, s, t) /\ y = <<g, t>> /\ x # None
      BY <1>6, <2>1
    <3>2. ASSUME NEW z \in pass'.todo, z[1] = g PROVE z = <<g, t>>
      BY <1>3, <3>1, <3>2 DEF Step
    <3> QED
      BY <1>3, <1>4, <2>1, <3>1, <3>2
  <2>2. CASE y[1] # g
    <3>1. y \in pass.todo
      BY <1>6, <2>2
    <3>2. ASSUME NEW z \in pass'.todo, z[1] = y[1] PROVE z \in pass.todo
      BY <1>6, <2>2, <3>2
    <3> QED
      BY <1>4, <1>8, <1>9, <2>2, <3>1, <3>2
  <2> QED
    BY <2>1, <2>2
<1>13. pass'.pc \notin {"regroup"} \cup Running
  BY DEF Running, Working
<1>14. WantedGroups(pass'.cfg) = wanted
  BY DEF wanted
<1> QED
  BY <1>5, <1>9, <1>10, <1>11, <1>12, <1>13, <1>14 DEF GroupJobs

\* Server groups that are missing are created, given servers or rolled back.
LEMMA GroupsMade ==
  ASSUME Shapes, RestInv, Apart, NEW g \in Group, NEW ok \in BOOLEAN,
         CreateALBServerGroup(g, ok) \/ addServerToServerGroup(g, ok) \/ RollBackServerGroup(g, ok)
  PROVE  Preparation /\ GroupsShape' /\ GroupJobs'
<1> DEFINE Goal == Preparation /\ GroupsShape' /\ GroupJobs'
           Frame == /\ pass'.pc = "groups" /\ SamePass /\ pass'.gone = pass.gone
                    /\ pass'.upd = pass.upd /\ pass'.cfg = pass.cfg
<1>1. /\ pass.pc = "groups" /\ listeners' = listeners /\ acls' = acls /\ config' = config /\ dirty' = dirty
  BY DEF CreateALBServerGroup, addServerToServerGroup, RollBackServerGroup, At
<1>2. PassRecord(pass) /\ GroupsShape /\ GroupJobs
  BY DEF Shapes, RestInv
<1>3. ASSUME NEW s, <<g, s>> \in pass.todo, NEW x, groups' = [groups EXCEPT ![g] = x],
             x = None \/ (GroupRecord(x) /\ x.attr = pass.cfg.sgp), Frame,
             pass'.todo = Fin(g, s) \/ (x # None /\ \E t : pass'.todo = Step(g, s, t)),
             pass'.err \in BOOLEAN, pass.err => pass'.err, x = None => pass'.err
      PROVE  Goal
  <2>1. GroupsShape' /\ GroupJobs'
    BY <1>1, <1>3, GroupWorked
  <2> QED
    BY <1>1, <1>3, <2>1 DEF Preparation, Preparing
<1>4. ASSUME NEW todo, \/ pass' = [pass EXCEPT !.todo = todo]
                       \/ pass' = [pass EXCEPT !.todo = todo, !.err = TRUE]
      PROVE  /\ Frame /\ pass'.todo = todo
             /\ pass' = [pass EXCEPT !.todo = todo] => pass'.err = pass.err
             /\ pass' = [pass EXCEPT !.todo = todo, !.err = TRUE] => pass'.err = TRUE
  BY <1>1, <1>2, <1>4 DEF PassRecord, SamePass
<1> SUFFICES Goal
  OBVIOUS
<1> HIDE DEF Goal, Frame
<1>5. groups = [groups EXCEPT ![g] = groups[g]] /\ pass.err \in BOOLEAN
  BY <1>2 DEF GroupsShape, PassRecord
<1>6. ASSUME NEW s, <<g, s>> \in pass.todo, groups[g] # None
      PROVE  GroupRecord(groups[g]) /\ groups[g].attr = pass.cfg.sgp
  <2>1. <<g, s>>[1] \in WantedGroups(pass.cfg) \ pass.upd
    BY <1>1, <1>2, <1>6 DEF GroupJobs
  <2> QED
    BY <1>1, <1>2, <1>6, <2>1 DEF GroupJobs, GroupsShape
<1>7. ASSUME NEW s \in {"servers", "rollback"}, <<g, s>> \in pass.todo PROVE groups[g] # None
  <2>1. <<g, s>>[2] \in {"servers", "rollback"} => groups[<<g, s>>[1]] # None
    BY <1>1, <1>2, <1>7 DEF GroupJobs
  <2> QED
    BY <2>1
<1>8. CASE CreateALBServerGroup(g, ok)
  <2>1. <<g, "create">> \in pass.todo
    BY <1>8 DEF CreateALBServerGroup, At
  <2>2. CASE ok /\ checkConfigValid
    <3>1. PICK x : x = [attr |-> pass.cfg.sgp, servers |-> FALSE]
      OBVIOUS
    <3>2. GroupRecord(x) /\ x.attr = pass.cfg.sgp
      BY <3>1 DEF GroupRecord, Apart
    <3>3. PICK todo : todo = IF g \in Service THEN Step(g, "create", "servers") ELSE Fin(g, "create")
      OBVIOUS
    <3>4. groups' = [groups EXCEPT ![g] = x] /\ pass' = [pass EXCEPT !.todo = todo]
      BY <1>8, <2>2, <3>1, <3>3 DEF CreateALBServerGroup, cfg
    <3>5. Frame /\ pass'.todo = todo /\ pass'.err = pass.err
      BY <1>4, <1>5, <3>4
    <3>6. x # None
      BY <3>2 DEF GroupRecord
    <3>7. todo = Fin(g, "create") \/ \E t : todo = Step(g, "create", t)
      BY <3>3
    <3> QED
      BY <1>3, <1>5, <2>1, <3>2, <3>4, <3>5, <3>6, <3>7
  <2>3. CASE ~(ok /\ checkConfigValid)
    <3>1. groups' = groups /\ pass' = [pass EXCEPT !.todo = Fin(g, "create"), !.err = TRUE]
      BY <1>8, <2>3 DEF CreateALBServerGroup
    <3>2. PICK x, todo : x = groups[g] /\ todo = Fin(g, "create")
      OBVIOUS
    <3>3. x = None \/ (GroupRecord(x) /\ x.attr = pass.cfg.sgp)
      BY <1>6, <2>1, <3>2
    <3>4. Frame /\ pass'.todo = Fin(g, "create") /\ pass'.err = TRUE
      BY <1>4, <3>1, <3>2
    <3> QED
      BY <1>3, <1>5, <2>1, <3>1, <3>2, <3>3, <3>4
  <2> QED
    BY <2>2, <2>3
<1>9. CASE addServerToServerGroup(g, ok)
  <2>1. <<g, "servers">> \in pass.todo
    BY <1>9 DEF addServerToServerGroup, At
  <2>2. GroupRecord(groups[g]) /\ groups[g].attr = pass.cfg.sgp
    BY <1>6, <1>7, <2>1
  <2>3. PICK b : b = (ok /\ g \in config.live)
    OBVIOUS
  <2>4. PICK x : x = [groups[g] EXCEPT !.servers = b]
    OBVIOUS
  <2>5. GroupRecord(x) /\ x.attr = pass.cfg.sgp /\ x # None
    <3>1. GroupRecord(x) /\ x.attr = groups[g].attr
      BY <2>2, <2>4, GroupExcept
    <3> QED
      BY <2>2, <3>1 DEF GroupRecord
  <2>6. PICK todo : todo = IF ok \/ pass.err THEN Fin(g, "servers") ELSE Step(g, "servers", "rollback")
    OBVIOUS
  <2>7. groups' = [groups EXCEPT ![g] = x]
    <3>1. groups' = [groups EXCEPT ![g].servers = b]
      BY <1>9, <2>3 DEF addServerToServerGroup
    <3> QED
      BY <2>4, <3>1
  <2>8. Frame /\ pass'.todo = todo /\ pass'.err = pass.err
    <3>1. pass' = [pass EXCEPT !.todo = todo]
      BY <1>9, <2>6 DEF addServerToServerGroup
    <3> QED
      BY <1>4, <1>5, <3>1
  <2>9. todo = Fin(g, "servers") \/ \E t : todo = Step(g, "servers", t)
    BY <2>6
  <2> QED
    BY <1>3, <1>5, <2>1, <2>5, <2>7, <2>8, <2>9
<1>10. CASE RollBackServerGroup(g, ok)
  <2>1. <<g, "rollback">> \in pass.todo
    BY <1>10 DEF RollBackServerGroup, At
  <2>2. GroupRecord(groups[g]) /\ groups[g].attr = pass.cfg.sgp
    BY <1>6, <1>7, <2>1
  <2>3. /\ groups' = [groups EXCEPT ![g] = None] \/ groups' = groups
        /\ pass' = [pass EXCEPT !.todo = Fin(g, "rollback"), !.err = TRUE]
    BY <1>10 DEF RollBackServerGroup
  <2>4. PICK x, todo : /\ groups' = [groups EXCEPT ![g] = x] /\ x \in {None, groups[g]}
                       /\ todo = Fin(g, "rollback")
    BY <1>5, <2>3
  <2>5. Frame /\ pass'.todo = Fin(g, "rollback") /\ pass'.err = TRUE
    BY <1>4, <2>3, <2>4
  <2> QED
    BY <1>3, <1>5, <2>1, <2>2, <2>4, <2>5
<1> QED
  BY <1>8, <1>9, <1>10

\* All server groups have been created.
LEMMA GroupsReady ==
  ASSUME Shapes, RestInv, GroupsCreated
  PROVE  Stops \/ (Preparation /\ GroupsShape' /\ GroupJobs')
<1>1. /\ pass.pc = "groups" /\ pass.todo = {} /\ groups' = groups /\ listeners' = listeners
      /\ acls' = acls /\ config' = config
  BY DEF GroupsCreated, Through, cloud
<1>2. CASE Fail
  BY <1>1, <1>2 DEF Fail, Stops
<1>3. CASE ~Fail
  <2>1. ~pass.err /\ pass' = Phase("regroup", pass.upd, "update") /\ dirty' = dirty
    BY <1>3 DEF GroupsCreated
  <2>2. /\ pass'.pc = "regroup" /\ SamePass /\ pass'.todo = pass.upd \X {"update"}
        /\ pass'.gone = pass.gone /\ pass'.cfg = pass.cfg
    BY <2>1 DEF Phase, Shapes, PassRecord, SamePass
  <2>3. GroupsShape'
    BY <1>1 DEF RestInv, GroupsShape
  <2>4. GroupJobs
    BY DEF RestInv
  <2>5. \A h \in Group \ WantedGroups(pass.cfg) : groups[h] # None => h \in pass.gone
    BY <1>1, <2>4 DEF GroupJobs
  <2>6. pass.upd \subseteq WantedGroups(pass.cfg)
    BY <1>1, <2>4 DEF GroupJobs
  <2>7. ASSUME NEW h \in WantedGroups(pass.cfg)
        PROVE  /\ groups[h] # None
               /\ groups[h].attr = pass.cfg.sgp \/ <<h, "update">> \in pass'.todo
    BY <1>1, <2>1, <2>2, <2>4 DEF GroupJobs
  <2>8. \A y \in pass'.todo : y[1] \in WantedGroups(pass.cfg)
    BY <2>2, <2>6
  <2>9. pass'.pc \notin {"groups"} \cup Running
    BY <2>2 DEF Running, Working
  <2>10. GroupJobs'
    BY <1>1, <2>2, <2>5, <2>7, <2>8, <2>9 DEF GroupJobs
  <2> QED
    BY <1>1, <2>1, <2>2, <2>3, <2>10 DEF Preparation, Preparing
<1> QED
  BY <1>2, <1>3

\* What a step on a server group that exists has to keep
LEMMA GroupReworked ==
  ASSUME RestInv, Shapes, pass.pc = "regroup", NEW g, NEW s, <<g, s>> \in pass.todo, NEW x,
         groups' = [groups EXCEPT ![g] = x], GroupRecord(x),
         x.attr = pass.cfg.sgp \/ pass'.err \/ (s # "update" /\ x.attr = groups[g].attr),
         pass'.pc = "regroup", pass'.cfg = pass.cfg, pass'.gone = pass.gone,
         pass'.todo = Fin(g, s) \/ \E t : pass'.todo = Step(g, s, t),
         pass.err => pass'.err
  PROVE  GroupsShape' /\ GroupJobs'
<1> DEFINE wanted == WantedGroups(pass.cfg)
<1>1. GroupJobs /\ GroupsShape /\ wanted \subseteq Group
  BY WantedKnown DEF RestInv, Shapes
<1>2. <<g, s>>[1] \in wanted
  BY <1>1 DEF GroupJobs
<1>3. g \in wanted /\ g \in Group
  BY <1>1, <1>2
<1>4. groups'[g] = x /\ \A h \in Group \ {g} : groups'[h] = groups[h]
  BY <1>1, <1>3 DEF GroupsShape
<1>5. GroupsShape'
  <2>1. groups' = [h \in Group |-> groups'[h]]
    BY <1>1 DEF GroupsShape
  <2>2. ASSUME NEW h \in Group PROVE groups'[h] = None \/ GroupRecord(groups'[h])
    BY <1>1, <1>4 DEF GroupsShape
  <2> QED
    BY <2>1, <2>2 DEF GroupsShape
<1> HIDE DEF wanted
<1>6. /\ \A h \in Group \ wanted : groups[h] # None => h \in pass.gone
      /\ \A h \in wanted : /\ groups[h] # None
                           /\ groups[h].attr = pass.cfg.sgp \/ <<h, "update">> \in pass.todo \/ pass.err
      /\ \A y \in pass.todo : y[1] \in wanted
  BY <1>1 DEF GroupJobs, wanted
<1>7. \A y \in pass'.todo : y \in pass.todo \/ y[1] = g
  BY DEF Fin, Step
<1>8. \A h, r : <<h, r>> \in pass.todo /\ <<h, r>> # <<g, s>> => <<h, r>> \in pass'.todo
  BY DEF Fin, Step
<1>9. ASSUME NEW h \in wanted
      PROVE  /\ groups'[h] # None
             /\ groups'[h].attr = pass.cfg.sgp \/ <<h, "update">> \in pass'.todo \/ pass'.err
  <2>1. CASE h = g
    <3>1. groups'[h] = x /\ x # None
      BY <1>4, <2>1 DEF GroupRecord
    <3>2. CASE s # "update" /\ x.attr = groups[g].attr
      BY <1>6, <1>8, <2>1, <3>1, <3>2
    <3> QED
      BY <3>1, <3>2
  <2>2. CASE h # g
    BY <1>1, <1>4, <1>6, <1>8, <2>2
  <2> QED
    BY <2>1, <2>2
<1>10. \A h \in Group \ wanted : groups'[h] # None => h \in pass.gone
  BY <1>3, <1>4, <1>6
<1>11. \A y \in pass'.todo : y[1] \in wanted
  BY <1>3, <1>6, <1>7
<1>12. pass'.pc \notin {"groups"} \cup Running
  BY DEF Running, Working
<1>13. WantedGroups(pass'.cfg) = wanted
  BY DEF wanted
<1> QED
  BY <1>5, <1>9, <1>10, <1>11, <1>12, <1>13 DEF GroupJobs

\* Server groups that exist get their attributes, and lose the servers of a
\* Service that is gone.
LEMMA GroupsUpdated ==
  ASSUME Shapes, RestInv, Apart, NEW g \in Group, NEW ok \in BOOLEAN,
         UpdateALBServerGroup(g, ok) \/ removeServerFromServerGroup(g, ok)
  PROVE  Preparation /\ GroupsShape' /\ GroupJobs'
<1> DEFINE Goal == Preparation /\ GroupsShape' /\ GroupJobs'
           Frame == /\ pass'.pc = "regroup" /\ SamePass /\ pass'.gone = pass.gone /\ pass'.cfg = pass.cfg
<1>1. /\ pass.pc = "regroup" /\ listeners' = listeners /\ acls' = acls /\ config' = config /\ dirty' = dirty
  BY DEF UpdateALBServerGroup, removeServerFromServerGroup, At
<1>2. PassRecord(pass) /\ GroupsShape /\ GroupJobs /\ pass.err \in BOOLEAN
  BY DEF Shapes, RestInv, PassRecord
<1>3. ASSUME NEW s, <<g, s>> \in pass.todo, NEW x, groups' = [groups EXCEPT ![g] = x], GroupRecord(x),
             x.attr = pass.cfg.sgp \/ pass'.err \/ (s # "update" /\ x.attr = groups[g].attr), Frame,
             pass'.todo = Fin(g, s) \/ \E t : pass'.todo = Step(g, s, t), pass.err => pass'.err
      PROVE  Goal
  <2>1. GroupsShape' /\ GroupJobs'
    BY <1>1, <1>3, GroupReworked
  <2> QED
    BY <1>1, <1>3, <2>1 DEF Preparation, Preparing
<1>4. ASSUME NEW todo, NEW b \in BOOLEAN, pass' = [pass EXCEPT !.err = b, !.todo = todo]
      PROVE  Frame /\ pass'.todo = todo /\ pass'.err = b
  BY <1>1, <1>2, <1>4 DEF PassRecord, SamePass
<1>5. ASSUME NEW todo, pass' = [pass EXCEPT !.todo = todo]
      PROVE  Frame /\ pass'.todo = todo /\ pass'.err = pass.err
  BY <1>1, <1>2, <1>5 DEF PassRecord, SamePass
<1> SUFFICES Goal
  OBVIOUS
<1> HIDE DEF Goal, Frame
<1>6. groups = [groups EXCEPT ![g] = groups[g]]
  BY <1>2 DEF GroupsShape
<1>7. ASSUME NEW s, <<g, s>> \in pass.todo PROVE GroupRecord(groups[g])
  <2>1. <<g, s>>[1] \in WantedGroups(pass.cfg)
    BY <1>1, <1>2, <1>7 DEF GroupJobs
  <2> QED
    BY <1>1, <1>2, <2>1 DEF GroupJobs, GroupsShape
<1>8. CASE UpdateALBServerGroup(g, ok)
  <2>1. <<g, "update">> \in pass.todo
    BY <1>8 DEF UpdateALBServerGroup, At
  <2>2. PICK done \in BOOLEAN : done = (ok /\ checkConfigValid)
    OBVIOUS
  <2>3. PICK todo : todo = IF done /\ g \in Service \ config.live /\ groups[g].servers
                             THEN Step(g, "update", "remove") ELSE Fin(g, "update")
    OBVIOUS
  <2>4. PICK b \in BOOLEAN : b = (pass.err \/ ~done)
    OBVIOUS
  <2>5. pass' = [pass EXCEPT !.err = b, !.todo = todo]
    BY <1>8, <2>2, <2>3, <2>4 DEF UpdateALBServerGroup
  <2>6. Frame /\ pass'.todo = todo /\ pass'.err = b
    BY <1>4, <2>5
  <2>7. todo = Fin(g, "update") \/ \E t : todo = Step(g, "update", t)
    BY <2>3
  <2>8. PICK sgp : sgp = pass.cfg.sgp
    OBVIOUS
  <2>9. PICK x : x = IF done THEN [groups[g] EXCEPT !.attr = sgp] ELSE groups[g]
    OBVIOUS
  <2>10. GroupRecord(x) /\ (x.attr = pass.cfg.sgp \/ b)
    <3>1. CASE done
      <4>1. GroupRecord(groups[g])
        BY <1>7, <2>1
      <4>2. GroupRecord([groups[g] EXCEPT !.attr = sgp]) /\ [groups[g] EXCEPT !.attr = sgp].attr = sgp
        BY <4>1, GroupExcept
      <4> QED
        BY <2>8, <2>9, <3>1, <4>2
    <3>2. CASE ~done
      BY <1>7, <2>1, <2>4, <2>9, <3>2
    <3> QED
      BY <3>1, <3>2
  <2>11. groups' = [groups EXCEPT ![g] = x]
    <3>1. CASE done
      <4>1. groups' = [groups EXCEPT ![g].attr = sgp]
        BY <1>8, <2>2, <2>8, <3>1 DEF UpdateALBServerGroup, cfg
      <4> QED
        BY <2>9, <3>1, <4>1
    <3>2. CASE ~done
      <4>1. groups' = groups
        BY <1>8, <2>2, <3>2 DEF UpdateALBServerGroup
      <4> QED
        BY <1>6, <2>9, <3>2, <4>1
    <3> QED
      BY <3>1, <3>2
  <2>12. pass.err => pass'.err
    BY <2>4, <2>6
  <2> QED
    BY <1>3, <2>1, <2>6, <2>7, <2>10, <2>11, <2>12
<1>9. CASE removeServerFromServerGroup(g, ok)
  <2>1. <<g, "remove">> \in pass.todo
    BY <1>9 DEF removeServerFromServerGroup, At
  <2>2. PICK todo : todo = Fin(g, "remove")
    OBVIOUS
  <2>3. Frame /\ pass'.todo = Fin(g, "remove") /\ pass'.err = pass.err
    <3>1. pass' = [pass EXCEPT !.todo = todo]
      BY <1>9, <2>2 DEF removeServerFromServerGroup
    <3> QED
      BY <1>5, <2>2, <3>1
  <2>4. PICK x : x = IF ok THEN [groups[g] EXCEPT !.servers = FALSE] ELSE groups[g]
    OBVIOUS
  <2>5. GroupRecord(x) /\ x.attr = groups[g].attr
    <3>1. GroupRecord(groups[g])
      BY <1>7, <2>1
    <3>2. GroupRecord([groups[g] EXCEPT !.servers = FALSE]) /\ [groups[g] EXCEPT !.servers = FALSE].attr = groups[g].attr
      BY <3>1, GroupExcept
    <3> QED
      BY <2>4, <3>1, <3>2
  <2>6. groups' = [groups EXCEPT ![g] = x]
    BY <1>6, <1>9, <2>4 DEF removeServerFromServerGroup
  <2> QED
    BY <1>3, <2>1, <2>3, <2>5, <2>6
<1> QED
  BY <1>8, <1>9

-----------------------------------------------------------------------------
(* Attributes and certificates of listeners                                *)

\* The first certificate is the default, the others are the additional ones.
LEMMA CertsSplit ==
  ASSUME CertsFit, CertsHead, pass.pc # "idle", NEW l \in Tls \cap DOMAIN pass.cfg.ls
  PROVE  /\ defaultCerts(l) = {1}
         /\ {defaultCert(l)} \cup extraCerts(l) = {y.id : y \in ToSet(pass.certs[l])}
<1>1. /\ 1 \in DOMAIN pass.certs[l] /\ pass.certs[l][1].isDefault
      /\ \A i \in DOMAIN pass.certs[l] : pass.certs[l][i].isDefault => i = 1
  BY DEF CertsFit, CertsHead
<1>2. defaultCerts(l) = {1}
  BY <1>1 DEF defaultCerts
<1>3. defaultCert(l) = pass.certs[l][1].id
  <2>1. (CHOOSE i \in {1} : \A j \in {1} : i <= j) = 1
    OBVIOUS
  <2> QED
    BY <1>2, <2>1 DEF defaultCert
<1>4. PICK q : q = pass.certs[l]
  OBVIOUS
<1>5. extraCerts(l) = {x.id : x \in {y \in {q[i] : i \in DOMAIN q} : ~y.isDefault}}
  BY <1>4 DEF extraCerts, ToSet
<1>6. {q[1].id} \cup {x.id : x \in {y \in {q[i] : i \in DOMAIN q} : ~y.isDefault}}
        = {y.id : y \in {q[i] : i \in DOMAIN q}}
  BY <1>1, <1>4
<1> QED
  BY <1>2, <1>3, <1>4, <1>5, <1>6 DEF ToSet

\* Where nothing of the listener or the pass has changed, the goroutine is
\* as far as it was.
LEMMA CertStateKept ==
  ASSUME NEW k, NEW s, pass'.pc = pass.pc, pass'.cfg = pass.cfg, pass'.certs = pass.certs,
         listeners'[k].attr = listeners[k].attr, listeners'[k].default = listeners[k].default,
         listeners'[k].extras = listeners[k].extras
  PROVE  /\ CertState(k, s) => CertState(k, s)'
         /\ DoneFits(k, listeners[k]) => DoneFits(k, listeners[k])'
<1>1. defaultCerts(k)' = defaultCerts(k) /\ extraCerts(k)' = extraCerts(k)
  BY DEF defaultCerts, extraCerts
<1>2. defaultCert(k)' = defaultCert(k)
  BY <1>1 DEF defaultCert
<1>3. desiredExtraCertIDs(k)' = desiredExtraCertIDs(k)
  BY <1>1, <1>2 DEF desiredExtraCertIDs, keepsDefault
<1>4. CertState(k, s) => CertState(k, s)'
  BY <1>2, <1>3 DEF CertState
<1> QED
  BY <1>4 DEF DoneFits, CertsOn

\* What a call of a goroutine has to keep
LEMMA CertJobsWorked ==
  ASSUME Shapes, CertJobs, NEW l \in Listener, NEW s \in Later \cup {"create"}, <<l, s>> \in pass.todo,
         pass.pc \in {"create", "update"}, pass'.pc = pass.pc, pass'.cfg = pass.cfg,
         pass'.certs = pass.certs, pass'.upd = pass.upd,
         \A k \in Listener \ {l} : listeners'[k] = listeners[k],
         \/ pass'.todo = Fin(l, s) /\ pass'.ids = pass.ids
         \/ pass'.todo = Fin(l, s) /\ pass'.ids = pass.ids \cup {l} /\ DoneFits(l, listeners[l])'
         \/ \E t \in Later : pass'.todo = Step(l, s, t) /\ pass'.ids = pass.ids /\ CertState(l, t)'
  PROVE  CertJobs'
<1>1. l \notin pass.ids /\ \A t \in Later \cup {"create"} : <<l, t>> \in pass.todo => t = s
  BY DEF CertJobs, CertJob
<1>2. \A k, r : k # l => (<<k, r>> \in pass'.todo <=> <<k, r>> \in pass.todo)
  BY DEF Fin, Step
<1>3. \A k : k # l => (k \in pass'.ids <=> k \in pass.ids)
  OBVIOUS
<1>4. ASSUME NEW k \in Listener, NEW r \in Later \cup {"create"}, <<k, r>> \in pass'.todo
      PROVE  CertJob(k, r)'
  <2>1. CASE k # l
    <3>1. CertJob(k, r)
      BY <1>2, <1>4, <2>1 DEF CertJobs
    <3>2. CertState(k, r)'
      <4>1. listeners'[k] = listeners[k]
        BY <2>1
      <4> QED
        BY <3>1, <4>1, CertStateKept DEF CertJob
    <3> QED
      BY <1>2, <1>3, <2>1, <3>1, <3>2 DEF CertJob
  <2>2. CASE k = l
    <3>1. PICK t \in Later : pass'.todo = Step(l, s, t) /\ pass'.ids = pass.ids /\ CertState(l, t)'
      BY <1>1, <1>4, <2>2 DEF Fin
    <3>2. ASSUME NEW u \in Later \cup {"create"}, <<l, u>> \in pass'.todo PROVE u = t
      <4>1. <<l, u>> = <<l, t>> \/ (<<l, u>> \in pass.todo /\ <<l, u>> # <<l, s>>)
        BY <3>1, <3>2 DEF Step
      <4> QED
        BY <1>1, <4>1
    <3>3. r = t
      BY <1>4, <2>2, <3>2
    <3> QED
      BY <1>1, <2>2, <3>1, <3>2, <3>3 DEF CertJob
  <2> QED
    BY <2>1, <2>2
<1>5. pass'.pc = "create" => pass'.upd \cap pass'.ids = {} /\ \A x \in pass'.todo : x[1] \notin pass'.upd
  <2> SUFFICES ASSUME pass.pc = "create" PROVE pass'.upd \cap pass'.ids = {} /\ \A x \in pass'.todo : x[1] \notin pass'.upd
    OBVIOUS
  <2>1. <<l, s>>[1] \notin pass.upd /\ pass.upd \cap pass.ids = {} /\ \A x \in pass.todo : x[1] \notin pass.upd
    BY DEF CertJobs
  <2>2. l \notin pass.upd
    BY <2>1
  <2>3. \A x \in pass'.todo : x \in pass.todo \/ x[1] = l
    BY DEF Fin, Step
  <2> QED
    BY <1>3, <2>1, <2>2, <2>3
<1>6. ASSUME NEW k \in pass'.ids PROVE DoneFits(k, listeners[k])'
  <2>1. CASE k # l
    <3>1. k \in Listener /\ k \in pass.ids
      BY <1>3, <1>6, <2>1, ListenersAssumption DEF Shapes, Targets, Working
    <3>2. DoneFits(k, listeners[k]) /\ listeners'[k] = listeners[k]
      BY <2>1, <3>1 DEF CertJobs, Running, Working
    <3> QED
      BY <3>2, CertStateKept
  <2>2. CASE k = l
    BY <1>1, <1>6, <2>2
  <2> QED
    BY <2>1, <2>2
<1> QED
  BY <1>4, <1>5, <1>6 DEF CertJobs

\* What a step of another applier has to keep
LEMMA CertJobsKept ==
  ASSUME Shapes, CertJobs, pass.pc \in Running, pass'.pc \in Running \ {"create", "update"},
         pass'.cfg = pass.cfg, pass'.certs = pass.certs, pass'.ids = pass.ids,
         \A k \in pass.ids : /\ listeners'[k].attr = listeners[k].attr
                             /\ listeners'[k].default = listeners[k].default
                             /\ listeners'[k].extras = listeners[k].extras
  PROVE  CertJobs'
<1>1. ASSUME NEW k \in pass'.ids PROVE DoneFits(k, listeners[k])'
  <2>1. DoneFits(k, listeners[k])
    BY <1>1 DEF CertJobs
  <2> QED
    BY <1>1, <2>1 DEF DoneFits, CertsOn
<1>2. pass'.pc \notin {"create", "update"}
  OBVIOUS
<1> QED
  BY <1>1, <1>2 DEF CertJobs

\* A call fails, ends a goroutine, or is followed by another.
LEMMA CertsCall ==
  ASSUME Shapes, CertJobs, NEW l \in Listener, NEW s \in Later \cup {"create"}, <<l, s>> \in pass.todo,
         pass.pc \in {"create", "update"}, NEW x, listeners' = [listeners EXCEPT ![l] = x],
         \/ pass' = Note(l, s)
         \/ \E b : pass' = [Note(l, s) EXCEPT !.inUse = b]
         \/ pass' = Done(l, s) /\ DoneFits(l, x)
         \/ \E t \in Later : pass' = [pass EXCEPT !.todo = Step(l, s, t)] /\ CertState(l, t)'
  PROVE  CertJobs'
<1> DEFINE Frame == /\ pass'.pc = pass.pc /\ pass'.cfg = pass.cfg /\ pass'.certs = pass.certs
                    /\ pass'.upd = pass.upd
<1>1. PassRecord(pass) /\ listeners = [k \in Listener |-> listeners[k]]
  BY DEF Shapes
<1>2. listeners'[l] = x /\ \A k \in Listener \ {l} : listeners'[k] = listeners[k]
  BY <1>1
<1>3. CASE pass' = Note(l, s) \/ \E b : pass' = [Note(l, s) EXCEPT !.inUse = b]
  <2>1. Frame /\ pass'.todo = Fin(l, s) /\ pass'.ids = pass.ids
    BY <1>1, <1>3 DEF Note, PassRecord
  <2> QED
    BY <1>2, <2>1, CertJobsWorked
<1>4. CASE pass' = Done(l, s) /\ DoneFits(l, x)
  <2>1. Frame /\ pass'.todo = Fin(l, s) /\ pass'.ids = pass.ids \cup {l}
    BY <1>1, <1>4 DEF Done, PassRecord
  <2>2. DoneFits(l, listeners[l])'
    BY <1>2, <1>4, <2>1 DEF DoneFits, CertsOn
  <2> QED
    BY <1>2, <2>1, <2>2, CertJobsWorked
<1>5. ASSUME NEW t \in Later, pass' = [pass EXCEPT !.todo = Step(l, s, t)], CertState(l, t)'
      PROVE  CertJobs'
  <2>1. Frame /\ pass'.todo = Step(l, s, t) /\ pass'.ids = pass.ids
    BY <1>1, <1>5 DEF PassRecord
  <2> QED
    BY <1>2, <1>5, <2>1, CertJobsWorked
<1> QED
  BY <1>3, <1>4, <1>5

\* The goroutine of a listener works on a listener of the configuration.
LEMMA JobTarget ==
  ASSUME Shapes, NEW l \in Listener, NEW s, <<l, s>> \in pass.todo, pass.pc \in Working \ {"delete"}
  PROVE  /\ l \in DOMAIN pass.cfg.ls /\ pass.cfg \in Config
         /\ s \in Later => l \in Touched(pass) /\ ListenerRecord(listeners[l])
<1>1. <<l, s>>[1] \in DOMAIN pass.cfg.ls
  BY DEF Shapes, Targets
<1>2. s \in Later => l \in Touched(pass)
  BY DEF Touched
<1> QED
  BY <1>1, <1>2 DEF Shapes, Working

\* A listener is created with its attributes and default certificate.
LEMMA CertsCreated ==
  ASSUME Shapes, RestInv, CertsFit, NEW l \in Listener, NEW ok \in BOOLEAN, CreateALBListener(l, ok)
  PROVE  CertJobs'
<1> DEFINE spec == buildListenerSpec(cfg, l)
           new == [desc |-> spec.desc, attr |-> spec.attr, action |-> spec.action,
                   default |-> IF l \in Tls THEN defaultCert(l) ELSE None,
                   extras |-> {}, acl |-> {}, aclType |-> None, refs |-> {}]
<1>1. /\ CertJobs /\ pass.pc = "create" /\ <<l, "create">> \in pass.todo
      /\ listeners = [k \in Listener |-> listeners[k]] /\ PassRecord(pass)
  BY DEF RestInv, CreateALBListener, At, Shapes
<1>2. listeners = [listeners EXCEPT ![l] = listeners[l]]
  BY <1>1
<1>3. new.attr = Sent(pass.cfg, l) /\ new.default = IF l \in Tls THEN defaultCert(l) ELSE None
  BY DEF buildListenerSpec, cfg
<1> DEFINE valid == isListenerValid(l) /\ (l \in Tls => Cardinality(defaultCerts(l)) = 1)
<1>4. IF ok /\ valid /\ listeners[l] = None
        THEN /\ listeners' = [listeners EXCEPT ![l] = new]
             /\ pass' = IF l \in Tls
                          THEN [pass EXCEPT !.todo = Step(l, "create", "extras")]
                          ELSE Done(l, "create")
        ELSE /\ listeners' \in {listeners} \cup (IF valid /\ listeners[l] = None
                                                   THEN {[listeners EXCEPT ![l] = new]} ELSE {})
             /\ pass' = [Note(l, "create") EXCEPT !.inUse = @ \/ (ok /\ valid /\ ~pass.err)]
  BY DEF CreateALBListener
<1> HIDE DEF new, valid
<1>5. PICK n : n = new
  OBVIOUS
<1>6. CASE ok /\ valid /\ listeners[l] = None /\ l \in Tls
  <2>1. listeners' = [listeners EXCEPT ![l] = n] /\ pass' = [pass EXCEPT !.todo = Step(l, "create", "extras")]
    BY <1>4, <1>5, <1>6
  <2>2. listeners'[l] = n /\ pass'.pc = "create" /\ pass'.cfg = pass.cfg /\ pass'.certs = pass.certs
    BY <1>1, <2>1 DEF PassRecord
  <2>3. defaultCert(l)' = defaultCert(l)
    BY <2>2 DEF defaultCert, defaultCerts
  <2>4. CertState(l, "extras")'
    BY <1>3, <1>5, <1>6, <2>2, <2>3 DEF CertState
  <2>5. "extras" \in Later
    BY DEF Later
  <2> QED
    BY <1>1, <2>1, <2>4, <2>5, CertsCall
<1>7. CASE ok /\ valid /\ listeners[l] = None /\ l \notin Tls
  <2>1. DoneFits(l, n)
    BY <1>3, <1>5, <1>7 DEF DoneFits
  <2> QED
    BY <1>1, <1>4, <1>5, <1>7, <2>1, CertsCall
<1>8. CASE ~(ok /\ valid /\ listeners[l] = None)
  <2>1. PICK x : listeners' = [listeners EXCEPT ![l] = x]
    BY <1>2, <1>4, <1>8
  <2>2. \E b : pass' = [Note(l, "create") EXCEPT !.inUse = b]
    <3>1. PICK b : b = (Note(l, "create").inUse \/ (ok /\ valid /\ ~pass.err))
      OBVIOUS
    <3>2. pass' = [Note(l, "create") EXCEPT !.inUse = b]
      BY <1>4, <1>8, <3>1
    <3> QED
      BY <3>2
  <2> QED
    BY <1>1, <2>1, <2>2, CertsCall
<1> QED
  BY <1>6, <1>7, <1>8

\* A new listener gets its additional certificates.
LEMMA CertsAssociated ==
  ASSUME Shapes, RestInv, CertsFit, NEW l \in Listener, NEW ok \in BOOLEAN, AssociateNew(l, ok)
  PROVE  CertJobs'
<1>1. /\ CertJobs /\ CertsHead /\ pass.pc = "create" /\ <<l, "extras">> \in pass.todo /\ "extras" \in Later
      /\ listeners = [k \in Listener |-> listeners[k]]
  BY DEF RestInv, AssociateNew, At, Shapes, Later
<1>2. CertJob(l, "extras") /\ l \in DOMAIN pass.cfg.ls /\ ListenerRecord(listeners[l])
  BY <1>1, JobTarget DEF CertJobs, Working
<1>3. l \in Tls /\ listeners[l].attr = Sent(pass.cfg, l) /\ listeners[l].default = defaultCert(l)
  BY <1>1, <1>2 DEF CertJob, CertState
<1>4. CASE ok
  <2>1. PICK e : e = extraCerts(l)
    OBVIOUS
  <2>2. PICK x : x = [listeners[l] EXCEPT !.extras = e]
    OBVIOUS
  <2>3. x.attr = listeners[l].attr /\ x.default = listeners[l].default /\ x.extras = e
    BY <1>2, <2>2 DEF ListenerRecord
  <2>4. listeners' = [listeners EXCEPT ![l] = x] /\ pass' = Done(l, "extras")
    BY <1>4, <2>1, <2>2 DEF AssociateNew
  <2>5. {defaultCert(l)} \cup extraCerts(l) = {y.id : y \in ToSet(pass.certs[l])}
    BY <1>1, <1>2, <1>3, CertsSplit
  <2>6. DoneFits(l, x)
    BY <1>3, <2>1, <2>3, <2>5 DEF DoneFits, CertsOn
  <2> QED
    BY <1>1, <2>4, <2>6, CertsCall
<1>5. CASE ~ok
  <2>1. PICK x : x = listeners[l]
    OBVIOUS
  <2>2. listeners' = [listeners EXCEPT ![l] = x] /\ pass' = Note(l, "extras")
    BY <1>1, <1>5, <2>1 DEF AssociateNew
  <2> QED
    BY <1>1, <2>2, CertsCall
<1> QED
  BY <1>4, <1>5

\* The certificates of a listener are listed, added and taken off.
LEMMA CertsExchanged ==
  ASSUME Shapes, RestInv, CertsFit, NEW l \in Listener, NEW ok \in BOOLEAN,
         listListenerCerts(l, ok) \/ AssociateExtras(l, ok) \/ DissociateExtras(l, ok)
  PROVE  CertJobs'
<1>1. /\ CertJobs /\ pass.pc = "update" /\ PassRecord(pass)
      /\ listeners = [k \in Listener |-> listeners[k]]
  BY DEF RestInv, listListenerCerts, AssociateExtras, DissociateExtras, At, Shapes
<1>2. listeners = [listeners EXCEPT ![l] = listeners[l]]
  BY <1>1
<1>3. ASSUME NEW s \in Later, <<l, s>> \in pass.todo, NEW e, NEW t \in Later,
             listeners' = [listeners EXCEPT ![l].extras = e],
             pass' = [pass EXCEPT !.todo = Step(l, s, t)]
      PROVE  /\ listeners'[l].default = listeners[l].default /\ listeners'[l].extras = e
             /\ desiredExtraCertIDs(l)' = desiredExtraCertIDs(l)
             /\ \E x : listeners' = [listeners EXCEPT ![l] = x]
             /\ pass'.pc = "update"
  <2>1. ListenerRecord(listeners[l])
    BY <1>1, <1>3, JobTarget DEF Working
  <2>2. PICK x : x = [listeners[l] EXCEPT !.extras = e]
    OBVIOUS
  <2>3. listeners' = [listeners EXCEPT ![l] = x] /\ x.default = listeners[l].default /\ x.extras = e
    BY <1>3, <2>1, <2>2 DEF ListenerRecord
  <2>4. listeners'[l] = x
    BY <1>1, <2>3
  <2>5. pass'.pc = "update" /\ pass'.certs = pass.certs
    BY <1>1, <1>3 DEF PassRecord
  <2>6. defaultCerts(l)' = defaultCerts(l) /\ extraCerts(l)' = extraCerts(l)
    BY <2>5 DEF defaultCerts, extraCerts
  <2>7. defaultCert(l)' = defaultCert(l)
    BY <2>5, <2>6 DEF defaultCert
  <2>8. desiredExtraCertIDs(l)' = desiredExtraCertIDs(l)
    BY <2>3, <2>4, <2>6, <2>7 DEF desiredExtraCertIDs, keepsDefault
  <2> QED
    BY <2>3, <2>4, <2>5, <2>8
<1>4. ASSUME NEW s \in Later, <<l, s>> \in pass.todo, listeners' = listeners, pass' = Note(l, s)
      PROVE  CertJobs'
  <2>1. PICK x : x = listeners[l]
    OBVIOUS
  <2> QED
    BY <1>1, <1>2, <1>4, <2>1, CertsCall
<1>5. CASE listListenerCerts(l, ok)
  <2>1. <<l, "list">> \in pass.todo /\ "list" \in Later /\ listeners' = listeners
    BY <1>5 DEF listListenerCerts, At, cloud, Later
  <2>2. CASE ~ok
    BY <1>4, <1>5, <2>1, <2>2 DEF listListenerCerts
  <2>3. CASE ok
    <3>1. PICK t : t = IF l \in Tls THEN "extras" ELSE "attribute"
      OBVIOUS
    <3>2. t \in Later /\ pass' = [pass EXCEPT !.todo = Step(l, "list", t)]
      BY <1>5, <2>3, <3>1 DEF listListenerCerts, Later
    <3>3. pass'.pc = "update"
      BY <1>1, <3>2 DEF PassRecord
    <3>4. CertState(l, t)'
      BY <3>1, <3>3 DEF CertState
    <3>5. PICK x : x = listeners[l]
      OBVIOUS
    <3>6. listeners' = [listeners EXCEPT ![l] = x]
      BY <1>2, <2>1, <3>5
    <3> QED
      BY <1>1, <2>1, <3>2, <3>4, <3>6, CertsCall
  <2> QED
    BY <2>2, <2>3
<1>6. CASE AssociateExtras(l, ok)
  <2>1. <<l, "extras">> \in pass.todo /\ "extras" \in Later /\ "dissociate" \in Later
    BY <1>6 DEF AssociateExtras, At, Later
  <2>2. CASE ~ok
    BY <1>4, <1>6, <2>1, <2>2 DEF AssociateExtras
  <2>3. CASE ok
    <3>1. PICK e : e = listeners[l].extras \cup desiredExtraCertIDs(l)
      OBVIOUS
    <3>2. /\ listeners' = [listeners EXCEPT ![l].extras = e]
          /\ pass' = [pass EXCEPT !.todo = Step(l, "extras", "dissociate")]
      BY <1>6, <2>3, <3>1 DEF AssociateExtras
    <3>3. /\ listeners'[l].extras = e /\ desiredExtraCertIDs(l)' = desiredExtraCertIDs(l)
          /\ \E x : listeners' = [listeners EXCEPT ![l] = x]
          /\ pass'.pc = "update"
      BY <1>3, <2>1, <3>2
    <3>4. CertState(l, "dissociate")'
      BY <3>1, <3>3 DEF CertState
    <3> QED
      BY <1>1, <2>1, <3>2, <3>3, <3>4, CertsCall
  <2> QED
    BY <2>2, <2>3
<1>7. CASE DissociateExtras(l, ok)
  <2>1. <<l, "dissociate">> \in pass.todo /\ "attribute" \in Later /\ "dissociate" \in Later
    BY <1>7 DEF DissociateExtras, At, Later
  <2>2. CASE ~ok
    BY <1>4, <1>7, <2>1, <2>2 DEF DissociateExtras
  <2>3. CASE ok
    <3>1. PICK e : e = listeners[l].extras \cap desiredExtraCertIDs(l)
      OBVIOUS
    <3>2. /\ listeners' = [listeners EXCEPT ![l].extras = e]
          /\ pass' = [pass EXCEPT !.todo = Step(l, "dissociate", "attribute")]
      BY <1>7, <2>3, <3>1 DEF DissociateExtras
    <3>3. /\ listeners'[l].extras = e /\ desiredExtraCertIDs(l)' = desiredExtraCertIDs(l)
          /\ \E x : listeners' = [listeners EXCEPT ![l] = x]
          /\ pass'.pc = "update"
      BY <1>3, <2>1, <3>2
    <3>4. l \in Tls => desiredExtraCertIDs(l) \subseteq listeners[l].extras
      BY <1>1, <2>1 DEF CertJobs, CertJob, CertState
    <3>5. CertState(l, "attribute")'
      BY <3>1, <3>3, <3>4 DEF CertState
    <3> QED
      BY <1>1, <2>1, <3>2, <3>3, <3>5, CertsCall
  <2> QED
    BY <2>2, <2>3
<1> QED
  BY <1>5, <1>6, <1>7

\* The attributes and the default certificate are the last to change.
LEMMA CertsFinal ==
  ASSUME Shapes, RestInv, CertsFit, NEW l \in Listener, NEW ok \in BOOLEAN,
         updateListenerAttribute(l, ok)
  PROVE  CertJobs'
<1>1. /\ CertJobs /\ CertsHead /\ pass.pc = "update" /\ PassRecord(pass) /\ <<l, "attribute">> \in pass.todo
      /\ listeners = [k \in Listener |-> listeners[k]] /\ "attribute" \in Later
  BY DEF RestInv, updateListenerAttribute, At, Shapes, Later
<1>2. listeners = [listeners EXCEPT ![l] = listeners[l]]
  BY <1>1
<1>3. l \in DOMAIN pass.cfg.ls /\ ListenerRecord(listeners[l])
  BY <1>1, JobTarget DEF Working
<1> DEFINE spec == buildListenerSpec(cfg, l)
           new == [listeners[l] EXCEPT !.desc = spec.desc, !.attr = spec.attr, !.action = spec.action,
                     !.default = IF l \in Tls /\ ~keepsDefault(l) THEN defaultCert(l) ELSE @]
<1>4. \/ pass' = Done(l, "attribute") /\ listeners' = [listeners EXCEPT ![l] = new]
      \/ pass' = Note(l, "attribute") /\ listeners' \in {listeners, [listeners EXCEPT ![l] = new]}
  BY DEF updateListenerAttribute
<1>5. spec.attr = Sent(pass.cfg, l)
  BY DEF buildListenerSpec, cfg
<1>6. PICK r, d : r = listeners[l] /\ d = IF l \in Tls /\ ~keepsDefault(l) THEN defaultCert(l) ELSE r.default
  OBVIOUS
<1> HIDE DEF spec
<1>7. new = [r EXCEPT !.desc = spec.desc, !.attr = spec.attr, !.action = spec.action, !.default = d]
  BY <1>6
<1> HIDE DEF new
<1>8. new.attr = spec.attr /\ new.default = d /\ new.extras = r.extras
  BY <1>3, <1>6, <1>7 DEF ListenerRecord
<1>9. l \in Tls => {d} \cup r.extras = {y.id : y \in ToSet(pass.certs[l])}
  <2> SUFFICES ASSUME l \in Tls PROVE {d} \cup r.extras = {y.id : y \in ToSet(pass.certs[l])}
    OBVIOUS
  <2>1. /\ defaultCerts(l) # {}
        /\ {defaultCert(l)} \cup extraCerts(l) = {y.id : y \in ToSet(pass.certs[l])}
    <3>1. defaultCerts(l) = {1}
      BY <1>1, <1>3, CertsSplit
    <3> QED
      BY <1>1, <1>3, <3>1, CertsSplit
  <2>2. desiredExtraCertIDs(l) = r.extras
    BY <1>1, <1>6 DEF CertJobs, CertJob, CertState
  <2>3. {d} \cup desiredExtraCertIDs(l) = {defaultCert(l)} \cup extraCerts(l)
    <3>1. CASE defaultCert(l) = r.default
      <4>1. keepsDefault(l)
        BY <1>6, <3>1 DEF keepsDefault
      <4>2. d = r.default /\ desiredExtraCertIDs(l) = extraCerts(l) \ {r.default}
        BY <1>6, <3>1, <4>1 DEF desiredExtraCertIDs
      <4> QED
        BY <3>1, <4>2
    <3>2. CASE defaultCert(l) # r.default /\ r.default \in extraCerts(l)
      <4>1. keepsDefault(l)
        BY <1>6, <3>2 DEF keepsDefault
      <4>2. d = r.default /\ desiredExtraCertIDs(l) = (extraCerts(l) \cup {defaultCert(l)}) \ {r.default}
        BY <1>6, <2>1, <3>2, <4>1 DEF desiredExtraCertIDs
      <4> QED
        BY <3>2, <4>2
    <3>3. CASE defaultCert(l) # r.default /\ r.default \notin extraCerts(l)
      <4>1. ~keepsDefault(l)
        BY <1>6, <2>1, <3>3 DEF keepsDefault
      <4>2. d = defaultCert(l) /\ desiredExtraCertIDs(l) = extraCerts(l) \ {r.default}
        BY <1>6, <4>1 DEF desiredExtraCertIDs
      <4> QED
        BY <3>3, <4>2
    <3> QED
      BY <3>1, <3>2, <3>3
  <2> QED
    BY <2>1, <2>2, <2>3
<1>10. PICK n : n = new
  OBVIOUS
<1>11. DoneFits(l, n)
  BY <1>5, <1>8, <1>9, <1>10 DEF DoneFits, CertsOn
<1>12. CASE pass' = Done(l, "attribute") /\ listeners' = [listeners EXCEPT ![l] = new]
  BY <1>1, <1>10, <1>11, <1>12, CertsCall
<1>13. CASE pass' = Note(l, "attribute")
  <2>1. PICK x : listeners' = [listeners EXCEPT ![l] = x]
    BY <1>2, <1>4
  <2> QED
    BY <1>1, <1>13, <2>1, CertsCall
<1> QED
  BY <1>4, <1>12, <1>13

-----------------------------------------------------------------------------
(* Access control lists                                                    *)

\* What the step of the goroutine of l does not change
OthersKept(l) ==
  /\ pass.pc = "acl" /\ pass'.pc = "acl" /\ pass'.cfg = pass.cfg /\ pass'.certs = pass.certs
  /\ pass'.ids = pass.ids /\ pass'.gone = pass.gone /\ (pass.err => pass'.err)
  /\ \A k \in Listener \ {l} : pass'.acl[k] = pass.acl[k] /\ pass'.drop[k] = pass.drop[k]

\* A goroutine is through, or goes on, perhaps with lists.
LEMMA AclPass ==
  ASSUME Shapes, pass.pc = "acl", NEW l \in Listener, NEW s, NEW todo
  PROVE  /\ \A ok \in BOOLEAN : pass' = AclDone(l, s, ok) =>
              /\ OthersKept(l) /\ pass'.todo = Fin(l, s) /\ (~ok => pass'.err)
              /\ pass'.acl = pass.acl /\ pass'.drop = pass.drop
         /\ pass' = [pass EXCEPT !.todo = todo] =>
              OthersKept(l) /\ pass'.todo = todo /\ pass'.acl = pass.acl /\ pass'.drop = pass.drop
         /\ \A a : pass' = [pass EXCEPT !.todo = todo, !.acl[l] = a] =>
              OthersKept(l) /\ pass'.todo = todo /\ pass'.acl[l] = a
<1>1. PassRecord(pass)
  BY DEF Shapes
<1>2. ASSUME NEW ok \in BOOLEAN, pass' = AclDone(l, s, ok)
      PROVE  /\ OthersKept(l) /\ pass'.todo = Fin(l, s) /\ (~ok => pass'.err)
             /\ pass'.acl = pass.acl /\ pass'.drop = pass.drop
  <2>1. /\ pass'.pc = pass.pc /\ pass'.cfg = pass.cfg /\ pass'.certs = pass.certs
        /\ pass'.ids = pass.ids /\ pass'.gone = pass.gone /\ pass'.err = (pass.err \/ ~ok)
        /\ pass'.acl = pass.acl /\ pass'.drop = pass.drop /\ pass'.todo = Fin(l, s)
    BY <1>1, <1>2 DEF AclDone, PassRecord
  <2> QED
    BY <2>1 DEF OthersKept
<1>3. ASSUME pass' = [pass EXCEPT !.todo = todo]
      PROVE  OthersKept(l) /\ pass'.todo = todo /\ pass'.acl = pass.acl /\ pass'.drop = pass.drop
  <2>1. /\ pass'.pc = pass.pc /\ pass'.cfg = pass.cfg /\ pass'.certs = pass.certs
        /\ pass'.ids = pass.ids /\ pass'.gone = pass.gone /\ pass'.err = pass.err
        /\ pass'.acl = pass.acl /\ pass'.drop = pass.drop /\ pass'.todo = todo
    BY <1>1, <1>3 DEF PassRecord
  <2> QED
    BY <2>1 DEF OthersKept
<1>4. ASSUME NEW a, NEW b, \/ pass' = [pass EXCEPT !.todo = todo, !.acl = a]
                           \/ pass' = [pass EXCEPT !.todo = todo, !.acl = a, !.drop = b]
      PROVE  /\ pass'.pc = pass.pc /\ pass'.cfg = pass.cfg /\ pass'.certs = pass.certs
             /\ pass'.ids = pass.ids /\ pass'.gone = pass.gone /\ pass'.err = pass.err
             /\ pass'.todo = todo /\ pass'.acl = a
             /\ pass' = [pass EXCEPT !.todo = todo, !.acl = a] => pass'.drop = pass.drop
             /\ pass' = [pass EXCEPT !.todo = todo, !.acl = a, !.drop = b] => pass'.drop = b
  BY <1>1, <1>4 DEF PassRecord
<1>5. pass.acl = [k \in Listener |-> pass.acl[k]] /\ pass.drop = [k \in Listener |-> pass.drop[k]]
  BY <1>1 DEF PassRecord
<1>6. ASSUME NEW y
      PROVE  /\ [pass.acl EXCEPT ![l] = y][l] = y /\ [pass.drop EXCEPT ![l] = y][l] = y
             /\ \A k \in Listener \ {l} : /\ [pass.acl EXCEPT ![l] = y][k] = pass.acl[k]
                                          /\ [pass.drop EXCEPT ![l] = y][k] = pass.drop[k]
  BY <1>5
<1>7. ASSUME NEW a, pass' = [pass EXCEPT !.todo = todo, !.acl[l] = a]
      PROVE  OthersKept(l) /\ pass'.todo = todo /\ pass'.acl[l] = a
  <2>1. PICK q : q = [pass.acl EXCEPT ![l] = a]
    OBVIOUS
  <2>2. pass' = [pass EXCEPT !.todo = todo, !.acl = q]
    BY <1>1, <1>7, <2>1 DEF PassRecord
  <2>3. /\ pass'.pc = pass.pc /\ pass'.cfg = pass.cfg /\ pass'.certs = pass.certs
        /\ pass'.ids = pass.ids /\ pass'.gone = pass.gone /\ pass'.err = pass.err
        /\ pass'.todo = todo /\ pass'.acl = q /\ pass'.drop = pass.drop
    BY <1>4, <2>2
  <2> QED
    BY <1>6, <2>1, <2>3 DEF OthersKept
<1> QED
  BY <1>2, <1>3, <1>7

\* A goroutine goes on with lists to associate and lists to dissociate.
LEMMA AclPassBoth ==
  ASSUME Shapes, pass.pc = "acl", NEW l \in Listener, NEW todo, NEW a, NEW b,
         pass' = [pass EXCEPT !.todo = todo, !.acl[l] = a, !.drop[l] = b]
  PROVE  OthersKept(l) /\ pass'.todo = todo /\ pass'.acl[l] = a /\ pass'.drop[l] = b
<1>1. PassRecord(pass)
  BY DEF Shapes
<1>2. PICK q, r : q = [pass.acl EXCEPT ![l] = a] /\ r = [pass.drop EXCEPT ![l] = b]
  OBVIOUS
<1>3. pass' = [pass EXCEPT !.todo = todo, !.acl = q, !.drop = r]
  BY <1>1, <1>2 DEF PassRecord
<1>4. /\ pass'.pc = pass.pc /\ pass'.cfg = pass.cfg /\ pass'.certs = pass.certs
      /\ pass'.ids = pass.ids /\ pass'.gone = pass.gone /\ pass'.err = pass.err
      /\ pass'.todo = todo /\ pass'.acl = q /\ pass'.drop = r
  BY <1>1, <1>3 DEF PassRecord
<1>5. /\ q[l] = a /\ r[l] = b
      /\ \A k \in Listener \ {l} : q[k] = pass.acl[k] /\ r[k] = pass.drop[k]
  BY <1>1, <1>2 DEF PassRecord
<1> QED
  BY <1>4, <1>5 DEF OthersKept

\* Lists that a step of the goroutine of l changes are its own or new ones, and
\* so are those it puts on its listener, unless they are a user's.
OnlyOwn(l) ==
  LET name == buildAcl(pass.cfg, l).name
  IN  /\ \A a \in AclId : acls'[a] = acls[a] \/ acls[a] = None \/ (name # <<>> /\ acls[a].name = name)
      /\ \A a \in listeners'[l].acl \ listeners[l].acl :
           a \in UserAcl \/ (name # <<>> /\ acls[a].name = name)

\* The goroutines of other listeners are as far as they were.
LEMMA ListsOthers ==
  ASSUME Shapes, ListsExist, ListsApart, Apart, NEW l \in Listener, NEW k \in Listener, k # l,
         l \in DOMAIN pass.cfg.ls, k \in DOMAIN pass.cfg.ls, ListenerRecord(listeners[l]),
         OthersKept(l), OnlyOwn(l), \A j \in Listener \ {l} : listeners'[j] = listeners[j],
         listeners[k] # None
  PROVE  /\ \A s : ListJob(k, s) => ListJob(k, s)'
         /\ InForce(k) => InForce(k)'
<1>1. PICK w, v : w = buildAcl(pass.cfg, k) /\ v = buildAcl(pass.cfg, l).name
  OBVIOUS
<1>2. buildAcl(pass'.cfg, k) = w
  BY <1>1 DEF OthersKept
<1>3. v # <<>> => w.name # v
  <2>1. pass.cfg \in Config
    BY DEF Shapes, OthersKept
  <2> QED
    BY <1>1, <2>1 DEF ListsApart
<1>4. ASSUME NEW a \in AclId, AclRecord(acls[a]), acls[a].name = w.name
      PROVE  acls'[a] = acls[a]
  BY <1>1, <1>3, <1>4 DEF OnlyOwn, AclRecord
<1>5. listeners'[k] = listeners[k] /\ pass'.acl[k] = pass.acl[k] /\ pass'.drop[k] = pass.drop[k]
  BY DEF OthersKept
<1>6. InForce(k) => InForce(k)'
  <2>1. \A a \in listeners[k].acl : a \in AclId /\ AclRecord(acls[a])
    BY DEF ListsExist
  <2> QED
    BY <1>1, <1>2, <1>4, <1>5, <2>1 DEF InForce
<1>7. OwnList(k) => OwnList(k)' /\ \A a \in pass.acl[k] : acls'[a] = acls[a] /\ acls[a].name = w.name
  BY <1>1, <1>2, <1>4, <1>5 DEF OwnList
<1>8. ASSUME OwnList(k), NEW a \in pass.acl[k], a \notin UserAcl,
             \A j \in Listener : listeners[j] # None => a \notin listeners[j].acl,
             NEW j \in Listener, listeners'[j] # None
      PROVE  a \notin listeners'[j].acl
  <2>1. CASE j # l
    BY <1>8, <2>1
  <2>2. CASE j = l
    <3>1. a \notin listeners[l].acl
      BY <1>8 DEF Apart
    <3>2. acls[a].name = w.name
      BY <1>7, <1>8
    <3> QED
      BY <1>1, <1>3, <1>8, <2>2, <3>1, <3>2 DEF OnlyOwn
  <2> QED
    BY <2>1, <2>2
<1>9. ASSUME NEW s, ListJob(k, s) PROVE ListJob(k, s)'
  <2>1. /\ s # "get" => w.type # None
        /\ s \in {"associate", "dissociate"} => w.name = <<>>
        /\ s \in {"createAcl", "wait", "fill", "relate", "add", "remove", "related"} => w.name # <<>>
        /\ s \in {"wait", "fill", "relate", "add", "remove", "related"} => OwnList(k)
    BY <1>1, <1>9 DEF ListJob
  <2>2. /\ s = "associate" => /\ (listeners'[k].acl \cup pass'.acl[k]) \ pass'.drop[k] = w.ids
                              /\ pass'.acl[k] \subseteq UserAcl
                              /\ pass'.acl[k] = {} => listeners'[k].aclType = w.type
        /\ s = "dissociate" => listeners'[k].acl \ pass'.drop[k] = w.ids /\ listeners'[k].aclType = w.type
    BY <1>1, <1>5, <1>9 DEF ListJob
  <2>3. s \in {"wait", "fill", "relate"} =>
          \A a \in pass'.acl[k] :
            /\ a \notin UserAcl
            /\ \A j \in Listener : listeners'[j] # None => a \notin listeners'[j].acl
            /\ acls'[a].entries = IF s = "relate" THEN w.entries ELSE {}
    <3> SUFFICES ASSUME s \in {"wait", "fill", "relate"}, NEW a \in pass.acl[k]
                 PROVE  /\ a \notin UserAcl
                        /\ \A j \in Listener : listeners'[j] # None => a \notin listeners'[j].acl
                        /\ acls'[a].entries = IF s = "relate" THEN w.entries ELSE {}
      BY <1>5
    <3>1. /\ a \notin UserAcl
          /\ \A j \in Listener : listeners[j] # None => a \notin listeners[j].acl
          /\ acls[a].entries = IF s = "relate" THEN w.entries ELSE {}
      BY <1>1, <1>9 DEF ListJob
    <3>2. acls'[a] = acls[a]
      BY <1>7, <2>1
    <3>3. \A j \in Listener : listeners'[j] # None => a \notin listeners'[j].acl
      BY <1>8, <2>1, <3>1
    <3> QED
      BY <3>1, <3>2, <3>3
  <2>4. s \in {"add", "remove", "related"} =>
          /\ listeners'[k].aclType = w.type
          /\ \A a \in pass'.acl[k] :
               /\ a \in listeners'[k].acl
               /\ s = "remove" => w.entries \subseteq acls'[a].entries
               /\ s = "related" => acls'[a].entries = w.entries
    <3> SUFFICES ASSUME s \in {"add", "remove", "related"}
                 PROVE  /\ listeners[k].aclType = w.type
                        /\ \A a \in pass.acl[k] :
                             /\ a \in listeners[k].acl
                             /\ s = "remove" => w.entries \subseteq acls'[a].entries
                             /\ s = "related" => acls'[a].entries = w.entries
      BY <1>5
    <3>1. \A a \in pass.acl[k] : acls'[a] = acls[a]
      BY <1>7, <2>1
    <3> QED
      BY <1>1, <1>9, <3>1 DEF ListJob
  <2>5. s \in {"wait", "fill", "relate", "add", "remove", "related"} => OwnList(k)'
    BY <1>7, <2>1
  <2> QED
    BY <1>2, <2>1, <2>2, <2>3, <2>4, <2>5 DEF ListJob
<1> QED
  BY <1>6, <1>9

\* What a call for access control has to keep
LEMMA ListsWorked ==
  ASSUME Shapes, AclInv, IdsFit, ListsExist, ListJobs, ListsApart, Apart, NEW l \in Listener, NEW s \in Later,
         <<l, s>> \in pass.todo, OthersKept(l), OnlyOwn(l), NEW x,
         listeners' = [listeners EXCEPT ![l] = x],
         \/ pass'.todo = Fin(l, s) /\ (pass'.err \/ InForce(l)')
         \/ \E t \in Later : pass'.todo = Step(l, s, t) /\ ListJob(l, t)'
  PROVE  ListJobs'
<1>1. pass.pc = "acl" /\ pass'.pc = "acl" /\ pass'.ids = pass.ids /\ (pass.err => pass'.err)
  BY DEF OthersKept
<1>2. \A t \in Later : <<l, t>> \in pass.todo => t = s
  BY <1>1 DEF AclInv, AclJobs, AclJob
<1>3. l \in DOMAIN pass.cfg.ls /\ ListenerRecord(listeners[l])
  BY <1>1, JobTarget DEF Working
<1>4. \A k \in Listener \ {l} : listeners'[k] = listeners[k]
  BY DEF Shapes
<1>5. \A k, r : k # l => (<<k, r>> \in pass'.todo <=> <<k, r>> \in pass.todo)
  BY DEF Fin, Step
<1>6. ASSUME NEW k \in Listener, NEW r \in Later, <<k, r>> \in pass'.todo PROVE ListJob(k, r)'
  <2>1. CASE k # l
    <3>1. <<k, r>> \in pass.todo
      BY <1>5, <1>6, <2>1
    <3>2. k \in DOMAIN pass.cfg.ls /\ ListenerRecord(listeners[k])
      BY <1>1, <3>1, JobTarget DEF Working
    <3>3. ListJob(k, r)
      BY <1>1, <3>1 DEF ListJobs
    <3> QED
      BY <1>3, <1>4, <2>1, <3>2, <3>3, ListsOthers DEF Apart
  <2>2. CASE k = l
    <3>1. PICK t \in Later : pass'.todo = Step(l, s, t) /\ ListJob(l, t)'
      BY <1>2, <1>6, <2>2 DEF Fin
    <3>2. <<l, r>> = <<l, t>> \/ (<<l, r>> \in pass.todo /\ <<l, r>> # <<l, s>>)
      BY <1>6, <2>2, <3>1 DEF Step
    <3>3. r = t
      BY <1>2, <3>2
    <3> QED
      BY <2>2, <3>1, <3>3
  <2> QED
    BY <2>1, <2>2
<1>7. ASSUME NEW k \in pass'.ids
      PROVE  pass'.err \/ InForce(k)' \/ \E r \in Later : <<k, r>> \in pass'.todo
  <2>1. CASE k # l
    <3>1. k \in Listener /\ k \in pass.ids /\ k \in DOMAIN pass.cfg.ls /\ ListenerRecord(listeners[k])
      <4>1. k \in pass.ids /\ k \in DOMAIN pass.cfg.ls /\ pass.cfg \in Config
        BY <1>1, <1>7 DEF Shapes, Targets, Working
      <4>2. k \in Listener
        BY <4>1, ListenersAssumption
      <4>3. k \in Touched(pass)
        BY <1>1, <4>1, <4>2 DEF Touched, Working
      <4> QED
        BY <4>1, <4>2, <4>3 DEF Shapes
    <3>2. pass.err \/ InForce(k) \/ \E r \in Later : <<k, r>> \in pass.todo
      BY <1>1, <3>1 DEF ListJobs
    <3>3. InForce(k) => InForce(k)'
      BY <1>3, <1>4, <2>1, <3>1, ListsOthers DEF Apart
    <3> QED
      BY <1>1, <1>5, <2>1, <3>2, <3>3
  <2>2. CASE k = l
    BY <2>2 DEF Step
  <2> QED
    BY <2>1, <2>2
<1> QED
  BY <1>1, <1>6, <1>7 DEF ListJobs

\* What a call for access control leaves of the listeners
SameCerts ==
  \A k \in Listener : /\ listeners'[k].attr = listeners[k].attr
                      /\ listeners'[k].default = listeners[k].default
                      /\ listeners'[k].extras = listeners[k].extras

\* What is shown of each call
ListStep(l) == OthersKept(l) /\ SameCerts /\ ListsExist' /\ ListJobs'

\* What is known when a goroutine for access control does its next call
LEMMA ListKnown ==
  ASSUME Shapes, AclInv, ListJobs, NEW l \in Listener, NEW s \in Later, pass.pc = "acl",
         <<l, s>> \in pass.todo
  PROVE  /\ ListJob(l, s) /\ l \in DOMAIN pass.cfg.ls /\ pass.cfg \in Config
         /\ ListenerRecord(listeners[l]) /\ TypeFits(l, listeners[l])
         /\ listeners = [listeners EXCEPT ![l] = listeners[l]]
<1>1. l \in DOMAIN pass.cfg.ls /\ pass.cfg \in Config /\ l \in Touched(pass) /\ ListenerRecord(listeners[l])
  BY JobTarget DEF Working
<1>2. ListJob(l, s)
  BY DEF ListJobs
<1>3. TypeFits(l, listeners[l])
  BY <1>1 DEF AclInv, TypesFit
<1> QED
  BY <1>1, <1>2, <1>3 DEF Shapes

\* The lists of a listener are looked up.
LEMMA ListsFound ==
  ASSUME Shapes, RestInv, AclInv, IdsFit, ListsApart, Apart, AclsSettled, NEW l \in Listener,
         NEW ok \in BOOLEAN, findListenerAclConfig(l, ok)
  PROVE  ListStep(l)
<1>1. /\ pass.pc = "acl" /\ <<l, "get">> \in pass.todo /\ listeners' = listeners /\ acls' = acls
      /\ "get" \in Later /\ ListsExist /\ ListJobs
  BY DEF findListenerAclConfig, At, cloud, Later, RestInv
<1>2. /\ l \in DOMAIN pass.cfg.ls /\ pass.cfg \in Config /\ ListenerRecord(listeners[l])
      /\ TypeFits(l, listeners[l]) /\ listeners = [listeners EXCEPT ![l] = listeners[l]]
  BY <1>1, ListKnown
<1>3. SameCerts /\ ListsExist'
  BY <1>1 DEF SameCerts, ListsExist
<1>4. OnlyOwn(l)
  BY <1>1 DEF OnlyOwn
<1>5. PICK want, r : want = buildAcl(pass.cfg, l) /\ r = listeners[l]
  OBVIOUS
<1>6. /\ want.type # None => want.ids # {} \/ want.name # <<>>
      /\ want.ids \subseteq UserAcl
      /\ want.type # None /\ r.aclType # want.type => r.acl = {}
  <2>1. want.type # None => want.ids # {} \/ want.name # <<>>
    BY <1>2, <1>5 DEF AclsSettled
  <2>2. want.ids \subseteq UserAcl
    BY <1>2, <1>5 DEF ListsApart
  <2>3. want.type # None /\ r.aclType # want.type => r.acl = {}
    BY <1>2, <1>5 DEF TypeFits
  <2> QED
    BY <2>1, <2>2, <2>3
<1>7. ASSUME OthersKept(l), \/ pass'.todo = Fin(l, "get") /\ (pass'.err \/ InForce(l)')
                            \/ \E t \in Later : pass'.todo = Step(l, "get", t) /\ ListJob(l, t)'
      PROVE  ListStep(l)
  <2>1. PICK x : x = listeners[l]
    OBVIOUS
  <2>2. listeners' = [listeners EXCEPT ![l] = x]
    BY <1>1, <1>2, <2>1
  <2>3. ListJobs'
    BY <1>1, <1>4, <1>7, <2>2, ListsWorked
  <2> QED
    BY <1>3, <1>7, <2>3 DEF ListStep
<1>8. OthersKept(l) => buildAcl(pass'.cfg, l) = want
  BY <1>5 DEF OthersKept
<1>9. CASE ~ok \/ want.type = None
  <2>1. pass' = AclDone(l, "get", ok)
    BY <1>5, <1>9 DEF findListenerAclConfig, cfg
  <2>2. OthersKept(l) /\ pass'.todo = Fin(l, "get") /\ (~ok => pass'.err)
    BY <1>1, <2>1, AclPass
  <2>3. ok => InForce(l)'
    BY <1>8, <1>9, <2>2 DEF InForce
  <2> QED
    BY <1>7, <2>2, <2>3
<1>10. CASE ok /\ want.type # None /\ want.name = <<>>
  <2>1. PICK a, b, todo : /\ a = IF r.aclType = want.type THEN want.ids \ r.acl ELSE want.ids
                          /\ b = IF r.aclType = want.type THEN r.acl \ want.ids ELSE r.acl
                          /\ todo = Step(l, "get", "associate")
    OBVIOUS
  <2>2. pass' = [pass EXCEPT !.todo = todo, !.acl[l] = a, !.drop[l] = b]
    <3>1. CASE r.aclType = want.type
      <4>1. a = want.ids \ r.acl /\ b = r.acl \ want.ids
        BY <2>1, <3>1
      <4>2. pass' = [pass EXCEPT !.todo = Step(l, "get", "associate"),
                                 !.acl[l] = want.ids \ r.acl, !.drop[l] = r.acl \ want.ids]
        BY <1>5, <1>10, <3>1, Zenon DEF findListenerAclConfig, cfg
      <4> QED
        BY <2>1, <4>1, <4>2
    <3>2. CASE r.aclType # want.type
      <4>1. a = want.ids /\ b = r.acl
        BY <2>1, <3>2
      <4>2. pass' = [pass EXCEPT !.todo = Step(l, "get", "associate"), !.acl[l] = want.ids, !.drop[l] = r.acl]
        BY <1>5, <1>10, <3>2, Zenon DEF findListenerAclConfig, cfg
      <4> QED
        BY <2>1, <4>1, <4>2
    <3> QED
      BY <3>1, <3>2
  <2>3. OthersKept(l) /\ pass'.todo = todo /\ pass'.acl[l] = a /\ pass'.drop[l] = b
    BY <1>1, <2>2, AclPassBoth
  <2>4. (r.acl \cup a) \ b = want.ids /\ a \subseteq UserAcl /\ (a = {} => r.aclType = want.type)
    BY <1>6, <1>10, <2>1
  <2>5. ListJob(l, "associate")'
    BY <1>1, <1>5, <1>8, <1>10, <2>3, <2>4 DEF ListJob
  <2> QED
    BY <1>7, <2>1, <2>3, <2>5 DEF Later
<1>11. CASE /\ ok /\ want.type # None /\ want.name # <<>>
            /\ r.aclType = want.type /\ matchResAndSDKAcls(l) # {}
  <2>1. PICK a \in matchResAndSDKAcls(l) : pass' = [pass EXCEPT !.todo = Step(l, "get", "add"), !.acl[l] = {a}]
    BY <1>5, <1>11 DEF findListenerAclConfig, cfg
  <2>2. PICK todo, b : todo = Step(l, "get", "add") /\ b = {a}
    OBVIOUS
  <2>3. pass' = [pass EXCEPT !.todo = todo, !.acl[l] = b]
    BY <2>1, <2>2
  <2>4. OthersKept(l) /\ pass'.todo = todo /\ pass'.acl[l] = {a}
    BY <1>1, <2>2, <2>3, AclPass
  <2>5. a \in r.acl /\ acls[a].name = want.name
    BY <1>5, <2>1 DEF matchResAndSDKAcls, cfg
  <2>6. a \in AclId /\ AclRecord(acls[a])
    BY <1>1, <1>2, <1>5, <2>5 DEF ListsExist, Apart
  <2>7. OwnList(l)'
    BY <1>1, <1>8, <2>4, <2>5, <2>6 DEF OwnList
  <2>8. ListJob(l, "add")'
    BY <1>1, <1>5, <1>8, <1>11, <2>4, <2>5, <2>7 DEF ListJob
  <2> QED
    BY <1>7, <2>2, <2>4, <2>8 DEF Later
<1>12. CASE /\ ok /\ want.type # None /\ want.name # <<>>
            /\ ~(r.aclType = want.type /\ matchResAndSDKAcls(l) # {})
  <2>1. PICK todo : todo = Step(l, "get", "createAcl")
    OBVIOUS
  <2>2. pass' = [pass EXCEPT !.todo = todo]
    BY <1>5, <1>12, <2>1 DEF findListenerAclConfig, cfg
  <2>3. OthersKept(l) /\ pass'.todo = todo
    BY <1>1, <2>2, AclPass
  <2>4. ListJob(l, "createAcl")'
    BY <1>8, <1>12, <2>3 DEF ListJob
  <2> QED
    BY <1>7, <2>1, <2>3, <2>4 DEF Later
<1> QED
  BY <1>9, <1>10, <1>11, <1>12

\* What is left to show of a call for access control
LEMMA ListCall ==
  ASSUME Shapes, RestInv, AclInv, IdsFit, ListsApart, Apart, NEW l \in Listener, NEW s \in Later,
         <<l, s>> \in pass.todo, OthersKept(l), OnlyOwn(l), ListsExist', NEW x,
         listeners' = [listeners EXCEPT ![l] = x],
         x.attr = listeners[l].attr, x.default = listeners[l].default, x.extras = listeners[l].extras,
         \/ pass'.todo = Fin(l, s) /\ (pass'.err \/ InForce(l)')
         \/ \E t \in Later : pass'.todo = Step(l, s, t) /\ ListJob(l, t)'
  PROVE  ListStep(l)
<1>1. ListsExist /\ ListJobs
  BY DEF RestInv
<1>2. ListJobs'
  BY <1>1, ListsWorked
<1>3. listeners'[l] = x /\ \A k \in Listener \ {l} : listeners'[k] = listeners[k]
  BY DEF Shapes
<1>4. SameCerts
  BY <1>3 DEF SameCerts
<1> QED
  BY <1>2, <1>4 DEF ListStep

\* Lists are put on a listener or taken off it.
LEMMA ListsOn ==
  ASSUME Shapes, NEW l \in Listener, ListenerRecord(listeners[l]), NEW a, NEW t,
         listeners' = [listeners EXCEPT ![l].acl = a, ![l].aclType = t]
  PROVE  \E x : /\ listeners' = [listeners EXCEPT ![l] = x] /\ listeners'[l] = x
                /\ x.acl = a /\ x.aclType = t /\ x.attr = listeners[l].attr
                /\ x.default = listeners[l].default /\ x.extras = listeners[l].extras
                /\ \A k \in Listener \ {l} : listeners'[k] = listeners[k]
<1>1. PICK r : r = listeners[l]
  OBVIOUS
<1>2. PICK x : x = [r EXCEPT !.acl = a, !.aclType = t]
  OBVIOUS
<1>3. x.acl = a /\ x.aclType = t /\ x.attr = r.attr /\ x.default = r.default /\ x.extras = r.extras
  BY <1>1, <1>2 DEF ListenerRecord
<1>4. listeners = [k \in Listener |-> listeners[k]]
  BY DEF Shapes
<1>5. listeners' = [listeners EXCEPT ![l] = x]
  <2>1. DOMAIN listeners = Listener
    BY <1>4
  <2>2. listeners' = [k \in Listener |-> IF k = l THEN x ELSE listeners[k]]
    <3>1. PICK f : f = [listeners EXCEPT ![l].acl = a]
      OBVIOUS
    <3>2. f[l] = [r EXCEPT !.acl = a] /\ DOMAIN f = Listener /\ \A k \in Listener \ {l} : f[k] = listeners[k]
      BY <1>1, <1>4, <2>1, <3>1
    <3>3. [f[l] EXCEPT !.aclType = t] = x
      BY <1>1, <1>2, <3>2 DEF ListenerRecord
    <3>4. listeners' = [f EXCEPT ![l].aclType = t]
      BY <3>1
    <3>5. listeners' = [k \in Listener |-> IF k = l THEN [f[l] EXCEPT !.aclType = t] ELSE f[k]]
      BY <3>2, <3>4
    <3> QED
      BY <3>2, <3>3, <3>5
  <2> QED
    BY <1>4, <2>1, <2>2
<1> QED
  BY <1>1, <1>3, <1>4, <1>5

\* Lists given by ID are put on their listener.
LEMMA ListsAssociated ==
  ASSUME Shapes, RestInv, AclInv, IdsFit, ListsApart, Apart, NEW l \in Listener,
         NEW ok \in BOOLEAN, AssociateAclWithListener(l, ok)
  PROVE  ListStep(l)
<1>1. /\ pass.pc = "acl" /\ <<l, "associate">> \in pass.todo /\ acls' = acls
      /\ "associate" \in Later /\ ListsExist /\ ListJobs
  BY DEF AssociateAclWithListener, At, Later, RestInv
<1>2. /\ ListJob(l, "associate") /\ ListenerRecord(listeners[l])
      /\ listeners = [listeners EXCEPT ![l] = listeners[l]]
  BY <1>1, ListKnown
<1>3. PICK want, r, p : want = buildAcl(pass.cfg, l) /\ r = listeners[l] /\ p = pass.acl[l]
  OBVIOUS
<1>4. /\ want.type # None /\ want.name = <<>> /\ (r.acl \cup p) \ pass.drop[l] = want.ids
      /\ p \subseteq UserAcl /\ (p = {} => r.aclType = want.type)
  BY <1>2, <1>3 DEF ListJob
<1>5. OthersKept(l) => buildAcl(pass'.cfg, l) = want
  BY <1>3 DEF OthersKept
<1>6. ASSUME listeners' = listeners PROVE OnlyOwn(l) /\ ListsExist'
  BY <1>1, <1>6 DEF OnlyOwn, ListsExist
<1>7. CASE ~ok
  <2>1. pass' = AclDone(l, "associate", FALSE) /\ listeners' = listeners
    BY <1>7 DEF AssociateAclWithListener
  <2>2. OthersKept(l) /\ pass'.todo = Fin(l, "associate") /\ pass'.err
    BY <1>1, <2>1, AclPass
  <2>3. listeners' = [listeners EXCEPT ![l] = r]
    BY <1>2, <1>3, <2>1
  <2> QED
    BY <1>1, <1>3, <1>6, <2>1, <2>2, <2>3, ListCall
<1>8. CASE ok
  <2>1. PICK todo : todo = Step(l, "associate", "dissociate")
    OBVIOUS
  <2>2. pass' = [pass EXCEPT !.todo = todo]
    BY <1>8, <2>1 DEF AssociateAclWithListener
  <2>3. OthersKept(l) /\ pass'.todo = todo /\ pass'.acl = pass.acl /\ pass'.drop = pass.drop
    BY <1>1, <2>2, AclPass
  <2>4. CASE p = {}
    <3>1. listeners' = listeners /\ listeners' = [listeners EXCEPT ![l] = r]
      BY <1>2, <1>3, <2>4 DEF AssociateAclWithListener
    <3>2. ListJob(l, "dissociate")'
      BY <1>3, <1>4, <1>5, <2>3, <2>4, <3>1 DEF ListJob
    <3> QED
      BY <1>1, <1>3, <1>6, <2>1, <2>3, <3>1, <3>2, ListCall DEF Later
  <2>5. CASE p # {}
    <3>1. PICK q : q = r.acl \cup p
      OBVIOUS
    <3>2. listeners' = [listeners EXCEPT ![l].acl = q, ![l].aclType = want.type]
      <4>1. listeners' = [listeners EXCEPT ![l].acl = @ \cup p, ![l].aclType = want.type]
        BY <1>3, <1>8, <2>5, Zenon DEF AssociateAclWithListener, Associate, cfg
      <4> QED
        BY <1>2, <1>3, <3>1, <4>1
    <3>3. PICK x : /\ listeners' = [listeners EXCEPT ![l] = x] /\ listeners'[l] = x
                   /\ x.acl = q /\ x.aclType = want.type /\ x.attr = listeners[l].attr
                   /\ x.default = listeners[l].default /\ x.extras = listeners[l].extras
                   /\ \A k \in Listener \ {l} : listeners'[k] = listeners[k]
      BY <1>2, <3>2, ListsOn
    <3>4. \A a \in q : a \in AclId /\ AclRecord(acls[a])
      BY <1>1, <1>2, <1>3, <1>4, <3>1, ListenersAssumption DEF ListsExist, Apart
    <3>5. ListsExist'
      BY <1>1, <3>3, <3>4 DEF ListsExist
    <3>6. OnlyOwn(l)
      BY <1>1, <1>3, <1>4, <3>1, <3>3 DEF OnlyOwn
    <3>7. ListJob(l, "dissociate")'
      BY <1>3, <1>4, <1>5, <2>3, <3>1, <3>3 DEF ListJob
    <3> QED
      BY <1>1, <2>1, <2>3, <3>3, <3>5, <3>6, <3>7, ListCall DEF Later
  <2> QED
    BY <2>4, <2>5
<1> QED
  BY <1>7, <1>8

\* Lists that are not wanted are taken off their listener, which keeps some.
LEMMA ListsDissociated ==
  ASSUME Shapes, RestInv, AclInv, IdsFit, ListsApart, Apart, AclsSettled, NEW l \in Listener,
         NEW ok \in BOOLEAN, DisassociateAclWithListener(l, ok)
  PROVE  ListStep(l)
<1>1. /\ pass.pc = "acl" /\ <<l, "dissociate">> \in pass.todo /\ acls' = acls
      /\ "dissociate" \in Later /\ ListsExist /\ ListJobs
  BY DEF DisassociateAclWithListener, At, Later, RestInv
<1>2. /\ ListJob(l, "dissociate") /\ ListenerRecord(listeners[l])
      /\ listeners = [listeners EXCEPT ![l] = listeners[l]]
      /\ l \in DOMAIN pass.cfg.ls /\ pass.cfg \in Config
  BY <1>1, ListKnown
<1>3. PICK want, r, p : want = buildAcl(pass.cfg, l) /\ r = listeners[l] /\ p = pass.drop[l]
  OBVIOUS
<1>4. /\ want.type # None /\ want.name = <<>> /\ r.acl \ p = want.ids /\ r.aclType = want.type
  BY <1>2, <1>3 DEF ListJob
<1>5. want.ids # {}
  BY <1>2, <1>3, <1>4 DEF AclsSettled
<1>6. pass' = AclDone(l, "dissociate", ok)
  BY DEF DisassociateAclWithListener
<1>7. OthersKept(l) /\ pass'.todo = Fin(l, "dissociate") /\ (~ok => pass'.err)
  BY <1>1, <1>6, AclPass
<1>8. buildAcl(pass'.cfg, l) = want
  BY <1>3, <1>7 DEF OthersKept
<1>9. CASE ~ok \/ p = {}
  <2>1. listeners' = listeners /\ listeners' = [listeners EXCEPT ![l] = r]
    BY <1>2, <1>3, <1>9 DEF DisassociateAclWithListener
  <2>2. OnlyOwn(l) /\ ListsExist'
    BY <1>1, <2>1 DEF OnlyOwn, ListsExist
  <2>3. ok => InForce(l)'
    BY <1>3, <1>4, <1>8, <1>9, <2>1 DEF InForce
  <2> QED
    BY <1>1, <1>3, <1>7, <2>1, <2>2, <2>3, ListCall
<1>10. CASE ok /\ p # {}
  <2>1. PICK q, t : q = r.acl \ p /\ t = r.aclType
    OBVIOUS
  <2>2. ~(r.acl \subseteq p)
    BY <1>4, <1>5
  <2>3. listeners' = [listeners EXCEPT ![l].acl = q, ![l].aclType = t]
    <3>1. listeners' = [listeners EXCEPT ![l].acl = @ \ p,
                                         ![l].aclType = IF r.acl \subseteq p THEN None ELSE @]
      BY <1>3, <1>10, Zenon DEF DisassociateAclWithListener, Dissociate
    <3>2. PICK f : f = [listeners EXCEPT ![l].acl = q]
      OBVIOUS
    <3>3. listeners = [k \in Listener |-> listeners[k]]
      BY DEF Shapes
    <3>4. f[l] = [r EXCEPT !.acl = q]
      BY <1>3, <3>2, <3>3
    <3>5. f[l].aclType = t
      BY <1>2, <1>3, <2>1, <3>4 DEF ListenerRecord
    <3>6. listeners' = [f EXCEPT ![l].aclType = @]
      BY <1>2, <1>3, <2>1, <2>2, <3>1, <3>2
    <3> QED
      BY <3>2, <3>5, <3>6
  <2>4. PICK x : /\ listeners' = [listeners EXCEPT ![l] = x] /\ listeners'[l] = x
                 /\ x.acl = q /\ x.aclType = t /\ x.attr = listeners[l].attr
                 /\ x.default = listeners[l].default /\ x.extras = listeners[l].extras
                 /\ \A k \in Listener \ {l} : listeners'[k] = listeners[k]
    BY <1>2, <2>3, ListsOn
  <2>5. \A a \in q : a \in AclId /\ AclRecord(acls[a])
    BY <1>1, <1>2, <1>3, <2>1 DEF ListsExist, Apart
  <2>6. ListsExist'
    BY <1>1, <2>4, <2>5 DEF ListsExist
  <2>7. OnlyOwn(l)
    BY <1>1, <1>3, <2>1, <2>4 DEF OnlyOwn
  <2>8. InForce(l)'
    BY <1>4, <1>8, <2>1, <2>4 DEF InForce
  <2> QED
    BY <1>1, <1>7, <2>4, <2>6, <2>7, <2>8, ListCall
<1> QED
  BY <1>9, <1>10

\* A list that was created is waited for.
LEMMA ListsAwaited ==
  ASSUME Shapes, RestInv, AclInv, IdsFit, ListsApart, Apart, NEW l \in Listener,
         NEW ok \in BOOLEAN, waitAclStatus(l, ok) \/ isAssociateAclWithListener(l, ok)
  PROVE  ListStep(l)
<1>1. /\ pass.pc = "acl" /\ listeners' = listeners /\ acls' = acls
      /\ "wait" \in Later /\ "related" \in Later /\ "fill" \in Later /\ ListsExist /\ ListJobs
  BY DEF waitAclStatus, isAssociateAclWithListener, At, Later, RestInv, cloud
<1>2. OnlyOwn(l) /\ ListsExist'
  BY <1>1 DEF OnlyOwn, ListsExist
<1>3. PICK r, want : r = listeners[l] /\ want = buildAcl(pass.cfg, l)
  OBVIOUS
<1>4. OthersKept(l) => buildAcl(pass'.cfg, l) = want
  BY <1>3 DEF OthersKept
<1>5. CASE waitAclStatus(l, ok)
  <2>1. <<l, "wait">> \in pass.todo
    BY <1>5 DEF waitAclStatus, At
  <2>2. ListJob(l, "wait") /\ listeners' = [listeners EXCEPT ![l] = r]
    BY <1>1, <1>3, <2>1, ListKnown
  <2>3. CASE ok
    <3>1. PICK todo : todo = Step(l, "wait", "fill")
      OBVIOUS
    <3>2. pass' = [pass EXCEPT !.todo = todo]
      BY <1>5, <2>3, <3>1 DEF waitAclStatus
    <3>3. OthersKept(l) /\ pass'.todo = todo /\ pass'.acl = pass.acl /\ pass'.drop = pass.drop
      BY <1>1, <3>2, AclPass
    <3>4. ListJob(l, "fill")'
      BY <1>1, <1>3, <1>4, <2>2, <3>3 DEF ListJob, OwnList
    <3> QED
      BY <1>1, <1>2, <1>3, <2>1, <2>2, <3>1, <3>3, <3>4, ListCall
  <2>4. CASE ~ok
    <3>1. pass' = AclDone(l, "wait", FALSE)
      BY <1>5, <2>4 DEF waitAclStatus
    <3>2. OthersKept(l) /\ pass'.todo = Fin(l, "wait") /\ pass'.err
      BY <1>1, <3>1, AclPass
    <3> QED
      BY <1>1, <1>2, <1>3, <2>1, <2>2, <3>2, ListCall
  <2> QED
    BY <2>3, <2>4
<1>6. CASE isAssociateAclWithListener(l, ok)
  <2>1. <<l, "related">> \in pass.todo /\ pass' = AclDone(l, "related", ok)
    BY <1>6 DEF isAssociateAclWithListener, At
  <2>2. ListJob(l, "related") /\ listeners' = [listeners EXCEPT ![l] = r]
    BY <1>1, <1>3, <2>1, ListKnown
  <2>3. OthersKept(l) /\ pass'.todo = Fin(l, "related") /\ (~ok => pass'.err)
    BY <1>1, <2>1, AclPass
  <2>4. PICK a : pass.acl[l] = {a} /\ acls[a].name = want.name
    BY <1>3, <2>2 DEF ListJob, OwnList
  <2>5. InForce(l)'
    BY <1>1, <1>3, <1>4, <2>2, <2>3, <2>4 DEF ListJob, InForce
  <2> QED
    BY <1>1, <1>2, <1>3, <2>1, <2>2, <2>3, <2>5, ListCall
<1> QED
  BY <1>5, <1>6

\* A list of its own is created for a listener.
LEMMA ListsCreated ==
  ASSUME Shapes, RestInv, AclInv, IdsFit, ListsApart, Apart, NEW l \in Listener,
         NEW ok \in BOOLEAN, createAcl(l, ok)
  PROVE  ListStep(l)
<1>1. /\ pass.pc = "acl" /\ <<l, "createAcl">> \in pass.todo /\ listeners' = listeners
      /\ "createAcl" \in Later /\ "wait" \in Later /\ ListsExist /\ ListJobs
  BY DEF createAcl, At, Later, RestInv
<1>2. PICK r, want : r = listeners[l] /\ want = buildAcl(pass.cfg, l)
  OBVIOUS
<1>3. ListJob(l, "createAcl") /\ listeners' = [listeners EXCEPT ![l] = r]
  BY <1>1, <1>2, ListKnown
<1>4. OthersKept(l) => buildAcl(pass'.cfg, l) = want
  BY <1>2 DEF OthersKept
<1> DEFINE free == {a \in AclId : acls[a] = None}
<1>5. CASE ok /\ free # {}
  <2>1. PICK new \in free : /\ acls' = [acls EXCEPT ![new] = [name |-> want.name, entries |-> {}]]
                            /\ pass' = [pass EXCEPT !.todo = Step(l, "createAcl", "wait"), !.acl[l] = {new}]
    <3>1. PICK n : n = CHOOSE a \in free : TRUE
      OBVIOUS
    <3>2. n \in free
      BY <1>5, <3>1
    <3>3. /\ acls' = [acls EXCEPT ![n] = [name |-> want.name, entries |-> {}]]
          /\ pass' = [pass EXCEPT !.todo = Step(l, "createAcl", "wait"), !.acl[l] = {n}]
      BY <1>2, <1>5, <3>1, Zenon DEF createAcl, cfg
    <3> QED
      BY <3>2, <3>3
  <2>2. PICK todo, p, y : /\ todo = Step(l, "createAcl", "wait") /\ p = {new}
                          /\ y = [name |-> want.name, entries |-> {}]
    OBVIOUS
  <2>3. pass' = [pass EXCEPT !.todo = todo, !.acl[l] = p]
    BY <2>1, <2>2
  <2>4. OthersKept(l) /\ pass'.todo = todo /\ pass'.acl[l] = {new}
    BY <1>1, <2>2, <2>3, AclPass
  <2>5. y # None /\ y.name = want.name /\ y.entries = {} /\ AclRecord(y)
    BY <2>2 DEF Apart, AclRecord
  <2>6. /\ acls' = [a \in AclId |-> acls'[a]] /\ acls'[new] = y
        /\ \A a \in AclId \ {new} : acls'[a] = acls[a]
    BY <1>1, <2>1, <2>2 DEF ListsExist
  <2>7. /\ new \notin UserAcl /\ \A k \in Listener : listeners[k] # None => new \notin listeners[k].acl
    BY <1>1, <2>1 DEF ListsExist, AclRecord
  <2>8. ListsExist'
    <3>1. \A a \in UserAcl : AclRecord(acls'[a])
      BY <1>1, <2>6, <2>7, ListenersAssumption DEF ListsExist
    <3>2. \A k \in Listener : listeners'[k] # None =>
            \A a \in listeners'[k].acl : a \in AclId /\ AclRecord(acls'[a])
      BY <1>1, <2>6, <2>7 DEF ListsExist
    <3> QED
      BY <2>6, <3>1, <3>2 DEF ListsExist
  <2>9. OnlyOwn(l)
    BY <1>1, <2>1, <2>6 DEF OnlyOwn
  <2>10. ListJob(l, "wait")'
    <3>1. want.type # None /\ want.name # <<>>
      BY <1>2, <1>3 DEF ListJob
    <3>2. OwnList(l)'
      BY <1>4, <2>1, <2>4, <2>5, <2>6 DEF OwnList
    <3> QED
      BY <1>1, <1>4, <2>4, <2>5, <2>6, <2>7, <3>1, <3>2 DEF ListJob
  <2> QED
    BY <1>1, <1>2, <1>3, <2>2, <2>4, <2>8, <2>9, <2>10, ListCall
<1>6. CASE ~(ok /\ free # {})
  <2>1. acls' = acls /\ pass' = AclDone(l, "createAcl", FALSE)
    BY <1>6 DEF createAcl
  <2>2. OthersKept(l) /\ pass'.todo = Fin(l, "createAcl") /\ pass'.err
    BY <1>1, <2>1, AclPass
  <2>3. OnlyOwn(l) /\ ListsExist'
    BY <1>1, <2>1 DEF OnlyOwn, ListsExist
  <2> QED
    BY <1>1, <1>2, <1>3, <2>2, <2>3, ListCall
<1> QED
  BY <1>5, <1>6

\* The entries of a listener's own list change.
LEMMA OwnEntries ==
  ASSUME ListsExist, Apart, NEW l \in Listener, NEW a \in AclId, pass.acl[l] = {a}, AclRecord(acls[a]),
         NEW more, NEW only, listeners' = listeners, acls' = WithEntries(l, more, only)
  PROVE  /\ AclRecord(acls'[a]) /\ acls'[a].name = acls[a].name
         /\ acls'[a].entries = (acls[a].entries \cup more) \cap only
         /\ ListsExist' /\ \A b \in AclId \ {a} : acls'[b] = acls[b]
<1>1. PICK n, e, f : n = acls[a].name /\ e = acls[a].entries /\ f = (e \cup more) \cap only
  OBVIOUS
<1>2. acls[a] = [name |-> n, entries |-> e]
  BY <1>1 DEF AclRecord
<1>3. PICK y : y = [name |-> n, entries |-> f]
  OBVIOUS
<1>4. [acls[a] EXCEPT !.entries = (@ \cup more) \cap only] = y
  <2>1. PICK q : q = acls[a]
    OBVIOUS
  <2>2. [q EXCEPT !.entries = (q.entries \cup more) \cap only] = y
    BY <1>1, <1>2, <1>3, <2>1
  <2> QED
    BY <2>1, <2>2
<1>5. /\ acls'[a] = [acls[a] EXCEPT !.entries = (@ \cup more) \cap only]
      /\ \A b \in AclId \ {a} : acls'[b] = acls[b]
      /\ acls' = [b \in AclId |-> acls'[b]]
  BY DEF WithEntries
<1>6. y # None /\ y.name = n /\ y.entries = f /\ AclRecord(y)
  BY <1>3 DEF Apart, AclRecord
<1>7. acls'[a] = y
  BY <1>4, <1>5
<1>8. ListsExist'
  BY <1>5, <1>6, <1>7, ListenersAssumption DEF ListsExist
<1> QED
  BY <1>1, <1>5, <1>6, <1>7, <1>8

\* A list that is on no listener and not a user's may be deleted.
LEMMA OwnDeleted ==
  ASSUME ListsExist, NEW l \in Listener, NEW a \in AclId, pass.acl[l] = {a}, listeners' = listeners,
         acls' \in deleteAcl(l), a \notin UserAcl,
         \A k \in Listener : listeners[k] # None => a \notin listeners[k].acl
  PROVE  ListsExist' /\ \A b \in AclId \ {a} : acls'[b] = acls[b]
<1>1. CASE acls' = acls
  BY <1>1 DEF ListsExist
<1>2. CASE acls' = [b \in AclId |-> IF b \in pass.acl[l] THEN None ELSE acls[b]]
  <2>1. acls' = [b \in AclId |-> acls'[b]] /\ \A b \in AclId \ {a} : acls'[b] = acls[b]
    BY <1>2
  <2> QED
    BY <2>1, ListenersAssumption DEF ListsExist
<1> QED
  BY <1>1, <1>2 DEF deleteAcl

\* The entries of a list are added, those not wanted are removed; a new list
\* gets its entries before it is put on the listener.
LEMMA ListsFilled ==
  ASSUME Shapes, RestInv, AclInv, IdsFit, ListsApart, Apart, NEW l \in Listener,
         NEW ok \in BOOLEAN, FillAcl(l, ok) \/ AddAclEntries(l, ok) \/ RemoveAclEntries(l, ok)
  PROVE  ListStep(l)
<1>1. /\ pass.pc = "acl" /\ listeners' = listeners /\ ListsExist /\ ListJobs
      /\ \E s \in {"fill", "add", "remove"} : <<l, s>> \in pass.todo
      /\ {"fill", "add", "remove", "relate", "related"} \subseteq Later
  BY DEF FillAcl, AddAclEntries, RemoveAclEntries, At, Later, RestInv
<1>2. PICK r, want : r = listeners[l] /\ want = buildAcl(pass.cfg, l)
  OBVIOUS
<1>3. PICK s \in {"fill", "add", "remove"} : <<l, s>> \in pass.todo
  BY <1>1
<1>4. /\ ListJob(l, s) /\ listeners' = [listeners EXCEPT ![l] = r] /\ l \in DOMAIN pass.cfg.ls
      /\ pass.cfg \in Config
  BY <1>1, <1>2, <1>3, ListKnown
<1>5. PICK a \in AclId : pass.acl[l] = {a} /\ AclRecord(acls[a]) /\ acls[a].name = want.name
  BY <1>2, <1>3, <1>4 DEF ListJob, OwnList
<1>6. want.type # None /\ want.name # <<>> /\ want.entries \subseteq Entry
  BY <1>2, <1>3, <1>4 DEF ListJob, ListsApart
<1>7. OthersKept(l) => buildAcl(pass'.cfg, l) = want
  BY <1>2 DEF OthersKept
<1>8. ASSUME \A b \in AclId \ {a} : acls'[b] = acls[b] PROVE OnlyOwn(l)
  BY <1>1, <1>2, <1>5, <1>6, <1>8 DEF OnlyOwn
<1>9. ASSUME NEW t \in Later, ~ok, <<l, t>> \in pass.todo, pass' = AclDone(l, t, FALSE),
             ListsExist', \A b \in AclId \ {a} : acls'[b] = acls[b]
      PROVE  ListStep(l)
  <2>1. OthersKept(l) /\ pass'.todo = Fin(l, t) /\ pass'.err
    BY <1>1, <1>9, AclPass
  <2> QED
    BY <1>2, <1>4, <1>8, <1>9, <2>1, ListCall
<1>10. ASSUME NEW t \in Later, NEW u \in Later, ok, <<l, t>> \in pass.todo,
              pass' = [pass EXCEPT !.todo = Step(l, t, u)],
              ListsExist', \A b \in AclId \ {a} : acls'[b] = acls[b],
              OthersKept(l) /\ pass'.acl = pass.acl => ListJob(l, u)'
       PROVE  ListStep(l)
  <2>1. PICK todo : todo = Step(l, t, u)
    OBVIOUS
  <2>2. pass' = [pass EXCEPT !.todo = todo]
    BY <1>10, <2>1
  <2>3. OthersKept(l) /\ pass'.todo = todo /\ pass'.acl = pass.acl
    BY <1>1, <2>2, AclPass
  <2> QED
    BY <1>2, <1>4, <1>8, <1>10, <2>1, <2>3, ListCall
<1>11. CASE FillAcl(l, ok)
  <2>1. <<l, "fill">> \in pass.todo
    BY <1>11 DEF FillAcl, At
  <2>2. ListJob(l, "fill")
    BY <1>1, <2>1 DEF ListJobs
  <2>3. /\ a \notin UserAcl /\ acls[a].entries = {}
        /\ \A k \in Listener : listeners[k] # None => a \notin listeners[k].acl
    BY <1>5, <2>2 DEF ListJob
  <2>4. CASE ok
    <3>1. acls' = WithEntries(l, want.entries, Entry) /\ pass' = [pass EXCEPT !.todo = Step(l, "fill", "relate")]
      BY <1>2, <1>11, <2>4 DEF FillAcl, cfg
    <3>2. /\ AclRecord(acls'[a]) /\ acls'[a].name = want.name
          /\ acls'[a].entries = (acls[a].entries \cup want.entries) \cap Entry
          /\ ListsExist' /\ \A b \in AclId \ {a} : acls'[b] = acls[b]
      BY <1>1, <1>5, <3>1, OwnEntries
    <3>3. acls'[a].entries = want.entries
      BY <1>6, <2>3, <3>2
    <3>4. ASSUME OthersKept(l), pass'.acl = pass.acl PROVE ListJob(l, "relate")'
      <4>1. OwnList(l)'
        BY <1>5, <1>7, <3>2, <3>4 DEF OwnList
      <4> QED
        BY <1>1, <1>5, <1>6, <1>7, <2>3, <3>3, <3>4, <4>1 DEF ListJob
    <3> QED
      BY <1>1, <1>10, <2>1, <2>4, <3>1, <3>2, <3>4
  <2>5. CASE ~ok
    <3>1. acls' \in deleteAcl(l) /\ pass' = AclDone(l, "fill", FALSE)
      BY <1>11, <2>5 DEF FillAcl
    <3>2. ListsExist' /\ \A b \in AclId \ {a} : acls'[b] = acls[b]
      BY <1>1, <1>5, <2>3, <3>1, OwnDeleted
    <3> QED
      BY <1>1, <1>9, <2>1, <2>5, <3>1, <3>2
  <2> QED
    BY <2>4, <2>5
<1>12. ASSUME ~ok, acls' = acls PROVE ListsExist' /\ \A b \in AclId \ {a} : acls'[b] = acls[b]
  BY <1>1, <1>12 DEF ListsExist
<1>13. CASE AddAclEntries(l, ok)
  <2>1. <<l, "add">> \in pass.todo
    BY <1>13 DEF AddAclEntries, At
  <2>2. ListJob(l, "add")
    BY <1>1, <2>1 DEF ListJobs
  <2>3. CASE ok
    <3>1. acls' = WithEntries(l, want.entries, Entry) /\ pass' = [pass EXCEPT !.todo = Step(l, "add", "remove")]
      BY <1>2, <1>13, <2>3 DEF AddAclEntries, cfg
    <3>2. /\ AclRecord(acls'[a]) /\ acls'[a].name = want.name
          /\ acls'[a].entries = (acls[a].entries \cup want.entries) \cap Entry
          /\ ListsExist' /\ \A b \in AclId \ {a} : acls'[b] = acls[b]
      BY <1>1, <1>5, <3>1, OwnEntries
    <3>3. want.entries \subseteq acls'[a].entries
      BY <1>6, <3>2
    <3>4. ASSUME OthersKept(l), pass'.acl = pass.acl PROVE ListJob(l, "remove")'
      <4>1. OwnList(l)'
        BY <1>5, <1>7, <3>2, <3>4 DEF OwnList
      <4>2. listeners'[l].aclType = want.type /\ a \in listeners'[l].acl
        BY <1>1, <1>2, <1>5, <2>2 DEF ListJob
      <4> QED
        BY <1>5, <1>6, <1>7, <3>3, <3>4, <4>1, <4>2 DEF ListJob
    <3> QED
      BY <1>1, <1>10, <2>1, <2>3, <3>1, <3>2, <3>4
  <2>4. CASE ~ok
    <3>1. acls' = acls /\ pass' = AclDone(l, "add", FALSE)
      BY <1>13, <2>4 DEF AddAclEntries
    <3> QED
      BY <1>1, <1>9, <1>12, <2>1, <2>4, <3>1
  <2> QED
    BY <2>3, <2>4
<1>14. CASE RemoveAclEntries(l, ok)
  <2>1. <<l, "remove">> \in pass.todo
    BY <1>14 DEF RemoveAclEntries, At
  <2>2. ListJob(l, "remove")
    BY <1>1, <2>1 DEF ListJobs
  <2>3. CASE ok
    <3>1. acls' = WithEntries(l, {}, want.entries) /\ pass' = [pass EXCEPT !.todo = Step(l, "remove", "related")]
      BY <1>2, <1>14, <2>3 DEF RemoveAclEntries, cfg
    <3>2. /\ AclRecord(acls'[a]) /\ acls'[a].name = want.name
          /\ acls'[a].entries = (acls[a].entries \cup {}) \cap want.entries
          /\ ListsExist' /\ \A b \in AclId \ {a} : acls'[b] = acls[b]
      BY <1>1, <1>5, <3>1, OwnEntries
    <3>3. acls'[a].entries = want.entries
      <4>1. want.entries \subseteq acls[a].entries
        BY <1>2, <1>5, <2>2 DEF ListJob
      <4> QED
        BY <3>2, <4>1
    <3>4. ASSUME OthersKept(l), pass'.acl = pass.acl PROVE ListJob(l, "related")'
      <4>1. OwnList(l)'
        BY <1>5, <1>7, <3>2, <3>4 DEF OwnList
      <4>2. listeners'[l].aclType = want.type /\ a \in listeners'[l].acl
        BY <1>1, <1>2, <1>5, <2>2 DEF ListJob
      <4> QED
        BY <1>5, <1>6, <1>7, <3>3, <3>4, <4>1, <4>2 DEF ListJob
    <3> QED
      BY <1>1, <1>10, <2>1, <2>3, <3>1, <3>2, <3>4
  <2>4. CASE ~ok
    <3>1. acls' = acls /\ pass' = AclDone(l, "remove", FALSE)
      BY <1>14, <2>4 DEF RemoveAclEntries
    <3> QED
      BY <1>1, <1>9, <1>12, <2>1, <2>4, <3>1
  <2> QED
    BY <2>3, <2>4
<1> QED
  BY <1>11, <1>13, <1>14

\* A list that was created and filled is put on its listener.
LEMMA ListsRelated ==
  ASSUME Shapes, RestInv, AclInv, IdsFit, ListsApart, Apart, NEW l \in Listener,
         NEW ok \in BOOLEAN, RelateAcl(l, ok)
  PROVE  ListStep(l)
<1>1. /\ pass.pc = "acl" /\ ListsExist /\ ListJobs /\ <<l, "relate">> \in pass.todo
      /\ "relate" \in Later /\ pass' = AclDone(l, "relate", ok)
  BY DEF RelateAcl, At, Later, RestInv
<1>2. PICK r, want : r = listeners[l] /\ want = buildAcl(pass.cfg, l)
  OBVIOUS
<1>3. /\ ListJob(l, "relate") /\ listeners = [listeners EXCEPT ![l] = r] /\ ListenerRecord(r)
  BY <1>1, <1>2, ListKnown
<1>4. PICK a \in AclId : pass.acl[l] = {a} /\ AclRecord(acls[a]) /\ acls[a].name = want.name
  BY <1>2, <1>3 DEF ListJob, OwnList
<1>5. /\ want.type # None /\ want.name # <<>> /\ a \notin UserAcl /\ acls[a].entries = want.entries
      /\ \A k \in Listener : listeners[k] # None => a \notin listeners[k].acl
  BY <1>2, <1>3, <1>4 DEF ListJob
<1>6. OthersKept(l) /\ pass'.todo = Fin(l, "relate") /\ (~ok => pass'.err)
  BY <1>1, AclPass
<1>7. buildAcl(pass'.cfg, l) = want
  BY <1>2, <1>6 DEF OthersKept
<1>8. CASE ~ok
  <2>1. acls' \in deleteAcl(l) /\ listeners' = listeners
    BY <1>8 DEF RelateAcl
  <2>2. ListsExist' /\ \A b \in AclId \ {a} : acls'[b] = acls[b]
    BY <1>1, <1>4, <1>5, <2>1, OwnDeleted
  <2>3. OnlyOwn(l)
    BY <1>2, <1>4, <1>5, <2>1, <2>2 DEF OnlyOwn
  <2>4. listeners' = [listeners EXCEPT ![l] = r]
    BY <1>3, <2>1
  <2> QED
    BY <1>1, <1>2, <1>6, <1>8, <2>2, <2>3, <2>4, ListCall
<1>9. CASE ok
  <2>1. PICK q : q = r.acl \cup {a}
    OBVIOUS
  <2>2. listeners' = [listeners EXCEPT ![l].acl = q, ![l].aclType = want.type]
    <3>1. PICK p : p = pass.acl[l]
      OBVIOUS
    <3>2. listeners' = [listeners EXCEPT ![l].acl = @ \cup p, ![l].aclType = want.type]
      BY <1>2, <1>9, <3>1, Zenon DEF RelateAcl, Associate, cfg
    <3> QED
      BY <1>2, <1>3, <1>4, <2>1, <3>1, <3>2
  <2>3. PICK x : /\ listeners' = [listeners EXCEPT ![l] = x] /\ listeners'[l] = x
                 /\ x.acl = q /\ x.aclType = want.type /\ x.attr = listeners[l].attr
                 /\ x.default = listeners[l].default /\ x.extras = listeners[l].extras
                 /\ \A k \in Listener \ {l} : listeners'[k] = listeners[k]
    BY <1>2, <1>3, <2>2, ListsOn
  <2>4. acls' = acls
    BY <1>9 DEF RelateAcl
  <2>5. \A b \in q : b \in AclId /\ AclRecord(acls[b])
    BY <1>1, <1>2, <1>3, <1>4, <2>1 DEF ListsExist, Apart
  <2>6. ListsExist'
    BY <1>1, <2>3, <2>4, <2>5 DEF ListsExist
  <2>7. OnlyOwn(l)
    BY <1>2, <1>4, <1>5, <2>1, <2>3, <2>4 DEF OnlyOwn
  <2>8. InForce(l)'
    BY <1>4, <1>5, <1>7, <2>1, <2>3, <2>4 DEF InForce
  <2> QED
    BY <1>1, <1>6, <2>3, <2>6, <2>7, <2>8, ListCall
<1> QED
  BY <1>8, <1>9

-----------------------------------------------------------------------------
(* The pass as a whole                                                     *)

\* What is known of the state before a step
Known == Shapes /\ CasTyped /\ CertsFit /\ AclInv /\ UnusedInv /\ RestInv

\* What users have to keep to
Sensible == Recognized /\ AclsSettled /\ FirstDefault /\ Certified /\ ListsApart /\ Apart

\* The appliers after that of server groups leave those as they are.
LEMMA GroupsKept ==
  ASSUME GroupsShape, GroupJobs, pass.pc \in Working, pass'.pc \in Working, pass'.cfg = pass.cfg,
         pass'.gone = pass.gone, groups' = groups
  PROVE  GroupsShape' /\ GroupJobs'
<1>1. PICK w : w = WantedGroups(pass.cfg)
  OBVIOUS
<1>2. /\ \A g \in Group \ w : groups[g] # None => g \in pass.gone
      /\ \A g \in w : groups[g] # None /\ groups[g].attr = pass.cfg.sgp
  BY <1>1 DEF GroupJobs, Running
<1>3. WantedGroups(pass'.cfg) = w /\ pass'.pc \notin {"groups", "regroup", "post"}
  BY <1>1 DEF Working
<1>4. GroupJobs'
  BY <1>2, <1>3 DEF GroupJobs
<1> QED
  BY <1>4 DEF GroupsShape

\* The listeners of a pass exist when the appliers are through, and stay.
LEMMA ThereStep ==
  ASSUME Shapes, Moves, IdsThere
  PROVE  IdsThere'
<1>1. ASSUME NEW l \in Listener, NEW x, Worked(l, x) PROVE IdsThere'
  BY <1>1 DEF Worked, IdsThere, Working
<1>2. ASSUME NEW l \in Listener, Deleted(l) PROVE IdsThere'
  BY <1>2 DEF Deleted, IdsThere
<1>3. CASE listeners' = listeners /\ (pass' = pass \/ Post)
  BY <1>3 DEF IdsThere, Post, SamePass
<1>4. CASE pass'.pc = "idle" \/ Prepares \/ Listed
  BY <1>4 DEF IdsThere, Prepares, Preparing, Listed
<1>5. CASE listeners' = listeners /\ Turns
  <2>1. ASSUME pass'.pc = "post" PROVE pass.pc = "rules" /\ pass'.ids = pass.ids
    BY <1>5, <2>1 DEF Turns, Turned, SamePass
  <2>2. ASSUME pass.pc = "rules" PROVE \A l \in pass.ids : ListenerRecord(listeners[l])
    <3>1. pass.ids \subseteq Listener
      BY <2>2, ListenersAssumption DEF Shapes, Targets, Working
    <3> QED
      BY <2>2, <3>1 DEF Shapes, Touched, Working
  <2> QED
    BY <1>5, <2>1, <2>2 DEF IdsThere
<1> QED
  BY <1>1, <1>2, <1>3, <1>4, <1>5 DEF Moves, Made, Updated, Relisted, Ruled

\* What has to be shown of a step within a pass, once the groups are ready
LEMMA RestWorked ==
  ASSUME Known, Sensible, Moves, pass.pc # "idle", pass'.pc # "idle", pass'.cfg = pass.cfg,
         dirty' = dirty, config' = config,
         CertJobs', ListsExist', ListJobs', GroupsShape', GroupJobs'
  PROVE  RestInv'
<1>1. CertsHead' /\ DescFits' /\ IdsThere'
  BY HeadStep, DescStep, ThereStep DEF Known, Sensible, RestInv
<1>2. Aware' /\ QuietInSync'
  BY DEF Known, RestInv, Aware, QuietInSync, Quiet
<1> QED
  BY <1>1, <1>2 DEF RestInv

\* The server groups are being brought up to date.
LEMMA RestPrepared ==
  ASSUME Known, Sensible, Moves, Preparation, GroupsShape', GroupJobs'
  PROVE  RestInv'
<1>1. pass'.pc \notin Running /\ pass.pc # "idle" /\ pass'.pc # "idle" /\ pass'.cfg = pass.cfg
  BY DEF Preparation, Preparing, Running, Working, SamePass
<1>2. CertJobs' /\ ListJobs'
  BY <1>1 DEF CertJobs, ListJobs, Running, Working
<1>3. ListsExist' /\ dirty' = dirty /\ config' = config
  BY DEF Preparation, ListsExist, Known, RestInv
<1> QED
  BY <1>1, <1>2, <1>3, RestWorked

\* A listener is created or brought up to date.
LEMMA RestListener ==
  ASSUME Known, Sensible, Moves, NEW l \in Listener, NEW ok \in BOOLEAN,
         \/ CreateALBListener(l, ok) \/ AssociateNew(l, ok) \/ listListenerCerts(l, ok)
         \/ AssociateExtras(l, ok) \/ DissociateExtras(l, ok) \/ updateListenerAttribute(l, ok)
  PROVE  RestInv'
<1>1. Shapes /\ RestInv /\ CertsFit
  BY DEF Known
<1>2. acls' = acls /\ groups' = groups /\ dirty' = dirty /\ config' = config
  BY DEF CreateALBListener, AssociateNew, listListenerCerts, AssociateExtras, DissociateExtras,
         updateListenerAttribute, cloud
<1>3. CertJobs'
  BY <1>1, CertsCreated, CertsAssociated, CertsExchanged, CertsFinal
<1>4. PICK x : /\ Worked(l, x) /\ pass.pc \in {"create", "update"}
               /\ x = listeners[l] \/ x.acl = {} \/ (ListenerRecord(listeners[l]) /\ x.acl = listeners[l].acl)
  <2>1. CASE CreateALBListener(l, ok)
    BY <1>1, <2>1, CreateSteps DEF NewListener
  <2>2. CASE ~CreateALBListener(l, ok)
    BY <1>1, <2>2, ListenerSteps DEF SameAcl
  <2> QED
    BY <2>1, <2>2
<1>5. /\ pass'.pc = pass.pc /\ pass'.cfg = pass.cfg /\ pass'.gone = pass.gone
      /\ listeners' = [listeners EXCEPT ![l] = x]
  BY <1>4 DEF Worked
<1>6. listeners'[l] = x /\ \A k \in Listener \ {l} : listeners'[k] = listeners[k]
  BY <1>1, <1>5 DEF Shapes
<1>7. ListsExist'
  <2>1. ASSUME NEW k \in Listener, listeners'[k] # None, NEW a \in listeners'[k].acl
        PROVE  a \in AclId /\ AclRecord(acls[a])
    <3>1. CASE k # l
      BY <1>1, <1>6, <2>1, <3>1 DEF RestInv, ListsExist
    <3>2. CASE k = l
      BY <1>1, <1>4, <1>6, <2>1, <3>2 DEF RestInv, ListsExist, Sensible, Apart
    <3> QED
      BY <3>1, <3>2
  <2> QED
    BY <1>1, <1>2, <2>1 DEF RestInv, ListsExist
<1>8. ListJobs'
  BY <1>4, <1>5 DEF ListJobs
<1>9. GroupsShape' /\ GroupJobs'
  BY <1>1, <1>2, <1>4, <1>5, GroupsKept DEF RestInv, Working
<1> QED
  BY <1>2, <1>3, <1>4, <1>5, <1>7, <1>8, <1>9, RestWorked

\* A listener that is not configured is deleted.
LEMMA RestDeleted ==
  ASSUME Known, Sensible, Moves, NEW l \in Listener, NEW ok \in BOOLEAN, DeleteALBListener(l, ok)
  PROVE  RestInv'
<1>1. Shapes /\ RestInv
  BY DEF Known
<1>2. acls' = acls /\ groups' = groups /\ dirty' = dirty /\ config' = config
  BY DEF DeleteALBListener
<1>3. Deleted(l)
  BY <1>1, DeleteSteps
<1>4. /\ pass.pc = "delete" /\ pass'.pc = "delete" /\ pass'.cfg = pass.cfg /\ pass'.gone = pass.gone
      /\ pass'.certs = pass.certs /\ pass'.ids = pass.ids /\ <<l, "delete">> \in pass.todo
  BY <1>3 DEF Deleted, SamePass
<1>5. \A k \in Listener : (k = l /\ listeners'[k] = None) \/ listeners'[k] = listeners[k]
  BY <1>1, <1>3 DEF Deleted, Shapes
<1>6. \A k \in pass.ids : listeners'[k] = listeners[k]
  <2>1. <<l, "delete">>[1] \notin DOMAIN pass.cfg.ls /\ pass.ids \subseteq DOMAIN pass.cfg.ls
    BY <1>1, <1>4 DEF Shapes, Targets, Working
  <2>2. pass.ids \subseteq Listener
    BY <1>1, <1>4, <2>1, ListenersAssumption DEF Shapes
  <2> QED
    BY <1>5, <2>1, <2>2
<1>7. CertJobs'
  BY <1>1, <1>4, <1>6, CertJobsKept DEF RestInv, Running, Working
<1>8. ListsExist' /\ ListJobs'
  BY <1>1, <1>2, <1>4, <1>5 DEF RestInv, ListsExist, ListJobs
<1>9. GroupsShape' /\ GroupJobs'
  BY <1>1, <1>2, <1>4, GroupsKept DEF RestInv, Working
<1> QED
  BY <1>2, <1>4, <1>7, <1>8, <1>9, RestWorked

\* The access control of a listener is brought up to date.
LEMMA RestLists ==
  ASSUME Known, Sensible, Moves, NEW l \in Listener, NEW ok \in BOOLEAN,
         \/ findListenerAclConfig(l, ok) \/ AssociateAclWithListener(l, ok)
         \/ DisassociateAclWithListener(l, ok) \/ createAcl(l, ok) \/ waitAclStatus(l, ok)
         \/ FillAcl(l, ok) \/ RelateAcl(l, ok) \/ AddAclEntries(l, ok) \/ RemoveAclEntries(l, ok)
         \/ isAssociateAclWithListener(l, ok)
  PROVE  RestInv'
<1>1. /\ Shapes /\ RestInv /\ AclInv /\ IdsFit /\ ListsApart /\ Apart /\ AclsSettled
  BY DEF Known, UnusedInv, Sensible
<1>2. groups' = groups /\ dirty' = dirty /\ config' = config
  BY DEF findListenerAclConfig, AssociateAclWithListener, DisassociateAclWithListener, createAcl,
         waitAclStatus, FillAcl, RelateAcl, AddAclEntries, RemoveAclEntries,
         isAssociateAclWithListener, cloud
<1>3. ListStep(l)
  <2>1. CASE findListenerAclConfig(l, ok)
    BY <1>1, <2>1, ListsFound
  <2>2. CASE AssociateAclWithListener(l, ok) \/ DisassociateAclWithListener(l, ok)
    BY <1>1, <2>2, ListsAssociated, ListsDissociated
  <2>3. CASE createAcl(l, ok) \/ waitAclStatus(l, ok) \/ isAssociateAclWithListener(l, ok)
    BY <1>1, <2>3, ListsCreated, ListsAwaited
  <2>4. CASE FillAcl(l, ok) \/ AddAclEntries(l, ok) \/ RemoveAclEntries(l, ok) \/ RelateAcl(l, ok)
    BY <1>1, <2>4, ListsFilled, ListsRelated
  <2> QED
    BY <2>1, <2>2, <2>3, <2>4
<1>4. /\ pass.pc = "acl" /\ pass'.pc = "acl" /\ pass'.cfg = pass.cfg /\ pass'.gone = pass.gone
      /\ pass'.certs = pass.certs /\ pass'.ids = pass.ids /\ SameCerts /\ ListsExist' /\ ListJobs'
  BY <1>3 DEF ListStep, OthersKept
<1>5. CertJobs'
  <2>1. pass.ids \subseteq Listener
    BY <1>1, <1>4, ListenersAssumption DEF Shapes, Targets, Working
  <2> QED
    BY <1>1, <1>4, <2>1, CertJobsKept DEF SameCerts, RestInv, Running, Working
<1>6. GroupsShape' /\ GroupJobs'
  BY <1>1, <1>2, <1>4, GroupsKept DEF RestInv, Working
<1> QED
  BY <1>2, <1>4, <1>5, <1>6, RestWorked

\* The rules of a listener are applied.
LEMMA RestRules ==
  ASSUME Known, Sensible, Moves, NEW l \in Listener, NEW ok \in BOOLEAN, ApplyRules(l, ok)
  PROVE  RestInv'
<1>1. Shapes /\ RestInv /\ PassRecord(pass) /\ listeners = [k \in Listener |-> listeners[k]]
  BY DEF Known, Shapes
<1>2. /\ acls' = acls /\ groups' = groups /\ dirty' = dirty /\ config' = config /\ pass.pc = "rules"
      /\ <<l, "rules">> \in pass.todo /\ pass' = [pass EXCEPT !.todo = Fin(l, "rules"), !.err = @ \/ ~ok]
  BY DEF ApplyRules, At
<1>3. /\ pass'.pc = "rules" /\ pass'.cfg = pass.cfg /\ pass'.gone = pass.gone
      /\ pass'.certs = pass.certs /\ pass'.ids = pass.ids
  BY <1>1, <1>2 DEF PassRecord
<1>4. ListenerRecord(listeners[l])
  BY <1>1, <1>2, JobTarget DEF Working, Later
<1>5. \A k \in Listener :
        /\ listeners'[k].attr = listeners[k].attr /\ listeners'[k].default = listeners[k].default
        /\ listeners'[k].extras = listeners[k].extras /\ listeners'[k].acl = listeners[k].acl
        /\ listeners'[k].aclType = listeners[k].aclType
        /\ listeners'[k] # None => listeners[k] # None
  <2>1. ASSUME NEW y
        PROVE  LET x == [listeners[l] EXCEPT !.refs = y]
               IN  /\ x.attr = listeners[l].attr /\ x.default = listeners[l].default
                   /\ x.extras = listeners[l].extras /\ x.acl = listeners[l].acl
                   /\ x.aclType = listeners[l].aclType
    BY <1>4 DEF ListenerRecord
  <2>2. PICK y : listeners' = [listeners EXCEPT ![l] = [listeners[l] EXCEPT !.refs = y]] \/ listeners' = listeners
    <3>1. PICK b, c : b = cfg.backs[l] /\ c = listeners[l].refs \cup b
      OBVIOUS
    <3>2. listeners' \in {listeners, [listeners EXCEPT ![l].refs = b], [listeners EXCEPT ![l].refs = @ \cup b]}
      BY <3>1 DEF ApplyRules
    <3> QED
      BY <1>1, <3>1, <3>2
  <2>3. listeners[l] # None
    BY <1>4 DEF Sensible, Apart
  <2>4. CASE listeners' = listeners
    BY <2>4
  <2>5. CASE listeners' = [listeners EXCEPT ![l] = [listeners[l] EXCEPT !.refs = y]]
    <3>1. PICK x : x = [listeners[l] EXCEPT !.refs = y]
      OBVIOUS
    <3>2. /\ x.attr = listeners[l].attr /\ x.default = listeners[l].default
          /\ x.extras = listeners[l].extras /\ x.acl = listeners[l].acl
          /\ x.aclType = listeners[l].aclType
      BY <2>1, <3>1
    <3>3. listeners'[l] = x /\ \A k \in Listener \ {l} : listeners'[k] = listeners[k]
      BY <1>1, <2>5, <3>1
    <3> QED
      BY <2>3, <3>2, <3>3
  <2> QED
    BY <2>2, <2>4, <2>5
<1>6. pass.ids \subseteq Listener
  BY <1>1, <1>2, ListenersAssumption DEF Shapes, Targets, Working
<1>7. CertJobs'
  BY <1>1, <1>2, <1>3, <1>5, <1>6, CertJobsKept DEF RestInv, Running, Working
<1>8. ListsExist'
  BY <1>1, <1>2, <1>5 DEF RestInv, ListsExist
<1>9. ListJobs'
  <2>1. ASSUME NEW k \in pass'.ids PROVE InForce(k)'
    <3>1. InForce(k)
      BY <1>1, <1>2, <1>3, <2>1 DEF RestInv, ListJobs
    <3>2. listeners'[k].acl = listeners[k].acl /\ listeners'[k].aclType = listeners[k].aclType
      BY <1>3, <1>5, <1>6, <2>1
    <3> QED
      BY <1>2, <1>3, <3>1, <3>2 DEF InForce
  <2> QED
    BY <1>3, <2>1 DEF ListJobs
<1>10. GroupsShape' /\ GroupJobs'
  BY <1>1, <1>2, <1>3, GroupsKept DEF RestInv, Working
<1> QED
  BY <1>2, <1>3, <1>7, <1>8, <1>9, <1>10, RestWorked

\* An applier that is through is followed by the next one or ends the pass.
Follows ==
  /\ Listed \/ Turns
  /\ acls' = acls /\ groups' = groups /\ listeners' = listeners /\ config' = config /\ dirty' = dirty
  /\ pass.todo = {} /\ (pass.pc \in {"regroup", "acl"} => ~pass.err)

\* Where a pass does not fail, it goes on with the next applier.
LEMMA TurnKept ==
  ASSUME Shapes, NEW ok \in BOOLEAN,
         \/ ListListeners(ok) \/ ListenersCreated \/ ListenersUpdated \/ ListenersDeleted
         \/ AclsApplied \/ RulesApplied
  PROVE  Stops \/ Follows
<1>1. PassRecord(pass)
  BY DEF Shapes
<1>2. ASSUME NEW pc, NEW t, NEW u, NEW d, NEW b, pc # "idle",
             \/ pass' = [pass EXCEPT !.pc = pc, !.todo = t, !.err = FALSE]
             \/ pass' = [[pass EXCEPT !.pc = pc, !.todo = t, !.err = FALSE] EXCEPT !.err = b]
             \/ pass' = [[pass EXCEPT !.pc = pc, !.todo = t, !.err = FALSE] EXCEPT !.upd = u, !.del = d]
      PROVE  pass' # Idle
  <2>1. PICK q : q = [pass EXCEPT !.pc = pc, !.todo = t, !.err = FALSE]
    OBVIOUS
  <2>2. q = [pc |-> pc, todo |-> t, err |-> FALSE, errs |-> pass.errs, inUse |-> pass.inUse,
             ids |-> pass.ids, upd |-> pass.upd, del |-> pass.del, gone |-> pass.gone, cfg |-> pass.cfg,
             certs |-> pass.certs, acl |-> pass.acl, drop |-> pass.drop]
    BY <1>1, <2>1 DEF PassRecord
  <2>3. pass' = q \/ pass' = [q EXCEPT !.err = b] \/ pass' = [q EXCEPT !.upd = u, !.del = d]
    BY <1>2, <2>1
  <2>4. CASE pass' = q
    BY <1>2, <2>2, <2>4, IdleRecord
  <2>5. CASE pass' = [q EXCEPT !.err = b]
    <3>1. pass'.pc = pc
      BY <2>2, <2>5
    <3> QED
      BY <1>2, <3>1, IdleRecord
  <2>6. CASE pass' = [q EXCEPT !.upd = u, !.del = d]
    <3>1. pass'.pc = pc
      BY <2>2, <2>6
    <3> QED
      BY <1>2, <3>1, IdleRecord
  <2> QED
    BY <2>3, <2>4, <2>5, <2>6
<1>3. /\ acls' = acls /\ groups' = groups /\ listeners' = listeners /\ config' = config
      /\ pass.todo = {}
  BY DEF ListListeners, ListenersCreated, ListenersUpdated, ListenersDeleted, AclsApplied, RulesApplied,
         Through, cloud
<1>4. CASE Fail
  BY <1>3, <1>4 DEF Fail, Stops
<1>5. CASE ~Fail
  <2>1. dirty' = dirty /\ pass' # Idle /\ (pass.pc \in {"regroup", "acl"} => ~pass.err)
    <3>1. CASE ListListeners(ok)
      <4>1. PICK t, u, d : /\ t = (DOMAIN cfg.ls \ findSDKListenersOnLB) \X {"create"}
                           /\ u = DOMAIN cfg.ls \cap findSDKListenersOnLB
                           /\ d = findSDKListenersOnLB \ DOMAIN cfg.ls
        OBVIOUS
      <4>2. ~pass.err /\ dirty' = dirty
        BY <1>5, <3>1 DEF ListListeners
      <4>3. pass' = [[pass EXCEPT !.pc = "create", !.todo = t, !.err = FALSE] EXCEPT !.upd = u, !.del = d]
        BY <1>5, <3>1, <4>1, Zenon DEF ListListeners, Phase
      <4> QED
        BY <1>2, <4>2, <4>3
    <3>2. CASE ListenersCreated \/ ListenersUpdated \/ RulesApplied
      <4>1. PICK t, u, d : t = pass.upd \X {"list"} /\ u = pass.del \X {"delete"} /\ d = pass.gone \X {"delete"}
        OBVIOUS
      <4>2. CASE ListenersCreated
        <5>1. pass.pc = "create" /\ dirty' = dirty /\ pass' = Phase("update", pass.upd, "list")
          BY <1>5, <4>2 DEF ListenersCreated, Through
        <5> QED
          BY <1>2, <4>1, <5>1 DEF Phase
      <4>3. CASE ListenersUpdated
        <5>1. pass.pc = "update" /\ dirty' = dirty /\ pass' = Phase("delete", pass.del, "delete")
          BY <1>5, <4>3 DEF ListenersUpdated, Through
        <5> QED
          BY <1>2, <4>1, <5>1 DEF Phase
      <4>4. CASE RulesApplied
        <5>1. pass.pc = "rules" /\ dirty' = dirty /\ pass' = Phase("post", pass.gone, "delete")
          BY <1>5, <4>4 DEF RulesApplied, Through
        <5> QED
          BY <1>2, <4>1, <5>1 DEF Phase
      <4> QED
        BY <3>2, <4>2, <4>3, <4>4
    <3>3. CASE ListenersDeleted
      <4>1. PICK t : t = pass.ids \X {"get"}
        OBVIOUS
      <4>2. /\ pass.pc = "delete" /\ dirty' = dirty
            /\ \E b \in BOOLEAN : pass' = [Phase("acl", pass.ids, "get") EXCEPT !.err = b]
        BY <1>5, <3>3 DEF ListenersDeleted, Through
      <4>3. PICK b \in BOOLEAN : pass' = [[pass EXCEPT !.pc = "acl", !.todo = t, !.err = FALSE] EXCEPT !.err = b]
        BY <4>1, <4>2 DEF Phase
      <4> QED
        BY <1>2, <4>2, <4>3
    <3>4. CASE AclsApplied
      <4>1. PICK t : t = pass.ids \X {"rules"}
        OBVIOUS
      <4>2. /\ ~pass.err /\ dirty' = dirty
            /\ \E b \in BOOLEAN : pass' = [Phase("rules", pass.ids, "rules") EXCEPT !.err = b]
        BY <1>5, <3>4 DEF AclsApplied, Through
      <4>3. PICK b \in BOOLEAN : pass' = [[pass EXCEPT !.pc = "rules", !.todo = t, !.err = FALSE] EXCEPT !.err = b]
        BY <4>1, <4>2 DEF Phase
      <4> QED
        BY <1>2, <4>2, <4>3
    <3> QED
      BY <3>1, <3>2, <3>3, <3>4
  <2>2. Listed \/ Turns
    BY <2>1, TurnSteps
  <2> QED
    BY <1>3, <2>1, <2>2 DEF Follows
<1> QED
  BY <1>4, <1>5

\* The listeners are listed: the server groups are as they should be.
LEMMA RestListed ==
  ASSUME Known, Sensible, Moves, Follows, Listed
  PROVE  RestInv'
<1>1. Shapes /\ RestInv
  BY DEF Known
<1>2. /\ pass.pc = "regroup" /\ pass'.pc = "create" /\ pass'.cfg = pass.cfg /\ pass'.certs = pass.certs
      /\ pass'.ids = {} /\ pass'.gone = pass.gone /\ pass.todo = {} /\ ~pass.err
      /\ groups' = groups /\ acls' = acls /\ listeners' = listeners /\ config' = config /\ dirty' = dirty
  BY <1>1 DEF Follows, Listed, SamePass, Shapes, Preparing
<1>3. PICK n, f : /\ n = DOMAIN cfg.ls \ findSDKListenersOnLB /\ pass'.todo = n \X {"create"}
                  /\ f = findSDKListenersOnLB /\ pass'.upd = DOMAIN cfg.ls \cap f
  BY DEF Listed
<1>4. CertJobs'
  <2>1. ASSUME NEW l \in Listener, NEW s \in Later \cup {"create"}, <<l, s>> \in pass'.todo
        PROVE  CertJob(l, s)'
    <3>1. s = "create" /\ \A t : <<l, t>> \in pass'.todo => t = "create"
      BY <1>3, <2>1
    <3>2. CertState(l, s)'
      BY <1>2, <3>1 DEF CertState
    <3> QED
      BY <1>2, <3>1, <3>2 DEF CertJob
  <2>2. \A x \in pass'.todo : x[1] \notin pass'.upd
    BY <1>3
  <2> QED
    BY <1>2, <2>1, <2>2 DEF CertJobs
<1>5. ListsExist' /\ ListJobs'
  BY <1>1, <1>2 DEF RestInv, ListsExist, ListJobs
<1>6. GroupsShape' /\ GroupJobs'
  <2>1. PICK w : w = WantedGroups(pass.cfg)
    OBVIOUS
  <2>2. /\ \A g \in Group \ w : groups[g] # None => g \in pass.gone
        /\ \A g \in w : groups[g] # None /\ groups[g].attr = pass.cfg.sgp
    BY <1>1, <1>2, <2>1 DEF RestInv, GroupJobs
  <2>3. WantedGroups(pass'.cfg) = w
    BY <1>2, <2>1
  <2>4. GroupJobs'
    BY <1>2, <2>2, <2>3 DEF GroupJobs
  <2> QED
    BY <1>1, <1>2, <2>4 DEF RestInv, GroupsShape
<1> QED
  BY <1>2, <1>4, <1>5, <1>6, RestWorked

\* One applier follows the other.
LEMMA RestTurns ==
  ASSUME Known, Sensible, Moves, Follows, Turns
  PROVE  RestInv'
<1>1. Shapes /\ RestInv /\ CertJobs /\ ListJobs
  BY DEF Known, RestInv
<1>2. /\ pass'.cfg = pass.cfg /\ pass'.certs = pass.certs /\ pass'.ids = pass.ids
      /\ pass'.gone = pass.gone /\ pass.pc \in Working /\ pass'.pc \in Running
      /\ groups' = groups /\ acls' = acls /\ listeners' = listeners /\ config' = config /\ dirty' = dirty
      /\ pass.todo = {}
  BY DEF Follows, Turns, Turned, SamePass, Running, Working
<1>3. ListsExist'
  BY <1>1, <1>2 DEF RestInv, ListsExist
<1>4. CertJobs'
  <2>1. CASE pass'.pc \in Running \ {"create", "update"}
    BY <1>1, <1>2, <2>1, CertJobsKept DEF Running
  <2>2. CASE pass'.pc \in {"create", "update"}
    <3>1. pass.pc = "create" /\ pass'.pc = "update" /\ pass'.todo = pass.upd \X {"list"}
      BY <2>2 DEF Turns, Turned
    <3>2. \A l \in pass'.ids : DoneFits(l, listeners[l])'
      <4>1. ASSUME NEW l \in pass'.ids PROVE DoneFits(l, listeners[l])'
        <5>1. DoneFits(l, listeners[l])
          BY <1>1, <1>2, <4>1 DEF CertJobs, Running
        <5> QED
          BY <1>2, <5>1 DEF DoneFits, CertsOn
      <4> QED
        BY <4>1
    <3>3. ASSUME NEW l \in Listener, NEW s \in Later \cup {"create"}, <<l, s>> \in pass'.todo
          PROVE  CertJob(l, s)'
      <4>1. s = "list" /\ l \in pass.upd /\ \A t : <<l, t>> \in pass'.todo => t = "list"
        BY <3>1, <3>3
      <4>2. l \notin pass'.ids
        BY <1>1, <1>2, <3>1, <4>1 DEF CertJobs
      <4>3. CertState(l, s)'
        BY <3>1, <4>1 DEF CertState
      <4> QED
        BY <4>1, <4>2, <4>3 DEF CertJob
    <3> QED
      BY <3>1, <3>2, <3>3 DEF CertJobs
  <2> QED
    BY <1>2, <2>1, <2>2
<1>5. ListJobs'
  <2>1. ASSUME NEW l, InForce(l) PROVE InForce(l)'
    BY <1>2, <2>1 DEF InForce
  <2>2. CASE pass'.pc = "acl"
    <3>1. pass'.todo = pass.ids \X {"get"}
      BY <2>2 DEF Turns, Turned
    <3>2. "get" \in Later
      BY DEF Later
    <3>3. ASSUME NEW l \in Listener, NEW s \in Later, <<l, s>> \in pass'.todo PROVE ListJob(l, s)'
      <4>1. s = "get"
        BY <3>1, <3>3
      <4> QED
        BY <4>1 DEF ListJob
    <3>4. \A l \in pass'.ids : <<l, "get">> \in pass'.todo
      BY <1>2, <3>1
    <3> QED
      BY <2>2, <3>2, <3>3, <3>4 DEF ListJobs
  <2>3. CASE pass'.pc \in {"rules", "post"}
    <3>1. \/ pass.pc = "acl" /\ ~pass.err
          \/ pass.pc = "rules"
      BY <2>3 DEF Turns, Turned, Follows
    <3>2. \A l \in pass.ids : InForce(l)
      BY <1>1, <1>2, <3>1 DEF ListJobs
    <3> QED
      BY <1>2, <2>1, <2>3, <3>2 DEF ListJobs
  <2> QED
    BY <2>2, <2>3 DEF ListJobs
<1>6. GroupsShape' /\ GroupJobs'
  <2>1. CASE pass'.pc \in Working
    BY <1>1, <1>2, <2>1, GroupsKept DEF RestInv
  <2>2. CASE pass'.pc = "post"
    <3>1. pass'.todo = pass.gone \X {"delete"}
      BY <2>2 DEF Turns, Turned
    <3>2. PICK w : w = WantedGroups(pass.cfg)
      OBVIOUS
    <3>3. /\ \A g \in Group \ w : groups[g] # None => g \in pass.gone
          /\ \A g \in w : groups[g] # None /\ groups[g].attr = pass.cfg.sgp
      BY <1>1, <1>2, <3>2 DEF RestInv, GroupJobs, Running
    <3>4. WantedGroups(pass'.cfg) = w
      BY <1>2, <3>2
    <3>5. /\ \A g \in Group \ w : groups[g] = None \/ <<g, "delete">> \in pass'.todo
          /\ \A x \in pass'.todo : x[1] \in pass.gone
      BY <3>1, <3>3
    <3>6. GroupJobs'
      BY <1>2, <2>2, <3>3, <3>4, <3>5 DEF GroupJobs
    <3> QED
      BY <1>1, <1>2, <3>6 DEF RestInv, GroupsShape
  <2> QED
    BY <1>2, <2>1, <2>2 DEF Running
<1>7. pass.pc # "idle" /\ pass'.pc # "idle"
  BY <1>2 DEF Running, Working
<1> QED
  BY <1>2, <1>3, <1>4, <1>5, <1>6, <1>7, RestWorked

\* A server group that is left over is deleted, or the pass has an error.
LEMMA RestGone ==
  ASSUME Known, Sensible, Moves, NEW g \in Group, NEW ok \in BOOLEAN, DeleteALBServerGroup(g, ok)
  PROVE  RestInv'
<1>1. /\ Shapes /\ RestInv /\ PassRecord(pass) /\ GroupsShape /\ GroupJobs /\ ListJobs /\ CertJobs
      /\ GoneUnwanted /\ ListsExist
  BY DEF Known, Shapes, RestInv, UnusedInv
<1>2. PICK b : b = (pass.err \/ ~ok \/ Used(g)) /\ b \in BOOLEAN
  OBVIOUS
<1>3. /\ pass.pc = "post" /\ <<g, "delete">> \in pass.todo
      /\ acls' = acls /\ listeners' = listeners /\ config' = config /\ dirty' = dirty
      /\ pass' = [pass EXCEPT !.todo = Fin(g, "delete"), !.err = b]
      /\ groups' = IF ok /\ ~Used(g) THEN [groups EXCEPT ![g] = None] ELSE groups
  BY <1>2 DEF DeleteALBServerGroup, At
<1>4. /\ pass'.pc = "post" /\ pass'.cfg = pass.cfg /\ pass'.certs = pass.certs /\ pass'.ids = pass.ids
      /\ pass'.gone = pass.gone /\ pass'.err = b /\ pass'.todo = Fin(g, "delete")
  BY <1>1, <1>3 DEF PassRecord
<1>5. CertJobs'
  BY <1>1, <1>3, <1>4, CertJobsKept DEF Running, Working
<1>6. ListsExist' /\ ListJobs'
  BY <1>1, <1>3, <1>4 DEF ListsExist, ListJobs, InForce
<1>7. PICK w : w = WantedGroups(pass.cfg)
  OBVIOUS
<1>8. g \notin w /\ w \subseteq Group
  <2>1. <<g, "delete">>[1] \in pass.gone /\ pass.gone \cap w = {}
    BY <1>1, <1>3, <1>7 DEF GroupJobs, GoneUnwanted
  <2> QED
    BY <1>1, <1>3, <1>7, <2>1, WantedKnown DEF Shapes
<1>9. /\ \A h \in Group : h # g => groups'[h] = groups[h]
      /\ groups'[g] = None \/ (b /\ groups'[g] = groups[g])
      /\ groups' = [h \in Group |-> groups'[h]]
  BY <1>1, <1>2, <1>3 DEF GroupsShape
<1>10. GroupsShape'
  BY <1>1, <1>9 DEF GroupsShape
<1>11. GroupJobs'
  <2>1. /\ \A h \in Group \ w : groups[h] # None => h \in pass.gone
        /\ \A h \in w : groups[h] # None /\ groups[h].attr = pass.cfg.sgp
        /\ \A h \in Group \ w : groups[h] = None \/ <<h, "delete">> \in pass.todo \/ pass.err
        /\ \A x \in pass.todo : x[1] \in pass.gone
    BY <1>1, <1>3, <1>7 DEF GroupJobs, Running
  <2>2. \A h \in Group \ w : groups'[h] # None => h \in pass.gone
    BY <1>9, <2>1
  <2>3. \A h \in w : groups'[h] # None /\ groups'[h].attr = pass.cfg.sgp
    BY <1>8, <1>9, <2>1
  <2>4. \A h \in Group \ w : groups'[h] = None \/ <<h, "delete">> \in pass'.todo \/ pass'.err
    BY <1>2, <1>4, <1>9, <2>1 DEF Fin
  <2>5. \A x \in pass'.todo : x[1] \in pass.gone
    BY <1>4, <2>1 DEF Fin
  <2>6. WantedGroups(pass'.cfg) = w
    BY <1>4, <1>7
  <2> QED
    BY <1>4, <2>2, <2>3, <2>4, <2>5, <2>6 DEF GroupJobs
<1> QED
  BY <1>3, <1>4, <1>5, <1>6, <1>10, <1>11, RestWorked

\* A pass that ends well leaves the load balancer as its AlbConfig says.
LEMMA EndsInSync ==
  ASSUME Known, Sensible, pass.pc = "post", pass.todo = {}, ~pass.err, pass.cfg = config,
         config' = config, listeners' = listeners, acls' = acls, groups' = groups,
         pass'.certs = pass.certs
  PROVE  InSync'
<1>1. Shapes /\ RestInv /\ UnusedInv /\ config \in Config
  BY DEF Known, Shapes
<1>2. ASSUME NEW l \in DOMAIN config.ls
      PROVE  /\ listeners[l] # None
             /\ listeners[l].desc = buildListenerSpec(config, l).desc
             /\ listeners[l].attr = Sent(config, l)
             /\ listeners[l].action = DefaultGroup(l)
             /\ listeners[l].refs = config.backs[l]
             /\ AclInForce(l)
             /\ l \in Tls => {listeners[l].default} \cup listeners[l].extras
                               = {x.id : x \in ToSet(pass.certs[l])}
  <2>1. l \in pass.ids
    BY <1>1, <1>2 DEF UnusedInv, Covered
  <2>2. listeners[l] # None
    BY <1>1, <2>1 DEF RestInv, IdsThere, Sensible, Apart
  <2>3. Described(l, listeners[l])
    BY <1>1, <2>1 DEF UnusedInv, IdsFit, Running
  <2>4. DoneFits(l, listeners[l])
    BY <1>1, <2>1 DEF RestInv, CertJobs, Running
  <2>5. listeners[l].refs = config.backs[l]
    BY <1>1, <2>1 DEF UnusedInv, RulesFit
  <2>6. InForce(l)
    BY <1>1, <2>1 DEF RestInv, ListJobs
  <2>7. AclInForce(l)
    BY <2>6 DEF InForce, AclInForce
  <2>8. l \in Tls => {listeners[l].default} \cup listeners[l].extras = {x.id : x \in ToSet(pass.certs[l])}
    BY <2>4 DEF DoneFits, CertsOn
  <2> QED
    BY <2>2, <2>3, <2>4, <2>5, <2>7, <2>8 DEF Described, DoneFits, cfg
<1>3. ASSUME NEW l \in Listener \ DOMAIN config.ls, listeners[l] # None
      PROVE  config.commonReuse /\ listeners[l].desc = "user"
  <2>1. Disposed(l)
    BY <1>1, <1>3 DEF UnusedInv, OthersGo, Running
  <2>2. config.commonReuse /\ listeners[l].desc # AutoDesc
    BY <1>3, <2>1 DEF Disposed
  <2> QED
    BY <1>1, <1>3, <2>2 DEF RestInv, DescFits
<1>4. PICK w : w = WantedGroups(config)
  OBVIOUS
<1>5. /\ \A g \in Group : groups[g] # None <=> g \in w
      /\ \A g \in w : groups[g].attr = config.sgp
  BY <1>1, <1>4 DEF RestInv, GroupJobs, Running
<1>6. \A l \in DOMAIN config.ls : AclInForce(l)'
  BY <1>2 DEF AclInForce
<1> QED
  BY <1>2, <1>3, <1>4, <1>5, <1>6 DEF InSync

\* The end of a pass
LEMMA RestEnds ==
  ASSUME Known, Sensible, Moves, PassEnds
  PROVE  RestInv'
<1>1. /\ pass.pc = "post" /\ pass.todo = {} /\ listeners' = listeners /\ acls' = acls /\ groups' = groups
      /\ config' = config
  BY DEF PassEnds, Through, cloud
<1>2. Shapes /\ RestInv /\ Apart
  BY DEF Known, Sensible
<1>3. CASE Fail
  <2>1. Stops
    BY <1>1, <1>3 DEF Fail, Stops
  <2> QED
    BY <1>2, <2>1, RestStops
<1>4. CASE ~Fail
  <2>1. PICK c, d : c = pass.cfg /\ d = pass.certs
    OBVIOUS
  <2>2. ~pass.err /\ dirty' = dirty /\ pass' = [Idle EXCEPT !.cfg = c, !.certs = d]
    BY <1>4, <2>1 DEF PassEnds, cfg
  <2>3. pass'.pc = "idle" /\ pass'.cfg = pass.cfg /\ pass'.certs = pass.certs
    BY <2>1, <2>2 DEF Idle
  <2>4. Aware' /\ CertsHead' /\ IdsThere'
    BY <1>1, <1>2, <2>2, <2>3 DEF RestInv, Aware, CertsHead, IdsThere
  <2>5. CertJobs' /\ ListJobs' /\ GroupJobs'
    BY <2>3 DEF CertJobs, ListJobs, GroupJobs, Running, Working
  <2>6. ListsExist' /\ DescFits' /\ GroupsShape'
    BY <1>1, <1>2 DEF RestInv, ListsExist, DescFits, GroupsShape
  <2>7. QuietInSync'
    <3>1. CASE dirty
      BY <2>2, <3>1 DEF QuietInSync, Quiet
    <3>2. CASE ~dirty
      <4>1. pass.cfg = config
        BY <1>2, <3>2 DEF RestInv, Aware
      <4>2. InSync'
        BY <1>1, <2>2, <2>3, <4>1, EndsInSync
      <4> QED
        BY <1>1, <2>3, <4>1, <4>2 DEF QuietInSync
    <3> QED
      BY <3>1, <3>2
  <2> QED
    BY <2>4, <2>5, <2>6, <2>7 DEF RestInv
<1> QED
  BY <1>3, <1>4

\* A pass starts with the AlbConfig there is, or fails.
LEMMA RestBuilt ==
  ASSUME Known, Sensible, Moves, NEW ok \in BOOLEAN, Build(ok)
  PROVE  RestInv'
<1>1. /\ listeners' = listeners /\ acls' = acls /\ groups' = groups /\ config' = config
  BY DEF Build
<1>2. Shapes /\ RestInv /\ Apart
  BY DEF Known, Sensible
<1>3. CASE Fail
  <2>1. Stops
    BY <1>1, <1>3 DEF Fail, Stops
  <2> QED
    BY <1>2, <2>1, RestStops
<1>4. CASE ~Fail
  <2>1. PICK t, c, d : pass' = [Idle EXCEPT !.pc = "secrets", !.cfg = c, !.todo = t, !.certs = d] /\ c = config
    BY <1>4, Zenon DEF Build
  <2>2. pass'.pc = "secrets" /\ pass'.cfg = config
    BY <2>1 DEF Idle
  <2>3. Aware' /\ IdsThere' /\ QuietInSync'
    BY <1>1, <2>2 DEF Aware, IdsThere, QuietInSync, Quiet
  <2>4. CertsHead' /\ DescFits'
    BY HeadStep, DescStep DEF Known, Sensible, RestInv
  <2>5. CertJobs' /\ ListJobs' /\ GroupJobs'
    BY <2>2 DEF CertJobs, ListJobs, GroupJobs, Running, Working
  <2>6. ListsExist' /\ GroupsShape'
    BY <1>1, <1>2 DEF RestInv, ListsExist, GroupsShape
  <2> QED
    BY <2>3, <2>4, <2>5, <2>6 DEF RestInv
<1> QED
  BY <1>3, <1>4

\* Every step keeps what is known of a pass and of the load balancer at rest.
LEMMA RestNext ==
  ASSUME Known, Sensible, Moves, [Next]_vars
  PROVE  RestInv'
<1>1. Shapes /\ RestInv /\ Apart
  BY DEF Known, Sensible
<1>2. CASE \/ CacheExpires \/ \E c \in Config : ChangeConfig(c)
           \/ \E x \in Upload : UploadCertificate(x)
           \/ UNCHANGED vars
  <2>1. Outside
    BY <1>2 DEF CacheExpires, ChangeConfig, UploadCertificate, vars, cloud, Outside
  <2> QED
    BY <1>1, <2>1, RestOutside
<1>3. CASE Restart
  <2>1. Stops
    BY <1>3 DEF Restart, Stops
  <2> QED
    BY <1>1, <2>1, RestStops
<1>4. ASSUME NEW ok \in BOOLEAN,
             \/ ListServerGroups(ok) \/ GroupsCreated
             \/ \E x \in Secrets : CreateSSLCertificateWithName(x, ok)
             \/ \E g \in Group :
                  \/ CreateALBServerGroup(g, ok) \/ addServerToServerGroup(g, ok)
                  \/ RollBackServerGroup(g, ok) \/ UpdateALBServerGroup(g, ok)
                  \/ removeServerFromServerGroup(g, ok)
      PROVE  RestInv'
  <2>1. Stops \/ (Preparation /\ GroupsShape' /\ GroupJobs')
    BY <1>1, <1>4, SecretsKeep, GroupsListed, GroupsMade, GroupsReady, GroupsUpdated
  <2> QED
    BY <1>1, <2>1, RestStops, RestPrepared
<1>5. ASSUME NEW ok \in BOOLEAN,
             \/ ListListeners(ok) \/ ListenersCreated \/ ListenersUpdated \/ ListenersDeleted
             \/ AclsApplied \/ RulesApplied
      PROVE  RestInv'
  <2>1. Stops \/ Follows
    BY <1>1, <1>5, TurnKept
  <2> QED
    BY <1>1, <2>1, RestStops, RestListed, RestTurns DEF Follows
<1>6. ASSUME NEW ok \in BOOLEAN, NEW l \in Listener,
             \/ CreateALBListener(l, ok) \/ AssociateNew(l, ok) \/ listListenerCerts(l, ok)
             \/ AssociateExtras(l, ok) \/ DissociateExtras(l, ok)
             \/ updateListenerAttribute(l, ok) \/ DeleteALBListener(l, ok)
             \/ findListenerAclConfig(l, ok) \/ AssociateAclWithListener(l, ok)
             \/ DisassociateAclWithListener(l, ok) \/ createAcl(l, ok) \/ waitAclStatus(l, ok) \/ FillAcl(l, ok)
             \/ RelateAcl(l, ok) \/ AddAclEntries(l, ok) \/ RemoveAclEntries(l, ok)
             \/ isAssociateAclWithListener(l, ok)
             \/ ApplyRules(l, ok)
      PROVE  RestInv'
  BY <1>6, RestListener, RestDeleted, RestLists, RestRules
<1>7. CASE Pass
  <2>1. CASE ListenersCreated \/ ListenersUpdated \/ ListenersDeleted \/ AclsApplied \/ RulesApplied
             \/ GroupsCreated
    <3>1. TRUE \in BOOLEAN
      OBVIOUS
    <3> QED
      BY <1>4, <1>5, <2>1, <3>1
  <2>2. ASSUME NEW ok \in BOOLEAN,
               \/ Build(ok) \/ ListServerGroups(ok) \/ ListListeners(ok)
               \/ \E x \in Secrets : CreateSSLCertificateWithName(x, ok)
               \/ \E g \in Group :
                    \/ CreateALBServerGroup(g, ok) \/ addServerToServerGroup(g, ok)
                    \/ RollBackServerGroup(g, ok) \/ UpdateALBServerGroup(g, ok)
                    \/ removeServerFromServerGroup(g, ok) \/ DeleteALBServerGroup(g, ok)
        PROVE  RestInv'
    BY <1>4, <1>5, <2>2, RestBuilt, RestGone
  <2> QED
    BY <1>6, <1>7, <2>1, <2>2, RestEnds DEF Pass
<1> QED
  BY <1>2, <1>3, <1>7 DEF Next

\* At the start there is no pass, and the AlbConfig is in the queue.
LEMMA RestInit ==
  ASSUME Init, Sensible
  PROVE  RestInv
<1>1. pass.pc = "idle" /\ dirty /\ listeners = [l \in Listener |-> listeners[l]]
  BY IdleRecord DEF Init
<1>2. Aware /\ CertsHead /\ IdsThere /\ QuietInSync
  BY <1>1 DEF Aware, CertsHead, IdsThere, QuietInSync, Quiet
<1>3. CertJobs /\ ListJobs /\ GroupJobs
  BY <1>1 DEF CertJobs, ListJobs, GroupJobs, Running, Working
<1>4. \A l \in Listener : listeners[l] # None => listeners[l].acl = {} /\ listeners[l].desc = "user"
  BY DEF Init
<1>5. PICK y : y = [name |-> <<"user">>, entries |-> Entry]
  OBVIOUS
<1>6. AclRecord(y)
  BY <1>5 DEF Sensible, Apart, AclRecord
<1>7. acls = [a \in AclId |-> IF a \in UserAcl THEN y ELSE None]
  BY <1>5 DEF Init
<1>8. ListsExist
  BY <1>4, <1>6, <1>7, ListenersAssumption DEF ListsExist
<1>9. GroupsShape
  BY DEF Init, GroupsShape
<1> QED
  BY <1>2, <1>3, <1>4, <1>8, <1>9 DEF RestInv, DescFits

\* Whenever a pass has ended well and nothing is in the queue, the load balancer
\* has exactly the listeners, certificates, rules' server groups and default
\* actions that the AlbConfig, its Ingresses and Secrets ask for, and the
\* attributes that requests carry; lists of access control given by ID are
\* exactly those on the listener, and entries are in a list on it, to which
\* older lists may add.  This holds whatever was edited while passes ran,
\* whichever calls failed and wherever a restart cut a pass short.  Users have to keep to what the code relies on:
\* on a reused load balancer no AlbConfig gives a listener another description;
\* access control names lists of the user or gives entries, its type is not
\* changed and no two listeners share a list's name; every TLS listener has a
\* certificate, and only the first is marked as the default (albconfig.go Apply).
THEOREM ListenersInSync ==
  ASSUME Recognized, AclsSettled, FirstDefault, Certified, ListsApart, Apart
  PROVE  Spec => []QuietInSync
<1> DEFINE Others == CertsFit /\ AclInv /\ UnusedInv /\ RestInv
<1>1. Sensible
  BY DEF Sensible
<1>2. Init => Others
  <2> SUFFICES ASSUME Init PROVE Others
    OBVIOUS
  <2>1. pass.pc = "idle" /\ Touched(pass) = {}
    BY IdleRecord DEF Init, Touched, Working
  <2>2. CertsFit
    BY <2>1 DEF CertsFit
  <2>3. AclInv
    <3>1. \A l \in Listener : listeners[l] # None => listeners[l].acl = {}
      BY DEF Init
    <3> QED
      BY <2>1, <3>1 DEF AclInv, TypesFit, TypeFits, AclJobs
  <2>4. UnusedInv
    <3>1. \A l \in Listener : listeners[l] # None => Bare(listeners[l])
      BY DEF Init, Bare
    <3>2. Unlinked
      BY <2>1, <3>1 DEF Unlinked
    <3> QED
      BY <2>1, <3>2 DEF UnusedInv, IdsFit, Covered, OthersGo, RulesFit, GoneUnwanted, Running, Working
  <2> QED
    BY <1>1, <2>2, <2>3, <2>4, RestInit
<1>3. Shapes /\ CasTyped /\ Others /\ [Next]_vars => Others'
  <2> SUFFICES ASSUME Shapes, CasTyped, Others, [Next]_vars PROVE Others'
    OBVIOUS
  <2>1. Moves
    BY StepMoves
  <2>2. CertsFit'
    BY <2>1, CertsStep
  <2>3. AclInv'
    BY <2>1, AclStep
  <2>4. UnusedInv'
    BY <2>1, UnlinkedStep, IdsFitStep, CoveredStep, OthersGoStep, RulesFitStep, GoneStep DEF UnusedInv
  <2>5. RestInv'
    BY <1>1, <2>1, RestNext DEF Known
  <2> QED
    BY <2>2, <2>3, <2>4, <2>5
<1>4. Others => QuietInSync
  BY DEF RestInv
<1> QED
  BY <1>2, <1>3, <1>4, ShapesAlways, CasAlways, PTL DEF Spec
=============================================================================
