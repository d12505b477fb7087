-------------------------- MODULE AlbIngressProofs --------------------------
(***************************************************************************)
(* Proofs about AlbIngress, for any Ingresses, AlbConfigs, classes, edits  *)
(* and faults: syncIngress loses no listener of an AlbConfig, passes,      *)
(* queues and labels implement IngressRouting, and when nothing is left to *)
(* do every ALB serves what is asked of it and every address is right.     *)
(***************************************************************************)
EXTENDS AlbIngress, FiniteSetTheorems, SequenceTheorems, TLAPS

EventType == {"Create", "Update", "Ingress", "IngressDelete", "AlbConfig"}

EventSet == [type : EventType, i : Ingress, o : Object]

PassRecord(p) ==
  /\ p \in [pc : {"idle", "apply", "label"}, members : {p.members}, inactive : {p.inactive},
            listeners : {p.listeners}, label : {p.label}, missing : SUBSET Ingress,
            unnamed : BOOLEAN]
  /\ DOMAIN p.members \subseteq Ingress
  /\ \A i \in DOMAIN p.members : p.members[i] \in Object

\* A pass that has built its model applies it, with or without success.
Applies(c) == Apply(c) \/ StatusRefused(c) \/ NoDNSName(c) \/ ApplyFails(c)

ConfigRecord(a) == a = [listeners |-> a.listeners, label |-> a.label]

ConfigShape == cfg = [c \in AlbConfig |-> cfg[c]] /\ \A c \in AlbConfig : ConfigRecord(cfg[c])

Shapes ==
  /\ ing \in [Ingress -> Object \cup {None}]
  /\ seen \in [Ingress -> Object \cup {None}]
  /\ {class, storeClass, cacheClass} \subseteq [Class -> AlbConfig \cup {None, NoParams}]
  /\ cfg = [c \in AlbConfig |-> cfg[c]] /\ cfgCache = [c \in AlbConfig |-> cfgCache[c]]
  /\ \A c \in AlbConfig : ConfigRecord(cfg[c]) /\ ConfigRecord(cfgCache[c])
  /\ queue \in Seq(EventSet)
  /\ pass = [c \in AlbConfig |-> pass[c]] /\ \A c \in AlbConfig : PassRecord(pass[c])
  /\ served \in [AlbConfig -> SUBSET (Ingress \X Nat \X Port)]
  /\ history \in [Ingress -> Seq(Version \cup {None})]

\* What the caches have of the AlbConfigs is what they had once.
ListenersFit == \A c \in AlbConfig : cfgCache[c].listeners \subseteq cfg[c].listeners

\* Classes do not change but for the class alb, which is made when it is
\* missing, with the AlbConfig an Ingress without a class belongs to.
ClassesFit ==
  /\ \A k \in Class \ {Alb} : storeClass[k] = class[k] /\ cacheClass[k] = class[k]
  /\ {storeClass[Alb], cacheClass[Alb]} \subseteq {None, class[Alb]}
  /\ cacheClass[Alb] = None => class[Alb] \in {None, Default}
  /\ \A v \in Version : Attr[v].config \in {None, Default} \/ cacheClass[Attr[v].class] # None

\* Where the store and the API server are in the history of an Ingress.
ObjectFits(i) ==
  LET o == ing[i]
      s == seen[i]
      N == Len(history[i])
  IN  /\ o # None => o.n \in 1..N /\ history[i][o.n] = o.v /\ (o.deleting \/ o.n = N)
      /\ s # None => s.n \in 1..N /\ history[i][s.n] = s.v
      /\ s # None /\ o # None => s.n <= o.n /\ (s.n = o.n /\ s.deleting => o.deleting)
      /\ s # None /\ ~s.deleting /\ s.n = N => o # None /\ o.n = N /\ ~o.deleting

\* A version of i that a pass of c has loaded: it asked for c, nothing the
\* store has or will get is older, and it is the last one only if it is there.
Known(c, i, n) ==
  /\ n \in 1..Len(history[i])
  /\ history[i][n] \in Version
  /\ IsValid([v |-> history[i][n]], storeClass)
  /\ LoadGroupID(history[i][n], cacheClass) = c
  /\ seen[i] # None => n <= seen[i].n
  /\ ing[i] # None => n <= ing[i].n
  /\ n = Len(history[i]) => ing[i] # None /\ ing[i].n = n /\ ~ing[i].deleting
  /\ i \notin listing /\ seen[i] = None /\ ing[i] # None => n < ing[i].n

ServedFits(c) ==
  /\ \A r \in served[c] :
       /\ Known(c, r[1], r[2])
       /\ r[3] \in ComputeIngressListenPorts(history[r[1]][r[2]]) \cap cfgCache[c].listeners
  /\ \A r, t \in served[c] : r[1] = t[1] => r[2] = t[2]

\* A pass that is about to apply: what it drops has been replaced since, or was
\* missing from the store.
PassFits(c) ==
  LET p == pass[c]
  IN  p.pc = "apply" =>
        /\ p.listeners \subseteq cfgCache[c].listeners
        /\ \A i \in DOMAIN p.members :
             Known(c, i, p.members[i].n) /\ history[i][p.members[i].n] = p.members[i].v
        /\ \A r \in served[c] :
             /\ r[1] \in DOMAIN p.members => r[2] <= p.members[r[1]].n
             /\ \/ r[2] < Len(history[r[1]]) \/ r[1] \in p.missing
                \/ r[1] \in DOMAIN p.members /\ Routes(p, r[1]) # {}

RoutingInv ==
  /\ Shapes /\ ListenersFit /\ ClassesFit
  /\ \A i \in Ingress : ObjectFits(i)
  /\ \A c \in AlbConfig : ServedFits(c) /\ PassFits(c)

\* An Ingress that names an AlbConfig other than default by itself has a class
\* that is there from the start: MakeIngressClass would make the class alb with
\* that AlbConfig, and all Ingresses of the class would ask for another one.
ClassesNamed ==
  \A v \in Version : \A s \in Start :
    Attr[v].config \in {None, Default} \/ s.class[Attr[v].class] # None

-----------------------------------------------------------------------------
(* Classes                                                                 *)

\* The classes as a step may change them: caches catch up, and the class alb
\* is made for the AlbConfig default.
ClassesMove ==
  /\ {class', storeClass', cacheClass'} \subseteq [Class -> AlbConfig \cup {None, NoParams}]
  /\ \A k \in Class : /\ storeClass'[k] \in {storeClass[k], class[k]}
                      /\ cacheClass'[k] \in {cacheClass[k], class[k]}
  /\ \A k \in Class \ {Alb} : class'[k] = class[k]
  /\ class'[Alb] = class[Alb] \/ (class[Alb] = None /\ class'[Alb] = Default)

\* No step changes what AlbConfig a version asks for or that it is valid.
ClassesKept ==
  /\ \A k \in Class : storeClass[k] # None => storeClass'[k] # None
  /\ \A v \in Version : LoadGroupID(v, cacheClass') = LoadGroupID(v, cacheClass)

\* The classes move without a change of what is known of them.
LEMMA ClassStep ==
  ASSUME ClassesFit, ClassesMove
  PROVE  ClassesFit' /\ ClassesKept
<1> USE IngressAssumption, StartAssumption
<1>1. \A k \in Class : /\ storeClass[k] # None => storeClass'[k] # None
                       /\ cacheClass[k] # None => cacheClass'[k] = cacheClass[k]
  BY DEF ClassesFit, ClassesMove
<1>2. \A k \in Class : cacheClass[k] = None => cacheClass'[k] \in {None, Default}
  <2> SUFFICES ASSUME NEW k \in Class, cacheClass[k] = None
               PROVE  cacheClass'[k] \in {None, Default}
    OBVIOUS
  <2>1. CASE k = Alb
    BY <2>1 DEF ClassesFit, ClassesMove
  <2>2. CASE k # Alb
    BY <2>2 DEF ClassesFit, ClassesMove
  <2> QED
    BY <2>1, <2>2
<1>3. ASSUME NEW v \in Version PROVE LoadGroupID(v, cacheClass') = LoadGroupID(v, cacheClass)
  <2>1. Attr[v].class \in Class
    OBVIOUS
  <2>2. IngressClass(v, cacheClass') = IngressClass(v, cacheClass)
    BY <1>1, <1>2, <2>1 DEF IngressClass
  <2> QED
    BY <2>2 DEF LoadGroupID
<1>4. ClassesFit'
  <2>1. \A k \in Class \ {Alb} : storeClass'[k] = class'[k] /\ cacheClass'[k] = class'[k]
    BY DEF ClassesFit, ClassesMove
  <2>2. {storeClass'[Alb], cacheClass'[Alb]} \subseteq {None, class'[Alb]}
    BY DEF ClassesFit, ClassesMove
  <2>3. cacheClass'[Alb] = None => class'[Alb] \in {None, Default}
    BY DEF ClassesFit, ClassesMove
  <2>4. \A v \in Version : Attr[v].config \in {None, Default} \/ cacheClass'[Attr[v].class] # None
    <3> SUFFICES ASSUME NEW v \in Version, Attr[v].config \notin {None, Default}
                 PROVE  cacheClass'[Attr[v].class] # None
      OBVIOUS
    <3>1. Attr[v].class \in Class /\ cacheClass[Attr[v].class] # None
      BY DEF ClassesFit
    <3> QED
      BY <1>1, <3>1
  <2> QED
    BY <2>1, <2>2, <2>3, <2>4 DEF ClassesFit
<1> QED
  BY <1>1, <1>3, <1>4 DEF ClassesKept

\* The class an Ingress has in the caches or in the API server: it makes no
\* difference for its AlbConfig.
LEMMA OneGroupID ==
  ASSUME ClassesFit, NEW v \in Version
  PROVE  LoadGroupID(v, class) = LoadGroupID(v, cacheClass)
<1>1. Attr[v].class \in Class
  BY StartAssumption
<1>2. IngressClass(v, class) = IngressClass(v, cacheClass)
  <2>1. CASE Attr[v].class = Alb
    BY <2>1 DEF IngressClass, ClassesFit
  <2>2. CASE Attr[v].class # Alb
    BY <1>1, <2>2 DEF IngressClass, ClassesFit
  <2> QED
    BY <2>1, <2>2
<1> QED
  BY <1>2 DEF LoadGroupID

\* A valid Ingress stays valid when classes are added.
LEMMA StaysValid ==
  ASSUME NEW v \in Version, NEW A, NEW B, \A k \in Class : A[k] # None => B[k] # None,
         IsValid([v |-> v], A)
  PROVE  IsValid([v |-> v], B)
BY StartAssumption DEF IsValid

\* MakeIngressClass makes the class alb for the AlbConfig default.
LEMMA MakeClass ==
  ASSUME Shapes, ClassesFit, NEW v \in Version, MakeIngressClass(LoadGroupID(v, cacheClass), v)
  PROVE  /\ class' \in [Class -> AlbConfig \cup {None, NoParams}]
         /\ \A k \in Class \ {Alb} : class'[k] = class[k]
         /\ class'[Alb] = class[Alb] \/ (class[Alb] = None /\ class'[Alb] = Default)
<1>1. CASE cacheClass[Attr[v].class] = None /\ class[Alb] = None
  <2>1. LoadGroupID(v, cacheClass) = Default
    BY <1>1 DEF LoadGroupID, IngressClass, ClassesFit
  <2>2. class' = [class EXCEPT ![Alb] = Default]
    BY <1>1, <2>1 DEF MakeIngressClass
  <2> QED
    BY <1>1, <2>2, IngressAssumption DEF Shapes
<1>2. CASE ~(cacheClass[Attr[v].class] = None /\ class[Alb] = None)
  <2>1. class' = class
    BY <1>2 DEF MakeIngressClass
  <2> QED
    BY <2>1 DEF Shapes
<1> QED
  BY <1>1, <1>2

-----------------------------------------------------------------------------
(* Versions                                                                *)

HistoryGrows ==
  \A i \in Ingress : /\ Len(history[i]) <= Len(history'[i])
                     /\ \A n \in 1..Len(history[i]) : history'[i][n] = history[i][n]

\* What a pass has once loaded stays in its place in the history.
KnownKept ==
  \A c \in AlbConfig : \A i \in Ingress : \A n \in Nat : Known(c, i, n) => Known(c, i, n)'

\* What a pass knows about an Ingress stays true while the Ingress moves on.
LEMMA KnownStep ==
  ASSUME Shapes, history' \in [Ingress -> Seq(Version \cup {None})],
         NEW c \in AlbConfig, NEW i \in Ingress, NEW n \in Nat,
         Known(c, i, n), ClassesKept, HistoryGrows,
         seen'[i] # None => n <= seen'[i].n,
         ing'[i] # None => n <= ing'[i].n,
         n = Len(history'[i]) => ing'[i] # None /\ ing'[i].n = n /\ ~ing'[i].deleting,
         i \notin listing' /\ seen'[i] = None /\ ing'[i] # None => n < ing'[i].n
  PROVE  Known(c, i, n)'
<1> DEFINE v == history[i][n]
<1>1. /\ n \in 1..Len(history[i]) /\ v \in Version /\ IsValid([v |-> v], storeClass)
      /\ LoadGroupID(v, cacheClass) = c
  BY DEF Known
<1>2. Len(history[i]) \in Nat /\ Len(history'[i]) \in Nat
  BY DEF Shapes
<1>3. n \in 1..Len(history'[i]) /\ history'[i][n] = v
  BY <1>1, <1>2 DEF HistoryGrows
<1> HIDE DEF v
<1>4. IsValid([v |-> v], storeClass')
  BY <1>1, StaysValid DEF ClassesKept
<1>5. LoadGroupID(v, cacheClass') = c
  BY <1>1 DEF ClassesKept
<1> QED
  BY <1>1, <1>3, <1>4, <1>5 DEF Known

\* Routes and a pass that a step leaves alone fit as before.
LEMMA FitsKept ==
  ASSUME RoutingInv, NEW c \in AlbConfig, KnownKept, HistoryGrows,
         cfgCache[c].listeners \subseteq cfgCache'[c].listeners,
         served'[c] = served[c], pass'[c] = pass[c] \/ pass'[c].pc # "apply"
  PROVE  ServedFits(c)' /\ PassFits(c)'
<1>1. Shapes /\ ServedFits(c) /\ PassFits(c)
  BY DEF RoutingInv
<1>2. \A i \in Ingress : Len(history[i]) \in Nat
  BY <1>1 DEF Shapes
<1>3. ASSUME NEW r \in served[c]
      PROVE  /\ r[1] \in Ingress /\ r[2] \in 1..Len(history[r[1]])
             /\ Known(c, r[1], r[2])'
             /\ history'[r[1]][r[2]] = history[r[1]][r[2]]
  <2>1. r \in Ingress \X Nat \X Port
    BY <1>1 DEF Shapes
  <2>2. r[1] \in Ingress /\ r[2] \in Nat
    BY <2>1
  <2>3. Known(c, r[1], r[2])
    BY <1>1 DEF ServedFits
  <2>4. r[2] \in 1..Len(history[r[1]])
    BY <2>3 DEF Known
  <2> QED
    BY <2>2, <2>3, <2>4 DEF KnownKept, HistoryGrows
<1>4. ServedFits(c)'
  BY <1>1, <1>3 DEF ServedFits
<1>5. ASSUME pass'[c] = pass[c], pass[c].pc = "apply" PROVE PassFits(c)'
  <2> DEFINE p == pass[c]
  <2>1. PassRecord(p)
    BY <1>1 DEF Shapes
  <2>2. ASSUME NEW i \in DOMAIN p.members
        PROVE  /\ Known(c, i, p.members[i].n)'
               /\ (history[i][p.members[i].n] = p.members[i].v)'
    <3>1. PICK n : n = p.members[i].n
      OBVIOUS
    <3>2. i \in Ingress /\ n \in Nat
      BY <2>1, <3>1 DEF PassRecord, Object
    <3>3. Known(c, i, n) /\ history[i][n] = p.members[i].v
      BY <1>1, <1>5, <3>1 DEF PassFits
    <3>4. Known(c, i, n)' /\ n \in 1..Len(history[i])
      BY <3>2, <3>3 DEF KnownKept, Known
    <3>5. history'[i][n] = p.members[i].v
      BY <3>2, <3>3, <3>4 DEF HistoryGrows
    <3> QED
      BY <1>5, <3>1, <3>4, <3>5 DEF Known
  <2>3. ASSUME NEW r \in served[c]
        PROVE  /\ r[1] \in DOMAIN p.members => r[2] <= p.members[r[1]].n
               /\ \/ r[2] < Len(history'[r[1]]) \/ r[1] \in p.missing
                  \/ r[1] \in DOMAIN p.members /\ Routes(p, r[1]) # {}
    BY <1>1, <1>2, <1>3, <1>5 DEF PassFits, HistoryGrows
  <2>4. p.listeners \subseteq cfgCache'[c].listeners
    BY <1>1, <1>5 DEF PassFits
  <2>5. \A i : Routes(pass'[c], i) = Routes(p, i)
    BY <1>5 DEF Routes
  <2> QED
    BY <1>5, <2>2, <2>3, <2>4, <2>5 DEF PassFits, Routes
<1> QED
  BY <1>1, <1>4, <1>5 DEF PassFits

\* A step that changes no more of the Ingresses than address, label and
\* finalizer, and takes away only what is being deleted.
Written(i) ==
  \/ ing'[i] = None /\ (ing[i] = None \/ ing[i].deleting)
  \/ /\ ing[i] # None /\ ing'[i] # None
     /\ ing'[i].v = ing[i].v /\ ing'[i].n = ing[i].n /\ ing'[i].deleting = ing[i].deleting

\* A write of the API server leaves what the store and the lister saw alone.
LEMMA WriteStep ==
  ASSUME Shapes, UNCHANGED <<seen, listing, history>>, ClassesKept,
         \A i \in Ingress : ObjectFits(i), \A i \in Ingress : Written(i)
  PROVE  /\ \A i \in Ingress : ObjectFits(i)'
         /\ HistoryGrows /\ KnownKept
<1>1. HistoryGrows /\ \A i \in Ingress : Len(history[i]) \in Nat
  BY DEF HistoryGrows, Shapes
<1>2. ASSUME NEW i \in Ingress PROVE ObjectFits(i)'
  <2>1. ObjectFits(i) /\ Written(i)
    OBVIOUS
  <2>2. CASE ing'[i] = None
    BY <2>1, <2>2 DEF ObjectFits, Written
  <2>3. CASE ing'[i] # None
    BY <2>1, <2>3 DEF ObjectFits, Written
  <2> QED
    BY <2>2, <2>3
<1>3. ASSUME NEW c \in AlbConfig, NEW i \in Ingress, NEW n \in Nat, Known(c, i, n)
      PROVE  Known(c, i, n)'
  <2>1. Written(i)
    OBVIOUS
  <2>2. /\ seen'[i] # None => n <= seen'[i].n
        /\ ing'[i] # None => n <= ing'[i].n
        /\ n = Len(history'[i]) => ing'[i] # None /\ ing'[i].n = n /\ ~ing'[i].deleting
        /\ i \notin listing' /\ seen'[i] = None /\ ing'[i] # None => n < ing'[i].n
    BY <1>3, <2>1 DEF Known, Written
  <2>3. history' \in [Ingress -> Seq(Version \cup {None})]
    BY DEF Shapes
  <2> QED
    BY <1>1, <1>3, <2>2, <2>3, KnownStep
<1> QED
  BY <1>1, <1>2, <1>3 DEF KnownKept

\* A step that applies nothing and starts no pass.
LEMMA InvStep ==
  ASSUME RoutingInv, Shapes', ListenersFit', ClassesFit', \A i \in Ingress : ObjectFits(i)',
         KnownKept, HistoryGrows,
         \A c \in AlbConfig : /\ cfgCache[c].listeners \subseteq cfgCache'[c].listeners
                              /\ served'[c] = served[c]
                              /\ pass'[c] = pass[c] \/ pass'[c].pc # "apply"
  PROVE  RoutingInv'
<1>1. \A c \in AlbConfig : ServedFits(c)' /\ PassFits(c)'
  BY FitsKept
<1> QED
  BY <1>1 DEF RoutingInv

\* A step that leaves the classes alone keeps what is known of them.
LEMMA ClassesSame ==
  ASSUME Shapes, ClassesFit, UNCHANGED <<class, storeClass, cacheClass>>
  PROVE  ClassesFit' /\ ClassesKept
<1>1. ClassesMove
  BY DEF ClassesMove, Shapes
<1> QED
  BY <1>1, ClassStep

\* A step of the user or of an informer of Ingresses or classes.
LEMMA WorldStep ==
  ASSUME RoutingInv, UNCHANGED <<cfg, cfgCache, pass, served>>,
         ing' \in [Ingress -> Object \cup {None}], seen' \in [Ingress -> Object \cup {None}],
         {class', storeClass', cacheClass'} \subseteq [Class -> AlbConfig \cup {None, NoParams}],
         queue' \in Seq(EventSet), history' \in [Ingress -> Seq(Version \cup {None})],
         ClassesFit', \A i \in Ingress : ObjectFits(i)', KnownKept, HistoryGrows
  PROVE  RoutingInv'
<1>1. Shapes /\ ListenersFit
  BY DEF RoutingInv
<1>2. Shapes'
  <2>1. \A c \in AlbConfig : PassRecord(pass[c])' /\ ConfigRecord(cfg[c])' /\ ConfigRecord(cfgCache[c])'
    BY <1>1 DEF Shapes, PassRecord, ConfigRecord
  <2> QED
    BY <1>1, <2>1 DEF Shapes
<1>3. ListenersFit'
  BY <1>1 DEF ListenersFit
<1> QED
  BY <1>2, <1>3, InvStep

\* The Ingress of an edit, a creation or a deletion has a longer history.
LEMMA HistoryStep ==
  ASSUME Shapes, NEW i \in Ingress, NEW v \in Version \cup {None},
         history' = [history EXCEPT ![i] = Append(@, v)]
  PROVE  /\ history' \in [Ingress -> Seq(Version \cup {None})] /\ HistoryGrows
         /\ \A j \in Ingress \ {i} : history'[j] = history[j]
         /\ Len(history'[i]) = Len(history[i]) + 1 /\ Len(history[i]) \in Nat
         /\ history'[i][Len(history[i]) + 1] = v
<1>1. history[i] \in Seq(Version \cup {None}) /\ history'[i] = Append(history[i], v)
      /\ \A j \in Ingress \ {i} : history'[j] = history[j]
  BY DEF Shapes
<1>2. /\ Append(history[i], v) \in Seq(Version \cup {None})
      /\ Len(Append(history[i], v)) = Len(history[i]) + 1 /\ Len(history[i]) \in Nat
      /\ \A n \in 1..Len(history[i]) : Append(history[i], v)[n] = history[i][n]
      /\ Append(history[i], v)[Len(history[i]) + 1] = v
  BY <1>1, AppendProperties
<1>3. history' \in [Ingress -> Seq(Version \cup {None})]
  BY <1>2 DEF Shapes
<1>4. HistoryGrows
  <2> SUFFICES ASSUME NEW j \in Ingress
               PROVE  /\ Len(history[j]) <= Len(history'[j])
                      /\ \A n \in 1..Len(history[j]) : history'[j][n] = history[j][n]
    BY DEF HistoryGrows
  <2>1. Len(history[j]) \in Nat
    BY DEF Shapes
  <2> QED
    BY <1>1, <1>2, <2>1
<1> QED
  BY <1>1, <1>2, <1>3, <1>4

\* A user's step: an Ingress gets a new version at the end of its history, or
\* is deleted.
LEMMA UserStep ==
  ASSUME RoutingInv, NEW i \in Ingress, NEW v \in Version \cup {None}, NEW o \in Object \cup {None},
         ing' = [ing EXCEPT ![i] = o], history' = [history EXCEPT ![i] = Append(@, v)],
         \/ o = None
         \/ o # None /\ v # None /\ o.v = v /\ o.n = Len(history[i]) + 1
            /\ (seen[i] = None \/ ing[i] # None)
         \/ o # None /\ ing[i] # None /\ o.v = ing[i].v /\ o.n = ing[i].n /\ o.deleting,
         UNCHANGED <<seen, listing, class, storeClass, cacheClass, cfg, cfgCache, queue, pass, served>>
  PROVE  RoutingInv'
<1> DEFINE N == Len(history[i])
<1>1. Shapes /\ ClassesFit /\ \A j \in Ingress : ObjectFits(j)
  BY DEF RoutingInv
<1>2. /\ history' \in [Ingress -> Seq(Version \cup {None})] /\ HistoryGrows
      /\ \A j \in Ingress \ {i} : history'[j] = history[j]
      /\ Len(history'[i]) = N + 1 /\ N \in Nat
      /\ history'[i][N + 1] = v
  BY <1>1, HistoryStep
<1>3. ClassesFit' /\ ClassesKept
  BY <1>1, ClassesSame
<1>4. /\ ing' \in [Ingress -> Object \cup {None}] /\ ing'[i] = o
      /\ \A j \in Ingress \ {i} : ing'[j] = ing[j]
  BY <1>1 DEF Shapes
<1>5. ASSUME NEW j \in Ingress PROVE ObjectFits(j)'
  <2>1. CASE j # i
    BY <1>1, <1>2, <1>4, <2>1 DEF ObjectFits
  <2>2. CASE j = i
    <3>1. ObjectFits(i) /\ \A n \in 1..N : history'[i][n] = history[i][n]
      BY <1>1, <1>2 DEF HistoryGrows
    <3>2. /\ o # None => o.n \in Nat
          /\ seen[i] # None => seen[i].n \in 1..N
      BY <3>1 DEF Object, ObjectFits
    <3>3. CASE o = None
      BY <1>2, <1>4, <2>2, <3>1, <3>2, <3>3 DEF ObjectFits
    <3>4. CASE /\ o # None /\ v # None /\ o.v = v /\ o.n = N + 1
               /\ seen[i] = None \/ ing[i] # None
      BY <1>2, <1>4, <2>2, <3>1, <3>2, <3>4 DEF ObjectFits
    <3>5. CASE o # None /\ ing[i] # None /\ o.v = ing[i].v /\ o.n = ing[i].n /\ o.deleting
      BY <1>2, <1>4, <2>2, <3>1, <3>2, <3>5 DEF ObjectFits
    <3> QED
      BY <3>3, <3>4, <3>5
  <2> QED
    BY <2>1, <2>2
<1>6. KnownKept
  <2> SUFFICES ASSUME NEW c \in AlbConfig, NEW j \in Ingress, NEW n \in Nat, Known(c, j, n)
               PROVE  Known(c, j, n)'
    BY DEF KnownKept
  <2>1. /\ seen'[j] # None => n <= seen'[j].n
        /\ ing'[j] # None => n <= ing'[j].n
        /\ n = Len(history'[j]) => ing'[j] # None /\ ing'[j].n = n /\ ~ing'[j].deleting
        /\ j \notin listing' /\ seen'[j] = None /\ ing'[j] # None => n < ing'[j].n
    <3>1. CASE j # i
      BY <1>2, <1>4, <3>1 DEF Known
    <3>2. CASE j = i
      BY <1>2, <1>4, <3>2 DEF Known
    <3> QED
      BY <3>1, <3>2
  <2> QED
    BY <1>1, <1>2, <1>3, <2>1, KnownStep
<1> QED
  BY <1>1, <1>2, <1>3, <1>4, <1>5, <1>6, WorldStep DEF Shapes

\* The user creates, edits or deletes an Ingress.
LEMMA UserSteps ==
  ASSUME RoutingInv, NEW i \in Ingress, EditIngress(i) \/ DeleteIngress(i) \/ CreateIngress(i)
  PROVE  RoutingInv'
<1>1. Shapes
  BY DEF RoutingInv
<1>2. CASE EditIngress(i)
  <2>1. PICK e \in Edit : /\ ing' = [ing EXCEPT ![i].v = e[2], ![i].n = Len(history[i]) + 1]
                          /\ history' = [history EXCEPT ![i] = Append(@, e[2])]
    BY <1>2 DEF EditIngress
  <2>2. /\ ing[i] # None /\ ing[i] \in Object /\ e[2] \in Version /\ e[2] # None
        /\ Len(history[i]) + 1 \in Nat
    <3>1. e[2] \in Version
      BY IngressAssumption
    <3>2. e[2] # None
      BY <3>1, StartAssumption
    <3>3. ing[i] # None /\ ing[i] \in Object
      BY <1>1, <1>2 DEF EditIngress, Shapes
    <3>4. Len(history[i]) + 1 \in Nat
      BY <1>1 DEF Shapes
    <3> QED
      BY <3>1, <3>2, <3>3, <3>4
  <2> DEFINE o == [ing[i] EXCEPT !.v = e[2], !.n = Len(history[i]) + 1]
  <2>3. o \in Object /\ o.v = e[2] /\ o.n = Len(history[i]) + 1
    BY <2>2 DEF Object
  <2>4. ing' = [ing EXCEPT ![i] = o]
    BY <1>1, <2>1 DEF Shapes
  <2> HIDE DEF o
  <2>5. o # None
    BY <2>3, StartAssumption
  <2> QED
    BY <1>2, <2>1, <2>2, <2>3, <2>4, <2>5, UserStep DEF EditIngress
<1>3. CASE DeleteIngress(i)
  <2>1. /\ ing' = [ing EXCEPT ![i] = IF @.fin THEN [@ EXCEPT !.deleting = TRUE] ELSE None]
        /\ history' = [history EXCEPT ![i] = Append(@, None)]
        /\ ing[i] # None /\ ing[i] \in Object
    BY <1>1, <1>3 DEF DeleteIngress, Shapes
  <2> DEFINE d == [ing[i] EXCEPT !.deleting = TRUE]
             o == IF ing[i].fin THEN d ELSE None
  <2>2. d \in Object /\ d.v = ing[i].v /\ d.n = ing[i].n /\ d.deleting
    BY <2>1 DEF Object
  <2>3. ing' = [ing EXCEPT ![i] = o] /\ o \in Object \cup {None}
    BY <1>1, <2>1, <2>2 DEF Shapes
  <2> HIDE DEF d
  <2>4. d # None
    BY <2>2, StartAssumption
  <2> QED
    BY <1>3, <2>1, <2>2, <2>3, <2>4, UserStep DEF DeleteIngress
<1>4. CASE CreateIngress(i)
  <2>1. PICK v \in Fresh : /\ ing' = [ing EXCEPT ![i] = New(v, FALSE, Len(history[i]) + 1)]
                           /\ history' = [history EXCEPT ![i] = Append(@, v)]
    BY <1>4 DEF CreateIngress
  <2> DEFINE o == New(v, FALSE, Len(history[i]) + 1)
  <2>2. v \in Version /\ v # None /\ Len(history[i]) + 1 \in Nat
    BY <1>1, StartAssumption DEF Shapes
  <2>3. o \in Object /\ o.v = v /\ o.n = Len(history[i]) + 1
    BY <2>2 DEF Object, New
  <2> HIDE DEF o
  <2>4. o # None
    BY <2>3, StartAssumption
  <2>5. ing' = [ing EXCEPT ![i] = o]
    BY <2>1 DEF o
  <2> QED
    BY <1>4, <2>1, <2>2, <2>3, <2>4, <2>5, UserStep DEF CreateIngress
<1> QED
  BY <1>2, <1>3, <1>4

-----------------------------------------------------------------------------
(* Informers and syncIngress                                               *)

\* The handlers send events about the Ingress as it was or is.
LEMMA EventsSeq ==
  ASSUME NEW i \in Ingress, NEW old \in Object \cup {None}, NEW new \in Object \cup {None}
  PROVE  IngressEvents(i, old, new) \in Seq(EventSet)
<1>1. \A o \in Object : \A t \in EventType : Event(t, i, o) \in EventSet
  BY DEF Event, EventSet
<1>2. <<>> \in Seq(EventSet) /\ \A e \in EventSet : <<e>> \in Seq(EventSet)
  OBVIOUS
<1>3. \A q, r \in Seq(EventSet) : q \o r \in Seq(EventSet)
  OBVIOUS
<1> DEFINE was == old # None /\ IsValid(old, storeClass)
           is  == new # None /\ IsValid(new, storeClass)
<1>4. CASE was /\ ~is
  <2>1. IngressEvents(i, old, new) = <<Event("IngressDelete", i, old)>>
    BY <1>4 DEF IngressEvents
  <2> QED
    BY <1>1, <1>2, <1>4, <2>1 DEF EventType
<1>5. CASE was /\ is
  <2> DEFINE first == IF IsIngressClassUpdate(old, new) THEN <<Event("AlbConfig", i, old)>> ELSE <<>>
             last  == <<Event("Update", i, new)>>
  <2>1. IngressEvents(i, old, new) = first \o last
    BY <1>5 DEF IngressEvents
  <2>2. first \in Seq(EventSet) /\ last \in Seq(EventSet)
    <3>1. Event("AlbConfig", i, old) \in EventSet /\ Event("Update", i, new) \in EventSet
      BY <1>1, <1>5 DEF EventType
    <3> QED
      BY <1>2, <3>1
  <2> HIDE DEF first, last
  <2> QED
    BY <1>3, <2>1, <2>2
<1>6. CASE ~was /\ is
  <2>1. IngressEvents(i, old, new) = <<Event(IF old = None THEN "Create" ELSE "Update", i, new)>>
    BY <1>6 DEF IngressEvents
  <2>2. Event(IF old = None THEN "Create" ELSE "Update", i, new) \in EventSet
    BY <1>1, <1>6 DEF EventType
  <2> QED
    BY <1>2, <2>1, <2>2
<1>7. CASE ~was /\ ~is
  <2>1. IngressEvents(i, old, new) = <<>>
    BY <1>7 DEF IngressEvents
  <2> QED
    BY <1>2, <2>1
<1> QED
  BY <1>4, <1>5, <1>6, <1>7

\* The store's informer delivers an Ingress.
LEMMA SeeStep ==
  ASSUME RoutingInv, NEW i \in Ingress, SeeIngress(i)
  PROVE  RoutingInv'
<1>1. Shapes /\ ClassesFit /\ \A j \in Ingress : ObjectFits(j)
  BY DEF RoutingInv
<1>2. /\ seen' = [seen EXCEPT ![i] = ing[i]] /\ queue' = queue \o IngressEvents(i, seen[i], ing[i])
      /\ UNCHANGED <<ing, listing, class, storeClass, cacheClass, cfg, cfgCache, pass, served, history>>
  BY DEF SeeIngress, user
<1>3. queue' \in Seq(EventSet)
  <2>1. IngressEvents(i, seen[i], ing[i]) \in Seq(EventSet) /\ queue \in Seq(EventSet)
    BY <1>1, EventsSeq DEF Shapes
  <2> QED
    BY <1>2, <2>1
<1>4. ClassesFit' /\ ClassesKept
  BY <1>1, <1>2, ClassesSame
<1>5. /\ seen' \in [Ingress -> Object \cup {None}] /\ seen'[i] = ing[i]
      /\ \A j \in Ingress \ {i} : seen'[j] = seen[j]
  BY <1>1, <1>2 DEF Shapes
<1>6. HistoryGrows /\ \A j \in Ingress : Len(history[j]) \in Nat
  BY <1>1, <1>2 DEF HistoryGrows, Shapes
<1>7. ASSUME NEW j \in Ingress PROVE ObjectFits(j)'
  <2>1. CASE j # i
    BY <1>1, <1>2, <1>5, <2>1 DEF ObjectFits
  <2>2. CASE j = i
    <3>1. ObjectFits(i) /\ ing[i] \in Object \cup {None}
      BY <1>1 DEF Shapes
    <3>2. ing[i] # None => ing[i].n \in Nat
      BY <3>1 DEF Object
    <3> QED
      BY <1>2, <1>5, <2>2, <3>1, <3>2 DEF ObjectFits
  <2> QED
    BY <2>1, <2>2
<1>8. KnownKept
  <2> SUFFICES ASSUME NEW c \in AlbConfig, NEW j \in Ingress, NEW n \in Nat, Known(c, j, n)
               PROVE  Known(c, j, n)'
    BY DEF KnownKept
  <2>1. /\ seen'[j] # None => n <= seen'[j].n
        /\ ing'[j] # None => n <= ing'[j].n
        /\ n = Len(history'[j]) => ing'[j] # None /\ ing'[j].n = n /\ ~ing'[j].deleting
        /\ j \notin listing' /\ seen'[j] = None /\ ing'[j] # None => n < ing'[j].n
    <3>1. CASE j # i
      BY <1>2, <1>5, <3>1 DEF Known
    <3>2. CASE j = i
      BY <1>2, <1>5, <3>2 DEF Known
    <3> QED
      BY <3>1, <3>2
  <2>2. history' \in [Ingress -> Seq(Version \cup {None})]
    BY <1>1, <1>2 DEF Shapes
  <2> QED
    BY <1>1, <1>4, <1>6, <2>1, <2>2, KnownStep
<1> QED
  BY <1>1, <1>2, <1>3, <1>4, <1>5, <1>6, <1>7, <1>8, WorldStep DEF Shapes

\* The Ingresses are as before, or written.
LEMMA ClassWorld ==
  ASSUME RoutingInv, ClassesMove, queue' \in Seq(EventSet),
         UNCHANGED <<ing, seen, listing, cfg, cfgCache, pass, served, history>>
  PROVE  RoutingInv'
<1>1. Shapes /\ ClassesFit /\ \A j \in Ingress : ObjectFits(j)
  BY DEF RoutingInv
<1>2. ClassesFit' /\ ClassesKept
  BY <1>1, ClassStep
<1>3. \A i \in Ingress : Written(i)
  BY DEF Written
<1>4. (\A i \in Ingress : ObjectFits(i)') /\ HistoryGrows /\ KnownKept
  BY <1>1, <1>2, <1>3, WriteStep
<1> QED
  BY <1>1, <1>2, <1>4, WorldStep DEF Shapes, ClassesMove

\* The informers deliver an IngressClass.
LEMMA ClassSteps ==
  ASSUME RoutingInv, NEW k \in Class, SeeClass(k) \/ CacheClass(k)
  PROVE  RoutingInv'
<1>1. Shapes
  BY DEF RoutingInv
<1>2. CASE SeeClass(k)
  <2>1. /\ storeClass' = [storeClass EXCEPT ![k] = class[k]]
        /\ UNCHANGED <<ing, seen, listing, class, cacheClass, cfg, cfgCache, pass, served, history>>
    BY <1>2 DEF SeeClass, user
  <2>2. PICK order \in [1..Cardinality(Impacted(k)) -> Impacted(k)] :
          /\ \A i \in Impacted(k) : \E n \in DOMAIN order : order[n] = i
          /\ queue' = queue \o [n \in DOMAIN order |-> Event("Ingress", order[n], seen[order[n]])]
    BY <1>2 DEF SeeClass
  <2>3. ClassesMove
    BY <1>1, <2>1 DEF ClassesMove, Shapes
  <2>4. Cardinality(Impacted(k)) \in Nat
    <3>1. Impacted(k) \subseteq Ingress
      BY DEF Impacted
    <3> QED
      BY <3>1, FS_CardinalityType, FS_Subset, StartAssumption
  <2>5. [n \in DOMAIN order |-> Event("Ingress", order[n], seen[order[n]])] \in Seq(EventSet)
    <3>1. ASSUME NEW n \in DOMAIN order PROVE Event("Ingress", order[n], seen[order[n]]) \in EventSet
      <4>1. order[n] \in Ingress /\ seen[order[n]] \in Object
        BY <1>1 DEF Impacted, Shapes
      <4> QED
        BY <4>1 DEF Event, EventSet, EventType
    <3>2. DOMAIN order = 1..Cardinality(Impacted(k))
      OBVIOUS
    <3> DEFINE q == [n \in DOMAIN order |-> Event("Ingress", order[n], seen[order[n]])]
    <3>3. q \in [1..Cardinality(Impacted(k)) -> EventSet]
      BY <3>1, <3>2
    <3> HIDE DEF q
    <3> QED
      BY <2>4, <3>3 DEF q
  <2>6. queue' \in Seq(EventSet)
    BY <1>1, <2>2, <2>5 DEF Shapes
  <2> QED
    BY <2>1, <2>3, <2>6, ClassWorld
<1>3. CASE CacheClass(k)
  <2>1. /\ cacheClass' = [cacheClass EXCEPT ![k] = class[k]]
        /\ UNCHANGED <<ing, seen, listing, class, storeClass, cfg, cfgCache, pass, served, history, queue>>
    BY <1>3 DEF CacheClass, user
  <2>2. ClassesMove
    BY <1>1, <2>1 DEF ClassesMove, Shapes
  <2>3. queue' \in Seq(EventSet)
    BY <1>1, <2>1 DEF Shapes
  <2> QED
    BY <2>1, <2>2, <2>3, ClassWorld
<1> QED
  BY <1>2, <1>3

\* A step that changes classes, AlbConfigs, queues and what passes write into
\* the Ingresses, and starts none.
LEMMA ControlStep ==
  ASSUME RoutingInv, UNCHANGED <<seen, listing, history, served>>,
         ing' \in [Ingress -> Object \cup {None}], \A i \in Ingress : Written(i),
         ClassesMove, queue' \in Seq(EventSet),
         cfg' = [c \in AlbConfig |-> cfg'[c]], cfgCache' = [c \in AlbConfig |-> cfgCache'[c]],
         pass' = [c \in AlbConfig |-> pass'[c]],
         \A c \in AlbConfig :
           /\ ConfigRecord(cfg[c])' /\ ConfigRecord(cfgCache[c])' /\ PassRecord(pass[c])'
           /\ cfgCache[c].listeners \subseteq cfgCache'[c].listeners
           /\ cfgCache'[c].listeners \subseteq cfg'[c].listeners
           /\ pass'[c] = pass[c] \/ pass'[c].pc # "apply"
  PROVE  RoutingInv'
<1>1. Shapes /\ ClassesFit /\ \A j \in Ingress : ObjectFits(j)
  BY DEF RoutingInv
<1>2. ClassesFit' /\ ClassesKept
  BY <1>1, ClassStep
<1>3. (\A i \in Ingress : ObjectFits(i)') /\ HistoryGrows /\ KnownKept
  BY <1>1, <1>2, WriteStep
<1>4. Shapes'
  BY <1>1 DEF Shapes, ClassesMove
<1>5. ListenersFit'
  BY DEF ListenersFit
<1> QED
  BY <1>2, <1>3, <1>4, <1>5, InvStep

\* The same for steps that leave the passes and the Ingresses alone.
LEMMA ConfigStep ==
  ASSUME RoutingInv, UNCHANGED <<ing, seen, listing, class, storeClass, cacheClass, history,
                                 served, pass>>,
         queue' \in Seq(EventSet),
         cfg' = [c \in AlbConfig |-> cfg'[c]], cfgCache' = [c \in AlbConfig |-> cfgCache'[c]],
         \A c \in AlbConfig :
           /\ ConfigRecord(cfg[c])' /\ ConfigRecord(cfgCache[c])'
           /\ cfgCache[c].listeners \subseteq cfgCache'[c].listeners
           /\ cfgCache'[c].listeners \subseteq cfg'[c].listeners
  PROVE  RoutingInv'
<1>1. Shapes
  BY DEF RoutingInv
<1>2. ClassesMove /\ \A i \in Ingress : Written(i)
  BY <1>1 DEF ClassesMove, Shapes, Written
<1>3. \A c \in AlbConfig : PassRecord(pass[c])'
  BY <1>1 DEF Shapes, PassRecord
<1> QED
  BY <1>1, <1>2, <1>3, ControlStep DEF Shapes

\* The cache shows an AlbConfig, or a listener is added to it.
LEMMA ConfigSteps ==
  ASSUME RoutingInv, NEW c \in AlbConfig, CacheAlbConfig(c) \/ AddListener(c)
  PROVE  RoutingInv'
<1>1. Shapes /\ ListenersFit
  BY DEF RoutingInv
<1>2. \A d \in AlbConfig : ConfigRecord(cfg[d]) /\ ConfigRecord(cfgCache[d])
  BY <1>1 DEF Shapes
<1>3. CASE CacheAlbConfig(c)
  <2>1. cfgCache' = [cfgCache EXCEPT ![c] = cfg[c]] /\ cfg' = cfg
    BY <1>3 DEF CacheAlbConfig
  <2>2. /\ cfgCache' = [d \in AlbConfig |-> cfgCache'[d]] /\ cfgCache'[c] = cfg[c]
        /\ \A d \in AlbConfig \ {c} : cfgCache'[d] = cfgCache[d]
    BY <1>1, <2>1 DEF Shapes
  <2>3. ASSUME NEW d \in AlbConfig
        PROVE  /\ ConfigRecord(cfg[d])' /\ ConfigRecord(cfgCache[d])'
               /\ cfgCache[d].listeners \subseteq cfgCache'[d].listeners
               /\ cfgCache'[d].listeners \subseteq cfg'[d].listeners
    BY <1>1, <1>2, <2>1, <2>2 DEF ConfigRecord, ListenersFit
  <2> QED
    BY <1>1, <1>3, <2>1, <2>2, <2>3, ConfigStep DEF CacheAlbConfig, user, Shapes
<1>4. CASE AddListener(c)
  <2>1. PICK p : cfg' = [cfg EXCEPT ![c].listeners = @ \cup {p}]
    BY <1>4 DEF AddListener
  <2>2. /\ cfg' = [d \in AlbConfig |-> cfg'[d]] /\ cfg'[c] = [cfg[c] EXCEPT !.listeners = @ \cup {p}]
        /\ \A d \in AlbConfig \ {c} : cfg'[d] = cfg[d]
        /\ cfgCache' = cfgCache
    BY <1>1, <1>4, <2>1 DEF Shapes, AddListener
  <2>3. cfg'[c] = [listeners |-> cfg[c].listeners \cup {p}, label |-> cfg[c].label]
    BY <1>2, <2>2 DEF ConfigRecord
  <2>4. ASSUME NEW d \in AlbConfig
        PROVE  /\ ConfigRecord(cfg[d])' /\ ConfigRecord(cfgCache[d])'
               /\ cfgCache[d].listeners \subseteq cfgCache'[d].listeners
               /\ cfgCache'[d].listeners \subseteq cfg'[d].listeners
    BY <1>1, <1>2, <2>2, <2>3 DEF ConfigRecord, ListenersFit
  <2> QED
    BY <1>1, <1>4, <2>2, <2>4, ConfigStep DEF AddListener, Shapes
<1> QED
  BY <1>3, <1>4

\* The AlbConfig as syncIngress leaves it: the update is refused unless the
\* cache was up to date.
LEMMA MergeStep ==
  ASSUME ConfigShape, NEW c, UpdateAccepted(c),
         cfg' = [cfg EXCEPT ![c].listeners = cfgCache[c].listeners \cup GroupPorts(c)]
  PROVE  /\ cfg' = [d \in AlbConfig |-> cfg'[d]]
         /\ \A d \in AlbConfig : ConfigRecord(cfg'[d]) /\ cfg[d].listeners \subseteq cfg'[d].listeners
<1>1. cfg = [d \in AlbConfig |-> cfg[d]] /\ \A d \in AlbConfig : ConfigRecord(cfg[d])
  BY DEF ConfigShape
<1>2. CASE c \in AlbConfig
  <2> DEFINE ports == cfgCache[c].listeners \cup GroupPorts(c)
  <2>1. /\ cfg' = [d \in AlbConfig |-> cfg'[d]] /\ cfg'[c] = [cfg[c] EXCEPT !.listeners = ports]
        /\ \A d \in AlbConfig \ {c} : cfg'[d] = cfg[d]
    BY <1>1, <1>2
  <2>2. cfg[c].listeners \subseteq ports
    BY DEF UpdateAccepted
  <2> HIDE DEF ports
  <2>3. cfg'[c] = [listeners |-> ports, label |-> cfg[c].label]
    BY <1>1, <1>2, <2>1 DEF ConfigRecord
  <2> QED
    BY <1>1, <2>1, <2>2, <2>3 DEF ConfigRecord
<1>3. CASE c \notin AlbConfig
  <2>1. cfg' = cfg
    BY <1>1, <1>3
  <2> QED
    BY <1>1, <2>1
<1> QED
  BY <1>2, <1>3

\* The worker of syncQueue
LEMMA SyncSteps ==
  ASSUME RoutingInv, Sync
  PROVE  RoutingInv'
<1>1. Shapes /\ ListenersFit /\ ClassesFit
  BY DEF RoutingInv
<1>2. queue # <<>> /\ queue \in Seq(EventSet)
  BY <1>1 DEF Sync, SyncSkip, SyncRetry, SyncIngress, Shapes
<1>3. Head(queue) \in EventSet /\ Tail(queue) \in Seq(EventSet) /\ Append(Tail(queue), Head(queue)) \in Seq(EventSet)
  <2>1. Head(queue) \in EventSet /\ Tail(queue) \in Seq(EventSet)
    BY <1>2
  <2> QED
    BY <2>1
<1>4. queue' \in Seq(EventSet)
  BY <1>3 DEF Sync, SyncSkip, SyncRetry, SyncIngress
<1>5. \A d \in AlbConfig : /\ ConfigRecord(cfg[d]) /\ ConfigRecord(cfgCache[d])
                           /\ cfgCache[d].listeners \subseteq cfg[d].listeners
  BY <1>1 DEF Shapes, ListenersFit
<1>6. CASE SyncSkip
  <2>1. UNCHANGED <<ing, seen, listing, class, storeClass, cacheClass, history, served, pass, cfg, cfgCache>>
    BY <1>6 DEF SyncSkip, user
  <2>2. \A d \in AlbConfig : ConfigRecord(cfg[d])' /\ ConfigRecord(cfgCache[d])'
    BY <1>5, <2>1 DEF ConfigRecord
  <2> QED
    BY <1>1, <1>4, <1>5, <2>1, <2>2, ConfigStep DEF Shapes
<1> DEFINE e == Head(queue)
           c == LoadGroupID(e.o.v, cacheClass)
<1>7. e.o \in Object /\ e.o.v \in Version
  BY <1>3 DEF EventSet, Object
<1> HIDE DEF e
<1>8. \A d \in AlbConfig : PassRecord(pass[d])
  BY <1>1 DEF Shapes
<1>9. CASE SyncRetry
  <2>1. /\ UNCHANGED <<ing, seen, listing, storeClass, cacheClass, history, served, pass, cfg, cfgCache>>
        /\ class' = class \/ MakeIngressClass(c, e.o.v)
    BY <1>9 DEF SyncRetry, e
  <2>2. ClassesMove
    <3>1. /\ class' \in [Class -> AlbConfig \cup {None, NoParams}]
          /\ \A k \in Class \ {Alb} : class'[k] = class[k]
          /\ class'[Alb] = class[Alb] \/ (class[Alb] = None /\ class'[Alb] = Default)
      BY <1>1, <1>7, <2>1, MakeClass DEF Shapes
    <3> QED
      BY <1>1, <2>1, <3>1 DEF Shapes, ClassesMove
  <2>3. \A i \in Ingress : Written(i)
    BY <2>1 DEF Written
  <2>4. \A d \in AlbConfig : ConfigRecord(cfg[d])' /\ ConfigRecord(cfgCache[d])' /\ PassRecord(pass[d])'
    BY <1>5, <1>8, <2>1 DEF ConfigRecord, PassRecord
  <2> QED
    BY <1>1, <1>4, <1>5, <2>1, <2>2, <2>3, <2>4, ControlStep DEF Shapes
<1>10. CASE SyncIngress
  <2>1. /\ UNCHANGED <<seen, listing, storeClass, cacheClass, history, served, pass, cfgCache>>
        /\ UpdateAccepted(c) /\ MakeIngressClass(c, e.o.v)
        /\ cfg' = [cfg EXCEPT ![c].listeners = cfgCache[c].listeners \cup GroupPorts(c)]
        /\ RemoveIngressLabel(e.i) \/ ing' = ing
    BY <1>10 DEF SyncIngress, Syncs, e
  <2>2. ClassesMove
    <3>1. /\ class' \in [Class -> AlbConfig \cup {None, NoParams}]
          /\ \A k \in Class \ {Alb} : class'[k] = class[k]
          /\ class'[Alb] = class[Alb] \/ (class[Alb] = None /\ class'[Alb] = Default)
      BY <1>1, <1>7, <2>1, MakeClass
    <3> QED
      BY <1>1, <2>1, <3>1 DEF Shapes, ClassesMove
  <2>3. ing' \in [Ingress -> Object \cup {None}] /\ \A i \in Ingress : Written(i)
    <3>1. CASE ing' = ing
      BY <1>1, <3>1 DEF Shapes, Written
    <3>2. CASE RemoveIngressLabel(e.i)
      <4>1. \A o \in Object : /\ [o EXCEPT !.label = None] \in Object
                              /\ [o EXCEPT !.label = None].v = o.v
                              /\ [o EXCEPT !.label = None].n = o.n
                              /\ [o EXCEPT !.label = None].deleting = o.deleting
        BY DEF Object
      <4>2. ASSUME NEW i \in Ingress
            PROVE  ing'[i] = ing[i] \/ (ing[i] \in Object /\ ing'[i] = [ing[i] EXCEPT !.label = None])
        <5>1. ing'[i] = IF i = e.i THEN IF ing[i] = None THEN None ELSE [ing[i] EXCEPT !.label = None]
                        ELSE ing[i]
          BY <1>1, <3>2 DEF RemoveIngressLabel, Shapes
        <5>2. ing[i] \in Object \cup {None}
          BY <1>1 DEF Shapes
        <5> QED
          BY <5>1, <5>2
      <4>3. ing' = [i \in Ingress |-> ing'[i]]
        <5>1. PICK x : ing' = [ing EXCEPT ![e.i] = x]
          BY <3>2 DEF RemoveIngressLabel
        <5> QED
          BY <1>1, <5>1 DEF Shapes
      <4>4. \A i \in Ingress : ing[i] \in Object \cup {None}
        BY <1>1 DEF Shapes
      <4>5. None \notin Object
        BY StartAssumption
      <4>6. ASSUME NEW i \in Ingress PROVE ing'[i] \in Object \cup {None} /\ Written(i)
        <5>1. CASE ing'[i] = ing[i]
          BY <4>4, <5>1 DEF Written
        <5>2. CASE ing[i] \in Object /\ ing'[i] = [ing[i] EXCEPT !.label = None]
          <6>1. /\ ing'[i] \in Object /\ ing'[i].v = ing[i].v /\ ing'[i].n = ing[i].n
                /\ ing'[i].deleting = ing[i].deleting
            BY <4>1, <5>2
          <6> QED
            BY <4>5, <5>2, <6>1 DEF Written
        <5> QED
          BY <4>2, <5>1, <5>2
      <4> QED
        BY <4>3, <4>6
    <3> QED
      BY <2>1, <3>1, <3>2
  <2>4. /\ cfg' = [d \in AlbConfig |-> cfg'[d]]
        /\ \A d \in AlbConfig : ConfigRecord(cfg'[d]) /\ cfg[d].listeners \subseteq cfg'[d].listeners
    <3> HIDE DEF c
    <3>1. ConfigShape
      BY <1>1 DEF Shapes, ConfigShape
    <3> QED
      BY <2>1, <3>1, MergeStep
  <2>5. \A d \in AlbConfig : ConfigRecord(cfg[d])' /\ ConfigRecord(cfgCache[d])' /\ PassRecord(pass[d])'
    BY <1>5, <1>8, <2>1, <2>4 DEF ConfigRecord, PassRecord
  <2>6. \A d \in AlbConfig : cfgCache'[d].listeners \subseteq cfg'[d].listeners
    BY <1>5, <2>1, <2>4
  <2>7. cfgCache' = [d \in AlbConfig |-> cfgCache'[d]] /\ pass' = [d \in AlbConfig |-> pass'[d]]
    BY <1>1, <2>1 DEF Shapes
  <2> QED
    BY <1>4, <2>1, <2>2, <2>3, <2>4, <2>5, <2>6, <2>7, ControlStep
<1> QED
  BY <1>6, <1>9, <1>10 DEF Sync

-----------------------------------------------------------------------------
(* Passes of the reconciler                                                *)

\* Address, label and finalizer may be written without the version changing.
LEMMA WrittenFields ==
  ASSUME NEW o \in Object, NEW p,
         \/ \E x \in (Version \X BOOLEAN) \cup {None} : p = [o EXCEPT !.label = x]
         \/ \E x \in AlbConfig : p = [o EXCEPT !.host = x]
         \/ p = [o EXCEPT !.fin = FALSE]
         \/ p = o
  PROVE  p \in Object /\ p.v = o.v /\ p.n = o.n /\ p.deleting = o.deleting
BY DEF Object

\* RemoveGroupFinalizer takes away only what is being deleted.
LEMMA Unfinalized ==
  ASSUME NEW o \in [Ingress -> Object \cup {None}], NEW inactive
  PROVE  /\ RemoveGroupFinalizer(o, inactive) \in [Ingress -> Object \cup {None}]
         /\ \A i \in Ingress :
              \/ RemoveGroupFinalizer(o, inactive)[i] = o[i]
              \/ /\ o[i] \in Object /\ o[i].deleting
                 /\ RemoveGroupFinalizer(o, inactive)[i] = None
              \/ /\ o[i] \in Object
                 /\ RemoveGroupFinalizer(o, inactive)[i] = [o[i] EXCEPT !.fin = FALSE]
<1> DEFINE R == RemoveGroupFinalizer(o, inactive)
<1>1. R = [i \in Ingress |-> R[i]]
  BY DEF RemoveGroupFinalizer
<1>2. ASSUME NEW i \in Ingress
      PROVE  /\ R[i] \in Object \cup {None}
             /\ \/ R[i] = o[i]
                \/ o[i] \in Object /\ o[i].deleting /\ R[i] = None
                \/ o[i] \in Object /\ R[i] = [o[i] EXCEPT !.fin = FALSE]
  <2>1. \/ R[i] = o[i]
        \/ o[i] \in Object /\ o[i].deleting /\ R[i] = None
        \/ o[i] \in Object /\ R[i] = [o[i] EXCEPT !.fin = FALSE]
    BY DEF RemoveGroupFinalizer
  <2> HIDE DEF R
  <2>2. o[i] \in Object => [o[i] EXCEPT !.fin = FALSE] \in Object
    BY DEF Object
  <2> QED
    BY <2>1, <2>2
<1> HIDE DEF R
<1>3. R \in [Ingress -> Object \cup {None}]
  BY <1>1, <1>2
<1> QED
  BY <1>2, <1>3 DEF R

\* t is what a pass writes: the Ingresses as they are but for labels and addresses.
PassText(t) ==
  /\ t = [i \in Ingress |-> t[i]]
  /\ \A i \in Ingress :
       \/ t[i] = ing[i]
       \/ ing[i] \in Object /\ \E x \in (Version \X BOOLEAN) \cup {None} : t[i] = [ing[i] EXCEPT !.label = x]
       \/ ing[i] \in Object /\ \E x \in AlbConfig : t[i] = [ing[i] EXCEPT !.host = x]

\* Ingresses written by a pass and then rid of their finalizers.
LEMMA PassWrites ==
  ASSUME Shapes, NEW inactive, NEW t, PassText(t),
         ing' = t \/ ing' = RemoveGroupFinalizer(t, inactive)
  PROVE  ing' \in [Ingress -> Object \cup {None}] /\ \A i \in Ingress : Written(i)
<1>1. None \notin Object /\ \A i \in Ingress : ing[i] \in Object \cup {None}
  BY StartAssumption DEF Shapes
<1>2. ASSUME NEW i \in Ingress
      PROVE  \/ ing[i] = None /\ t[i] = None
             \/ /\ ing[i] \in Object /\ t[i] \in Object /\ t[i].v = ing[i].v /\ t[i].n = ing[i].n
                /\ t[i].deleting = ing[i].deleting
  <2>1. CASE ing[i] \in Object
    BY <2>1, WrittenFields DEF PassText
  <2>2. CASE ing[i] = None
    BY <1>1, <2>2 DEF PassText
  <2> QED
    BY <1>1, <2>1, <2>2
<1>3. t \in [Ingress -> Object \cup {None}]
  BY <1>2 DEF PassText
<1>4. CASE ing' = t
  <2>1. ASSUME NEW i \in Ingress PROVE Written(i)
    BY <1>1, <1>2, <1>4 DEF Written
  <2> QED
    BY <1>3, <1>4, <2>1
<1>5. CASE ing' = RemoveGroupFinalizer(t, inactive)
  <2>1. /\ ing' \in [Ingress -> Object \cup {None}]
        /\ \A i \in Ingress :
             \/ ing'[i] = t[i]
             \/ t[i] \in Object /\ t[i].deleting /\ ing'[i] = None
             \/ t[i] \in Object /\ ing'[i] = [t[i] EXCEPT !.fin = FALSE]
    BY <1>3, <1>5, Unfinalized
  <2>2. ASSUME NEW i \in Ingress PROVE Written(i)
    <3>1. CASE t[i] = None
      BY <1>1, <1>2, <2>1, <3>1 DEF Written
    <3>2. CASE t[i] \in Object /\ ing'[i] = None /\ t[i].deleting
      BY <1>1, <1>2, <3>2 DEF Written
    <3>3. CASE t[i] \in Object /\ (ing'[i] = t[i] \/ ing'[i] = [t[i] EXCEPT !.fin = FALSE])
      <4>1. /\ ing'[i] \in Object /\ ing'[i].v = t[i].v /\ ing'[i].n = t[i].n
            /\ ing'[i].deleting = t[i].deleting
        BY <3>3, WrittenFields
      <4> QED
        BY <1>1, <1>2, <3>3, <4>1 DEF Written
    <3> QED
      BY <1>2, <2>1, <3>1, <3>2, <3>3
  <2> QED
    BY <2>1, <2>2
<1> QED
  BY <1>4, <1>5

\* The end of a pass.
LEMMA FinishStep ==
  ASSUME RoutingInv, NEW c \in AlbConfig, Finish(c)
  PROVE  RoutingInv'
<1> DEFINE p == pass[c]
           there == {i \in DOMAIN p.members : seen[i] # None /\ ing[i] # None}
           L(s) == [i \in Ingress |-> IF i \in s THEN AddIngressLabel(ing[i], seen[i]) ELSE ing[i]]
<1>1. Shapes /\ ListenersFit /\ PassRecord(p)
  BY DEF RoutingInv, Shapes
<1>2. \A d \in AlbConfig : /\ ConfigRecord(cfg[d]) /\ ConfigRecord(cfgCache[d]) /\ PassRecord(pass[d])
                           /\ cfgCache[d].listeners \subseteq cfg[d].listeners
  BY <1>1 DEF Shapes, ListenersFit
<1>3. /\ UNCHANGED <<seen, listing, class, storeClass, cacheClass, history, served, cfgCache, queue>>
      /\ pass' = [pass EXCEPT ![c] = Idle]
      /\ cfg' = cfg \/ cfg' = [cfg EXCEPT ![c].label = p.listeners]
      /\ \E s \in SUBSET there : ing' = RemoveGroupFinalizer(L(s), p.inactive)
  BY DEF Finish, user
<1>4. ing' \in [Ingress -> Object \cup {None}] /\ \A i \in Ingress : Written(i)
  <2>1. PICK s \in SUBSET there : ing' = RemoveGroupFinalizer(L(s), p.inactive)
    BY <1>3
  <2> DEFINE t == L(s)
  <2>2. t = [i \in Ingress |-> t[i]]
    OBVIOUS
  <2>3. ASSUME NEW i \in Ingress
        PROVE  \/ t[i] = ing[i]
               \/ ing[i] \in Object /\ \E x \in (Version \X BOOLEAN) \cup {None} : t[i] = [ing[i] EXCEPT !.label = x]
    <3>1. CASE i \in s
      <4>1. ing[i] \in Object /\ seen[i] \in Object
        BY <1>1, <3>1 DEF Shapes
      <4>2. Hash(seen[i]) \in Version \X BOOLEAN
        BY <4>1 DEF Hash, Object
      <4>3. t[i] = AddIngressLabel(ing[i], seen[i])
        BY <3>1
      <4> QED
        BY <4>1, <4>2, <4>3 DEF AddIngressLabel
    <3>2. CASE i \notin s
      BY <3>2
    <3> QED
      BY <3>1, <3>2
  <2>4. ing' = RemoveGroupFinalizer(t, p.inactive)
    BY <2>1
  <2>5. PICK u, inactive : u = t /\ inactive = p.inactive
    OBVIOUS
  <2> HIDE DEF t, p
  <2>6. PassText(u)
    BY <2>2, <2>3, <2>5 DEF PassText
  <2>7. ing' = RemoveGroupFinalizer(u, inactive)
    BY <2>4, <2>5
  <2> QED
    BY <1>1, <2>6, <2>7, PassWrites
<1>5. PassRecord(Idle) /\ Idle.pc = "idle"
  BY DEF PassRecord, Idle
<1>6. /\ pass' = [d \in AlbConfig |-> pass'[d]] /\ pass'[c] = Idle
      /\ \A d \in AlbConfig \ {c} : pass'[d] = pass[d]
  BY <1>1, <1>3 DEF Shapes
<1>7. /\ cfg' = [d \in AlbConfig |-> cfg'[d]]
      /\ \A d \in AlbConfig : ConfigRecord(cfg'[d]) /\ cfg'[d].listeners = cfg[d].listeners
  <2>1. CASE cfg' = cfg
    BY <1>1, <1>2, <2>1 DEF Shapes
  <2>2. CASE cfg' = [cfg EXCEPT ![c].label = p.listeners]
    <3>1. /\ cfg' = [d \in AlbConfig |-> cfg'[d]] /\ cfg'[c] = [cfg[c] EXCEPT !.label = p.listeners]
          /\ \A d \in AlbConfig \ {c} : cfg'[d] = cfg[d]
      BY <1>1, <2>2 DEF Shapes
    <3>2. cfg'[c] = [listeners |-> cfg[c].listeners, label |-> p.listeners]
      BY <1>2, <3>1 DEF ConfigRecord
    <3> QED
      BY <1>2, <3>1, <3>2 DEF ConfigRecord
  <2> QED
    BY <1>3, <2>1, <2>2
<1>8. ASSUME NEW d \in AlbConfig
      PROVE  /\ ConfigRecord(cfg[d])' /\ ConfigRecord(cfgCache[d])' /\ PassRecord(pass[d])'
             /\ cfgCache[d].listeners \subseteq cfgCache'[d].listeners
             /\ cfgCache'[d].listeners \subseteq cfg'[d].listeners
             /\ pass'[d] = pass[d] \/ pass'[d].pc # "apply"
  <2>1. PassRecord(pass'[d])
    BY <1>2, <1>5, <1>6
  <2> QED
    BY <1>2, <1>3, <1>5, <1>6, <1>7, <2>1 DEF ConfigRecord, PassRecord
<1>9. ClassesMove /\ queue' \in Seq(EventSet) /\ cfgCache' = [d \in AlbConfig |-> cfgCache'[d]]
  BY <1>1, <1>3 DEF ClassesMove, Shapes
<1> QED
  BY <1>3, <1>4, <1>6, <1>7, <1>8, <1>9, ControlStep

\* The model builder routes by the versions the pass has loaded, on those of
\* their ports the AlbConfig listens on.
LEMMA BuildRoutes ==
  ASSUME NEW p, PassRecord(p), NEW r \in Build(p)
  PROVE  /\ r[1] \in DOMAIN p.members /\ r[2] = p.members[r[1]].n
         /\ r[3] \in ComputeIngressListenPorts(p.members[r[1]].v) \cap p.listeners
         /\ r \in Ingress \X Nat \X Port
<1>1. PICK i \in DOMAIN p.members : r \in Routes(p, i)
  BY DEF Build
<1>2. PICK q \in ComputeIngressListenPorts(p.members[i].v) \cap p.listeners : r = <<i, p.members[i].n, q>>
  BY <1>1 DEF Routes
<1>3. i \in Ingress /\ p.members[i].n \in Nat /\ p.members[i].v \in Version
  BY DEF PassRecord, Object
<1>4. q \in Port
  <2>1. ComputeIngressListenPorts(p.members[i].v) \in {ComputeIngressListenPorts(v) : v \in Version}
    BY <1>3
  <2> QED
    BY <1>2, <2>1 DEF Port
<1> QED
  BY <1>2, <1>3, <1>4

\* The rules of a group are applied, all of them or those of some Ingresses.
LEMMA ServeStep ==
  ASSUME RoutingInv, NEW c \in AlbConfig, pass[c].pc = "apply", NEW done,
         served' = [served EXCEPT ![c] = {r \in Build(pass[c]) : r[1] \in done}
                                           \cup {r \in served[c] : r[1] \notin done}],
         ing' \in [Ingress -> Object \cup {None}], \A i \in Ingress : Written(i),
         pass' = [d \in AlbConfig |-> pass'[d]], PassRecord(pass'[c]), pass'[c].pc # "apply",
         \A d \in AlbConfig \ {c} : pass'[d] = pass[d],
         UNCHANGED <<seen, listing, class, storeClass, cacheClass, cfg, cfgCache, queue, history>>
  PROVE  RoutingInv'
<1> DEFINE p == pass[c]
<1>1. /\ Shapes /\ ListenersFit /\ ClassesFit /\ ServedFits(c) /\ PassFits(c)
      /\ \A i \in Ingress : ObjectFits(i)
  BY DEF RoutingInv
<1>2. PassRecord(p) /\ \A d \in AlbConfig : PassRecord(pass[d])
  BY <1>1 DEF Shapes
<1>3. ClassesFit' /\ ClassesKept
  BY <1>1, ClassesSame
<1>4. (\A i \in Ingress : ObjectFits(i)') /\ HistoryGrows /\ KnownKept
  BY <1>1, <1>3, WriteStep
<1>5. /\ served' = [d \in AlbConfig |-> served'[d]]
      /\ served'[c] = {r \in Build(p) : r[1] \in done} \cup {r \in served[c] : r[1] \notin done}
      /\ \A d \in AlbConfig \ {c} : served'[d] = served[d]
  BY <1>1 DEF Shapes
<1>6. ASSUME NEW r \in Build(p)
      PROVE  /\ r \in Ingress \X Nat \X Port /\ r[1] \in DOMAIN p.members /\ r[2] = p.members[r[1]].n
             /\ Known(c, r[1], r[2])'
             /\ r[3] \in ComputeIngressListenPorts(history[r[1]][r[2]]) \cap cfgCache[c].listeners
  <2>1. /\ r[1] \in DOMAIN p.members /\ r[2] = p.members[r[1]].n
        /\ r[3] \in ComputeIngressListenPorts(p.members[r[1]].v) \cap p.listeners
        /\ r \in Ingress \X Nat \X Port
    <3>1. PICK q : q = p
      OBVIOUS
    <3> HIDE DEF p
    <3>2. PassRecord(q) /\ r \in Build(q)
      BY <1>2, <3>1
    <3> QED
      BY <3>1, <3>2, BuildRoutes
  <2>2. /\ Known(c, r[1], r[2]) /\ history[r[1]][r[2]] = p.members[r[1]].v
        /\ p.listeners \subseteq cfgCache[c].listeners
    BY <1>1, <2>1 DEF PassFits
  <2>3. r[1] \in Ingress /\ r[2] \in Nat
    BY <2>1
  <2> QED
    BY <1>4, <2>1, <2>2, <2>3 DEF KnownKept
<1>7. ASSUME NEW r \in served[c]
      PROVE  /\ r \in Ingress \X Nat \X Port
             /\ Known(c, r[1], r[2])'
             /\ r[3] \in ComputeIngressListenPorts(history[r[1]][r[2]]) \cap cfgCache[c].listeners
  <2>1. r \in Ingress \X Nat \X Port
    BY <1>1 DEF Shapes
  <2>2. r[1] \in Ingress /\ r[2] \in Nat
    BY <2>1
  <2> QED
    BY <1>1, <1>4, <2>1, <2>2 DEF ServedFits, KnownKept
<1>8. served'[c] \in SUBSET (Ingress \X Nat \X Port)
  BY <1>5, <1>6, <1>7
<1>9. ServedFits(c)'
  <2>1. ASSUME NEW r \in served'[c]
        PROVE  /\ Known(c, r[1], r[2])'
               /\ r[3] \in ComputeIngressListenPorts(history'[r[1]][r[2]]) \cap cfgCache'[c].listeners
    BY <1>5, <1>6, <1>7
  <2>2. ASSUME NEW r \in served'[c], NEW t \in served'[c], r[1] = t[1]
        PROVE  r[2] = t[2]
    <3>1. CASE r[1] \in done
      <4>1. r \in Build(p) /\ t \in Build(p)
        BY <1>5, <2>2, <3>1
      <4> QED
        BY <1>6, <2>2, <4>1
    <3>2. CASE r[1] \notin done
      <4>1. r \in served[c] /\ t \in served[c]
        BY <1>5, <2>2, <3>2
      <4> QED
        BY <1>1, <2>2, <4>1 DEF ServedFits
    <3> QED
      BY <3>1, <3>2
  <2> QED
    BY <2>1, <2>2 DEF ServedFits
<1>10. \A d \in AlbConfig \ {c} : ServedFits(d)' /\ PassFits(d)'
  BY <1>4, <1>5, FitsKept
<1>11. Shapes'
  <2>1. served' \in [AlbConfig -> SUBSET (Ingress \X Nat \X Port)]
    <3>1. \A d \in AlbConfig \ {c} : served'[d] \in SUBSET (Ingress \X Nat \X Port)
      BY <1>1, <1>5 DEF Shapes
    <3> QED
      BY <1>5, <1>8, <3>1
  <2>2. \A d \in AlbConfig : ConfigRecord(cfg[d])' /\ ConfigRecord(cfgCache[d])'
    BY <1>1 DEF Shapes, ConfigRecord
  <2>3. \A d \in AlbConfig : PassRecord(pass[d])'
    <3>1. \A d \in AlbConfig : PassRecord(pass'[d])
      BY <1>2
    <3> QED
      BY <3>1 DEF PassRecord
  <2> QED
    BY <1>1, <2>1, <2>2, <2>3 DEF Shapes
<1>12. ListenersFit'
  BY <1>1 DEF ListenersFit
<1>13. PassFits(c)'
  BY DEF PassFits
<1> QED
  BY <1>3, <1>4, <1>9, <1>10, <1>11, <1>12, <1>13 DEF RoutingInv

\* What is applied by a pass that succeeds, fails or is not built at all.
LEMMA Applied ==
  ASSUME Shapes, NEW c \in AlbConfig, Applies(c)
  PROVE  \E done \in SUBSET Ingress :
           served' = [served EXCEPT ![c] = {r \in Build(pass[c]) : r[1] \in done}
                                             \cup {r \in served[c] : r[1] \notin done}]
<1>1. PassRecord(pass[c]) /\ served[c] \in SUBSET (Ingress \X Nat \X Port)
  BY DEF Shapes
<1>2. CASE Apply(c) \/ StatusRefused(c) \/ NoDNSName(c)
  <2>1. served' = [served EXCEPT ![c] = Build(pass[c])]
    BY <1>2 DEF Apply, StatusRefused, NoDNSName
  <2>2. PICK q : q = pass[c]
    OBVIOUS
  <2>3. \A r \in Build(q) : r \in Ingress \X Nat \X Port
    BY <1>1, <2>2, BuildRoutes
  <2>4. \A r \in Build(pass[c]) : r[1] \in Ingress
    BY <2>2, <2>3
  <2>5. Build(pass[c]) = {r \in Build(pass[c]) : r[1] \in Ingress} \cup {r \in served[c] : r[1] \notin Ingress}
    BY <1>1, <2>4
  <2> QED
    BY <2>1, <2>5
<1>3. CASE ApplyFails(c) /\ UNCHANGED served
  <2>1. served[c] = {r \in Build(pass[c]) : r[1] \in {}} \cup {r \in served[c] : r[1] \notin {}}
    OBVIOUS
  <2>2. served' = [served EXCEPT ![c] = served[c]]
    BY <1>3 DEF Shapes
  <2>3. served' = [served EXCEPT ![c] = {r \in Build(pass[c]) : r[1] \in {}} \cup {r \in served[c] : r[1] \notin {}}]
    BY <2>1, <2>2
  <2>4. {} \in SUBSET Ingress
    OBVIOUS
  <2> QED
    BY <2>3, <2>4
<1>4. CASE ApplyFails(c) /\ ~UNCHANGED served
  BY <1>4 DEF ApplyFails
<1> QED
  BY <1>2, <1>3, <1>4 DEF Applies

\* A pass applies the model it built, or fails to.
LEMMA ApplySteps ==
  ASSUME RoutingInv, NEW c \in AlbConfig, Applies(c)
  PROVE  RoutingInv'
<1> DEFINE p == pass[c]
<1>1. Shapes /\ PassRecord(p)
  BY DEF RoutingInv, Shapes
<1>2. PICK done \in SUBSET Ingress :
           served' = [served EXCEPT ![c] = {r \in Build(p) : r[1] \in done}
                                             \cup {r \in served[c] : r[1] \notin done}]
  BY <1>1, Applied
<1>3. /\ UNCHANGED <<seen, listing, class, storeClass, cacheClass, cfg, cfgCache, queue, history>>
      /\ p.pc = "apply"
  BY DEF Applies, Apply, StatusRefused, NoDNSName, ApplyFails, user
<1>4. /\ PassRecord(Idle) /\ Idle.pc # "apply"
      /\ PassRecord([Idle EXCEPT !.unnamed = TRUE]) /\ [Idle EXCEPT !.unnamed = TRUE].pc # "apply"
  BY DEF PassRecord, Idle
<1>5. /\ pass' = [d \in AlbConfig |-> pass'[d]] /\ PassRecord(pass'[c]) /\ pass'[c].pc # "apply"
      /\ \A d \in AlbConfig \ {c} : pass'[d] = pass[d]
  <2>1. CASE Apply(c)
    <3>1. pass' = [pass EXCEPT ![c].pc = "label"]
      BY <2>1 DEF Apply
    <3>2. /\ pass' = [d \in AlbConfig |-> pass'[d]] /\ pass'[c] = [p EXCEPT !.pc = "label"]
          /\ \A d \in AlbConfig \ {c} : pass'[d] = pass[d]
      BY <1>1, <3>1 DEF Shapes
    <3> HIDE DEF p
    <3>3. PassRecord([p EXCEPT !.pc = "label"]) /\ [p EXCEPT !.pc = "label"].pc = "label"
      BY <1>1 DEF PassRecord
    <3> QED
      BY <3>2, <3>3
  <2>2. CASE StatusRefused(c) \/ NoDNSName(c) \/ ApplyFails(c)
    <3>1. PICK x \in {Idle, [Idle EXCEPT !.unnamed = TRUE]} : pass' = [pass EXCEPT ![c] = x]
      BY <2>2 DEF StatusRefused, NoDNSName, ApplyFails
    <3> QED
      BY <1>1, <1>4, <3>1 DEF Shapes
  <2> QED
    BY <2>1, <2>2 DEF Applies
<1>6. ing' \in [Ingress -> Object \cup {None}] /\ \A i \in Ingress : Written(i)
  <2>1. \A i \in Ingress : ing[i] \in Object \cup {None}
    BY <1>1 DEF Shapes
  <2>2. CASE Apply(c) \/ StatusRefused(c)
    <3> DEFINE t == Statuses(c)
    <3>1. /\ ing' = t \/ ing' = RemoveGroupFinalizer(t, p.inactive)
          /\ t = [i \in Ingress |-> t[i]]
      BY <2>2 DEF Apply, StatusRefused, Statuses
    <3>2. ASSUME NEW i \in Ingress
          PROVE  t[i] = ing[i] \/ (ing[i] \in Object /\ \E x \in AlbConfig : t[i] = [ing[i] EXCEPT !.host = x])
      BY <2>1 DEF UpdateStatus, Statuses
    <3>3. PICK u, inactive : u = t /\ inactive = p.inactive
      OBVIOUS
    <3> HIDE DEF t
    <3>4. PassText(u)
      BY <3>1, <3>2, <3>3 DEF PassText
    <3>5. ing' = u \/ ing' = RemoveGroupFinalizer(u, inactive)
      BY <3>1, <3>3
    <3> QED
      BY <1>1, <3>4, <3>5, PassWrites
  <2>3. CASE NoDNSName(c) \/ ApplyFails(c)
    <3>1. PICK u, inactive : u = ing /\ inactive = p.inactive
      OBVIOUS
    <3>2. ing' = RemoveGroupFinalizer(u, inactive)
      BY <2>3, <3>1 DEF NoDNSName, ApplyFails
    <3>3. PassText(u)
      BY <1>1, <3>1 DEF Shapes, PassText
    <3> QED
      BY <1>1, <3>2, <3>3, PassWrites
  <2> QED
    BY <2>2, <2>3 DEF Applies
<1> QED
  BY <1>2, <1>3, <1>5, <1>6, ServeStep

\* A member the pass loads from the store is in its place in the history.
LEMMA MemberKnown ==
  ASSUME Shapes, NEW c \in AlbConfig, NEW i \in Members(c), ObjectFits(i)
  PROVE  /\ i \in Ingress /\ seen[i] \in Object /\ seen[i] # None
         /\ Known(c, i, seen[i].n) /\ history[i][seen[i].n] = seen[i].v
<1>1. /\ i \in Ingress /\ seen[i] # None /\ IsValid(seen[i], storeClass) /\ ~seen[i].deleting
      /\ LoadGroupID(seen[i].v, cacheClass) = c
  BY DEF Members, Group, ListIngresses
<1>2. seen[i] \in Object
  BY <1>1 DEF Shapes
<1>3. seen[i].v \in Version /\ seen[i].n \in Nat
  BY <1>2 DEF Object
<1>4. seen[i].n \in 1..Len(history[i]) /\ history[i][seen[i].n] = seen[i].v
  BY <1>1 DEF ObjectFits
<1>5. IsValid([v |-> seen[i].v], storeClass)
  BY <1>1 DEF IsValid
<1>6. /\ ing[i] # None => seen[i].n <= ing[i].n
      /\ seen[i].n = Len(history[i]) => ing[i] # None /\ ing[i].n = seen[i].n /\ ~ing[i].deleting
  BY <1>1 DEF ObjectFits
<1> QED
  BY <1>1, <1>2, <1>3, <1>4, <1>5, <1>6 DEF Known

\* What is routed by its last version is loaded again, unless the handlers have
\* not stored it yet.
LEMMA LastIsMember ==
  ASSUME RoutingInv, NEW c \in AlbConfig, NEW r \in served[c],
         r[2] = Len(history[r[1]]), r[1] \notin NotStored
  PROVE  /\ r[1] \in Members(c) /\ seen[r[1]].n = r[2] /\ seen[r[1]].v = history[r[1]][r[2]]
         /\ r[3] \in ComputeIngressListenPorts(seen[r[1]].v) \cap cfgCache[c].listeners
<1> DEFINE i == r[1]
           n == r[2]
<1>1. Shapes /\ ServedFits(c)
  BY DEF RoutingInv
<1>2. i \in Ingress /\ n \in Nat
  <2>1. r \in Ingress \X Nat \X Port
    BY <1>1 DEF Shapes
  <2> QED
    BY <2>1
<1>3. /\ Known(c, i, n)
      /\ r[3] \in ComputeIngressListenPorts(history[i][n]) \cap cfgCache[c].listeners
  BY <1>1 DEF ServedFits
<1>4. ObjectFits(i) /\ n = Len(history[i])
  BY <1>2 DEF RoutingInv
<1>10. i \notin NotStored
  OBVIOUS
<1> HIDE DEF i, n
<1>5. ing[i] # None /\ ing[i].n = n /\ ~ing[i].deleting
  BY <1>3, <1>4 DEF Known
<1>6. seen[i] # None
  <2> SUFFICES ASSUME seen[i] = None PROVE FALSE
    OBVIOUS
  <2>1. i \notin listing
    BY <1>2, <1>5, <1>10 DEF NotStored
  <2>2. n < ing[i].n
    BY <1>3, <1>5, <2>1 DEF Known
  <2> QED
    BY <1>2, <1>5, <2>2
<1>7. seen[i] \in Object
  BY <1>1, <1>2, <1>6 DEF Shapes
<1>8. seen[i].n = n /\ ~seen[i].deleting /\ seen[i].v = history[i][n]
  <2>1. seen[i].n \in 1..n /\ n <= seen[i].n /\ history[i][seen[i].n] = seen[i].v
    BY <1>3, <1>4, <1>6 DEF ObjectFits, Known
  <2>2. seen[i].n = n
    BY <1>2, <2>1
  <2> QED
    BY <1>4, <1>5, <1>6, <2>1, <2>2 DEF ObjectFits
<1>9. IsValid(seen[i], storeClass) /\ LoadGroupID(seen[i].v, cacheClass) = c
  BY <1>3, <1>8 DEF Known, IsValid
<1>11. i \in Members(c)
  BY <1>2, <1>6, <1>8, <1>9 DEF Members, Group, ListIngresses
<1> QED
  BY <1>3, <1>8, <1>11 DEF i, n

\* A pass loads the Ingresses of its group from the lister and the store.
LEMMA LoadStep ==
  ASSUME RoutingInv, NEW c \in AlbConfig, LoadGroup(c)
  PROVE  RoutingInv'
<1> DEFINE p == [pc |-> "apply", members |-> [i \in Members(c) |-> seen[i]],
                 inactive |-> Inactive(c), listeners |-> cfgCache[c].listeners,
                 label |-> cfgCache[c].label, missing |-> NotStored, unnamed |-> FALSE]
<1>1. /\ Shapes /\ ListenersFit /\ ClassesFit /\ ServedFits(c)
      /\ \A i \in Ingress : ObjectFits(i)
  BY DEF RoutingInv
<1>2. /\ UNCHANGED <<ing, seen, listing, class, storeClass, cacheClass, cfg, cfgCache, queue, served, history>>
      /\ pass' = [pass EXCEPT ![c] = p]
  BY DEF LoadGroup, user
<1>3. /\ pass' = [d \in AlbConfig |-> pass'[d]] /\ pass'[c] = p
      /\ \A d \in AlbConfig \ {c} : pass'[d] = pass[d]
  BY <1>1, <1>2 DEF Shapes
<1>4. ClassesFit' /\ ClassesKept
  BY <1>1, <1>2, ClassesSame
<1>5. (\A i \in Ingress : ObjectFits(i)') /\ HistoryGrows /\ KnownKept
  <2>1. \A i \in Ingress : Written(i)
    BY <1>2 DEF Written
  <2> QED
    BY <1>1, <1>2, <1>4, <2>1, WriteStep
<1>6. ASSUME NEW i \in Members(c)
      PROVE  /\ i \in Ingress /\ seen[i] \in Object
             /\ Known(c, i, seen[i].n) /\ history[i][seen[i].n] = seen[i].v
  <2>1. i \in Ingress
    BY DEF Members, Group, ListIngresses
  <2> QED
    BY <1>1, <2>1, MemberKnown
<1>7. PICK q : q = p
  OBVIOUS
<1>8. /\ q.pc = "apply" /\ q.listeners = cfgCache[c].listeners /\ DOMAIN q.members = Members(c)
      /\ \A i \in Members(c) : q.members[i] = seen[i]
      /\ q = [pc |-> "apply", members |-> q.members, inactive |-> q.inactive, listeners |-> q.listeners,
              label |-> q.label, missing |-> NotStored, unnamed |-> FALSE]
      /\ pass'[c] = q /\ q.missing = NotStored
  BY <1>3, <1>7
<1> HIDE DEF p
<1>9. PassRecord(q)
  <2>1. q \in [pc : {"idle", "apply", "label"}, members : {q.members}, inactive : {q.inactive},
               listeners : {q.listeners}, label : {q.label}, missing : SUBSET Ingress,
               unnamed : BOOLEAN]
    <3>1. PICK m \in SUBSET Ingress, b \in BOOLEAN : m = NotStored /\ b = FALSE
      BY DEF NotStored
    <3>2. q = [pc |-> "apply", members |-> q.members, inactive |-> q.inactive,
               listeners |-> q.listeners, label |-> q.label, missing |-> m, unnamed |-> b]
      BY <1>8, <3>1
    <3> QED
      BY <3>2
  <2> QED
    BY <1>6, <1>8, <2>1 DEF PassRecord
<1>10. ASSUME NEW i \in DOMAIN q.members
       PROVE  Known(c, i, q.members[i].n)' /\ history'[i][q.members[i].n] = q.members[i].v
  <2>1. i \in Ingress /\ q.members[i].n \in Nat
    BY <1>6, <1>8 DEF Object
  <2>2. Known(c, i, q.members[i].n) /\ history[i][q.members[i].n] = q.members[i].v
    BY <1>6, <1>8
  <2> QED
    BY <1>2, <1>5, <2>1, <2>2 DEF KnownKept
<1>11. ASSUME NEW r \in served[c]
       PROVE  /\ r[1] \in DOMAIN q.members => r[2] <= q.members[r[1]].n
              /\ \/ r[2] < Len(history[r[1]]) \/ r[1] \in q.missing
                 \/ r[1] \in DOMAIN q.members /\ Routes(q, r[1]) # {}
  <2>1. r[1] \in Ingress /\ r[2] \in Nat
    <3>1. r \in Ingress \X Nat \X Port
      BY <1>1 DEF Shapes
    <3> QED
      BY <3>1
  <2>2. Known(c, r[1], r[2]) /\ r[2] \in 1..Len(history[r[1]])
    BY <1>1 DEF ServedFits, Known
  <2>3. Len(history[r[1]]) \in Nat
    BY <1>1, <2>1 DEF Shapes
  <2>4. r[1] \in DOMAIN q.members => r[2] <= q.members[r[1]].n
    <3> SUFFICES ASSUME r[1] \in Members(c) PROVE r[2] <= seen[r[1]].n
      BY <1>8
    <3>1. seen[r[1]] # None
      BY DEF Members, Group, ListIngresses
    <3> QED
      BY <2>2, <3>1 DEF Known
  <2>5. ASSUME r[2] = Len(history[r[1]]), r[1] \notin NotStored
        PROVE  r[1] \in DOMAIN q.members /\ Routes(q, r[1]) # {}
    <3>1. /\ r[1] \in Members(c)
          /\ r[3] \in ComputeIngressListenPorts(seen[r[1]].v) \cap cfgCache[c].listeners
      BY <1>2, <2>5, LastIsMember
    <3>2. <<r[1], q.members[r[1]].n, r[3]>> \in Routes(q, r[1])
      BY <1>8, <3>1 DEF Routes
    <3> QED
      BY <1>8, <3>1, <3>2
  <2> QED
    BY <1>8, <2>2, <2>3, <2>4, <2>5
<1>12. PassFits(c)'
  <2>1. q.listeners \subseteq cfgCache'[c].listeners
    BY <1>2, <1>8
  <2>2. \A r \in served'[c] :
          /\ r[1] \in DOMAIN q.members => r[2] <= q.members[r[1]].n
          /\ \/ r[2] < Len(history'[r[1]]) \/ r[1] \in q.missing
             \/ r[1] \in DOMAIN q.members /\ Routes(q, r[1]) # {}
    BY <1>2, <1>11
  <2>3. \A i \in DOMAIN q.members : \A n : n = q.members[i].n => Known(c, i, n)' /\ history'[i][n] = q.members[i].v
    BY <1>10
  <2> QED
    BY <1>8, <2>1, <2>2, <2>3 DEF PassFits, Routes
<1>13. ServedFits(c)'
  <2>1. ASSUME NEW r \in served[c] PROVE Known(c, r[1], r[2])'
    <3>1. r \in Ingress \X Nat \X Port
      BY <1>1 DEF Shapes
    <3>2. r[1] \in Ingress /\ r[2] \in Nat
      BY <3>1
    <3> QED
      BY <1>1, <1>5, <3>2 DEF ServedFits, KnownKept
  <2> QED
    BY <1>1, <1>2, <2>1 DEF ServedFits
<1>14. \A d \in AlbConfig \ {c} : ServedFits(d)' /\ PassFits(d)'
  BY <1>2, <1>3, <1>5, FitsKept
<1>15. Shapes'
  <2>1. \A d \in AlbConfig : ConfigRecord(cfg[d])' /\ ConfigRecord(cfgCache[d])'
    BY <1>1, <1>2 DEF Shapes, ConfigRecord
  <2>2. \A d \in AlbConfig : PassRecord(pass[d])'
    <3>1. \A d \in AlbConfig : PassRecord(pass'[d])
      BY <1>1, <1>3, <1>8, <1>9 DEF Shapes
    <3> QED
      BY <3>1 DEF PassRecord
  <2> QED
    BY <1>1, <1>2, <1>3, <2>1, <2>2 DEF Shapes
<1>16. ListenersFit'
  BY <1>1, <1>2 DEF ListenersFit
<1> QED
  BY <1>4, <1>5, <1>12, <1>13, <1>14, <1>15, <1>16 DEF RoutingInv

\* After a restart the store knows no Ingress, and the first list has them all.
LEMMA RestartStep ==
  ASSUME RoutingInv, Restart
  PROVE  RoutingInv'
<1>1. Shapes /\ ListenersFit /\ ClassesFit /\ \A i \in Ingress : ObjectFits(i)
  BY DEF RoutingInv
<1>2. /\ UNCHANGED <<ing, class, cfg, served, history>>
      /\ seen' = [i \in Ingress |-> None] /\ listing' = {i \in Ingress : ing[i] # None}
      /\ storeClass' = class /\ cacheClass' = class /\ cfgCache' = cfg
      /\ queue' = <<>> /\ pass' = [c \in AlbConfig |-> Idle]
  BY DEF Restart, user
<1>3. ClassesMove
  BY <1>1, <1>2 DEF Shapes, ClassesMove
<1>4. ClassesFit' /\ ClassesKept
  BY <1>1, <1>3, ClassStep
<1>5. HistoryGrows
  BY <1>1, <1>2 DEF Shapes, HistoryGrows
<1>6. KnownKept
  <2> SUFFICES ASSUME NEW c \in AlbConfig, NEW i \in Ingress, NEW n \in Nat, Known(c, i, n)
               PROVE  Known(c, i, n)'
    BY DEF KnownKept
  <2>1. /\ seen'[i] # None => n <= seen'[i].n
        /\ ing'[i] # None => n <= ing'[i].n
        /\ n = Len(history'[i]) => ing'[i] # None /\ ing'[i].n = n /\ ~ing'[i].deleting
        /\ i \notin listing' /\ seen'[i] = None /\ ing'[i] # None => n < ing'[i].n
    BY <1>2 DEF Known
  <2>2. history' \in [Ingress -> Seq(Version \cup {None})]
    BY <1>1, <1>2 DEF Shapes
  <2> QED
    BY <1>1, <1>4, <1>5, <2>1, <2>2, KnownStep
<1>7. \A i \in Ingress : ObjectFits(i)'
  BY <1>1, <1>2 DEF ObjectFits
<1>8. PassRecord(Idle) /\ Idle.pc # "apply"
  BY DEF PassRecord, Idle
<1>9. Shapes'
  <2>1. \A c \in AlbConfig : ConfigRecord(cfg[c])' /\ ConfigRecord(cfgCache[c])'
    BY <1>1, <1>2 DEF Shapes, ConfigRecord
  <2>2. \A c \in AlbConfig : PassRecord(pass[c])'
    <3>1. \A c \in AlbConfig : PassRecord(pass'[c])
      BY <1>2, <1>8
    <3> QED
      BY <3>1 DEF PassRecord
  <2>3. queue' \in Seq(EventSet)
    BY <1>2
  <2>4. seen' \in [Ingress -> Object \cup {None}]
    BY <1>2
  <2> QED
    BY <1>1, <1>2, <1>3, <2>1, <2>2, <2>3, <2>4 DEF Shapes, ClassesMove
<1>10. ListenersFit'
  BY <1>2 DEF ListenersFit
<1>11. \A c \in AlbConfig : /\ cfgCache[c].listeners \subseteq cfgCache'[c].listeners
                            /\ served'[c] = served[c] /\ pass'[c].pc # "apply"
  BY <1>1, <1>2, <1>8 DEF ListenersFit
<1> QED
  BY <1>4, <1>5, <1>6, <1>7, <1>9, <1>10, <1>11, InvStep

-----------------------------------------------------------------------------
(* The invariant                                                           *)

\* The invariant holds at first.
LEMMA RoutingInit ==
  ASSUME Init, ClassesNamed
  PROVE  RoutingInv
<1>1. PICK s \in Start :
        LET Done      == {i \in Ingress : /\ s.settled /\ s.ing[i] # None
                                          /\ IsValid(s.ing[i], s.class)}
            Group0(c) == {i \in Done : LoadGroupID(s.ing[i].v, s.class) = c}
            Ports0(c) == UNION {ComputeIngressListenPorts(s.ing[i].v) : i \in Group0(c)}
        IN /\ class = s.class /\ storeClass = class /\ cacheClass = class
           /\ ing = [i \in Ingress |->
                       IF i \notin Done THEN s.ing[i]
                       ELSE [s.ing[i] EXCEPT !.host = LoadGroupID(s.ing[i].v, s.class),
                                             !.label = Hash(s.ing[i])]]
           /\ seen = IF s.settled THEN ing ELSE [i \in Ingress |-> None]
           /\ listing = {i \in Ingress : ing[i] # None}
           /\ history = [i \in Ingress |-> IF ing[i] = None THEN <<>> ELSE <<ing[i].v>>]
           /\ cfg = [c \in AlbConfig |-> [listeners |-> Ports0(c), label |-> Ports0(c)]]
           /\ cfgCache = cfg
           /\ served = [c \in AlbConfig |->
                          UNION {{<<i, 1, q>> : q \in ComputeIngressListenPorts(s.ing[i].v)}
                                   : i \in Group0(c)}]
           /\ queue = <<>> /\ pass = [c \in AlbConfig |-> Idle]
  BY DEF Init
<1> DEFINE Done      == {i \in Ingress : s.settled /\ s.ing[i] # None /\ IsValid(s.ing[i], s.class)}
           Group0(c) == {i \in Done : LoadGroupID(s.ing[i].v, s.class) = c}
           Ports0(c) == UNION {ComputeIngressListenPorts(s.ing[i].v) : i \in Group0(c)}
<1>2. /\ class = s.class /\ storeClass = class /\ cacheClass = class
      /\ ing = [i \in Ingress |->
                  IF i \notin Done THEN s.ing[i]
                  ELSE [s.ing[i] EXCEPT !.host = LoadGroupID(s.ing[i].v, s.class),
                                        !.label = Hash(s.ing[i])]]
      /\ seen = IF s.settled THEN ing ELSE [i \in Ingress |-> None]
      /\ history = [i \in Ingress |-> IF ing[i] = None THEN <<>> ELSE <<ing[i].v>>]
  BY <1>1
<1>3. /\ cfg = [c \in AlbConfig |-> [listeners |-> Ports0(c), label |-> Ports0(c)]]
      /\ cfgCache = cfg
      /\ served = [c \in AlbConfig |->
                     UNION {{<<i, 1, q>> : q \in ComputeIngressListenPorts(s.ing[i].v)}
                              : i \in Group0(c)}]
      /\ queue = <<>> /\ pass = [c \in AlbConfig |-> Idle]
  BY <1>1
<1>4. class \in [Class -> AlbConfig \cup {None, NoParams}] /\ s.settled \in BOOLEAN
  BY <1>2, StartAssumption
<1>5. \A v \in Version : LoadGroupID(v, s.class) \in AlbConfig \cup {None, NoParams}
  BY <1>2, <1>4, StartAssumption, IngressAssumption DEF LoadGroupID, IngressClass
<1>6. ASSUME NEW i \in Ingress
      PROVE  \/ ing[i] = None /\ s.ing[i] = None /\ i \notin Done
             \/ /\ ing[i] \in Object /\ ing[i] # None /\ s.ing[i] \in Object
                /\ ing[i].v = s.ing[i].v /\ ing[i].n = 1 /\ ~ing[i].deleting
  <2>1. CASE s.ing[i] = None
    BY <1>2, <2>1
  <2>2. CASE s.ing[i] # None
    <3>1. PICK v \in Version, fin \in BOOLEAN : s.ing[i] = New(v, fin, 1)
      BY <2>2, StartAssumption
    <3>2. /\ s.ing[i] \in Object /\ s.ing[i].v = v /\ s.ing[i].n = 1 /\ ~s.ing[i].deleting
          /\ s.ing[i].v \in Version /\ s.ing[i].deleting \in BOOLEAN
      BY <3>1 DEF New, Object
    <3>3. Hash(s.ing[i]) \in (Version \X BOOLEAN) \cup {None}
      BY <3>2 DEF Hash
    <3>4. \A h \in AlbConfig \cup {None, NoParams} : \A l \in (Version \X BOOLEAN) \cup {None} :
            LET o == [s.ing[i] EXCEPT !.host = h, !.label = l]
            IN  o \in Object /\ o.v = v /\ o.n = 1 /\ ~o.deleting
      BY <3>2 DEF Object
    <3>5. \/ ing[i] = s.ing[i]
          \/ ing[i] = [s.ing[i] EXCEPT !.host = LoadGroupID(s.ing[i].v, s.class), !.label = Hash(s.ing[i])]
      BY <1>2
    <3>6. ing[i] \in Object /\ ing[i].v = v /\ ing[i].n = 1 /\ ~ing[i].deleting
      <4>1. CASE ing[i] = s.ing[i]
        BY <3>2, <4>1
      <4>2. CASE ing[i] = [s.ing[i] EXCEPT !.host = LoadGroupID(s.ing[i].v, s.class), !.label = Hash(s.ing[i])]
        <5>1. PICK h, l : h = LoadGroupID(s.ing[i].v, s.class) /\ l = Hash(s.ing[i])
          OBVIOUS
        <5>2. h \in AlbConfig \cup {None, NoParams} /\ l \in (Version \X BOOLEAN) \cup {None}
          BY <1>5, <3>2, <3>3, <5>1
        <5>3. ing[i] = [s.ing[i] EXCEPT !.host = h, !.label = l]
          BY <4>2, <5>1
        <5> QED
          BY <3>4, <5>2, <5>3
      <4> QED
        BY <3>5, <4>1, <4>2
    <3>7. None \notin Object
      BY StartAssumption
    <3> QED
      BY <3>2, <3>6, <3>7
  <2> QED
    BY <2>1, <2>2
<1>7. ASSUME NEW i \in Ingress
      PROVE  /\ history[i] \in Seq(Version \cup {None})
             /\ ing[i] # None => Len(history[i]) = 1 /\ history[i][1] = ing[i].v
             /\ seen[i] = None \/ seen[i] = ing[i]
             /\ s.settled => seen[i] = ing[i]
  <2>1. /\ history[i] = IF ing[i] = None THEN <<>> ELSE <<ing[i].v>>
        /\ seen = IF s.settled THEN ing ELSE [j \in Ingress |-> None]
    BY <1>2
  <2> HIDE DEF Done
  <2>2. (seen[i] = None \/ seen[i] = ing[i]) /\ (s.settled => seen[i] = ing[i])
    BY <2>1
  <2>3. CASE ing[i] = None
    BY <2>1, <2>2, <2>3
  <2>4. CASE ing[i] # None
    <3>1. ing[i].v \in Version
      BY <1>6, <2>4 DEF Object
    <3> QED
      BY <2>1, <2>2, <2>4, <3>1
  <2> QED
    BY <2>3, <2>4
<1>8. ASSUME NEW i \in Ingress PROVE ObjectFits(i)
  <2>1. \/ ing[i] = None
        \/ ing[i] # None /\ ing[i].n = 1 /\ ~ing[i].deleting
    BY <1>6
  <2>2. /\ ing[i] # None => Len(history[i]) = 1 /\ history[i][1] = ing[i].v
        /\ seen[i] = None \/ seen[i] = ing[i]
    BY <1>7
  <2> HIDE DEF Done
  <2>3. CASE ing[i] = None
    BY <2>2, <2>3 DEF ObjectFits
  <2>4. CASE ing[i] # None
    <3>1. ing[i].n = 1 /\ ~ing[i].deleting /\ Len(history[i]) = 1 /\ history[i][1] = ing[i].v
      BY <2>1, <2>2, <2>4
    <3>2. CASE seen[i] = None
      BY <2>4, <3>1, <3>2 DEF ObjectFits
    <3>3. CASE seen[i] = ing[i]
      BY <2>4, <3>1, <3>3 DEF ObjectFits
    <3> QED
      BY <2>2, <3>2, <3>3
  <2> QED
    BY <2>3, <2>4
<1>9. ClassesFit
  <2>1. \A v \in Version : Attr[v].config \in {None, Default} \/ s.class[Attr[v].class] # None
    BY DEF ClassesNamed
  <2> QED
    BY <1>2, <2>1 DEF ClassesFit
<1>10. ListenersFit
  BY <1>3 DEF ListenersFit
<1>11. ASSUME NEW c \in AlbConfig, NEW r \in served[c]
       PROVE  /\ r \in Ingress \X Nat \X Port /\ r[2] = 1 /\ Known(c, r[1], r[2])
              /\ r[3] \in ComputeIngressListenPorts(history[r[1]][r[2]]) \cap cfgCache[c].listeners
  <2>1. PICK i \in Group0(c) : r \in {<<i, 1, q>> : q \in ComputeIngressListenPorts(s.ing[i].v)}
    <3>1. r \in UNION {{<<i, 1, q>> : q \in ComputeIngressListenPorts(s.ing[i].v)} : i \in Group0(c)}
      BY <1>3
    <3> QED
      BY <3>1
  <2>2. PICK q \in ComputeIngressListenPorts(s.ing[i].v) : r = <<i, 1, q>>
    BY <2>1
  <2>3. /\ i \in Ingress /\ s.settled /\ s.ing[i] # None /\ IsValid(s.ing[i], s.class)
        /\ LoadGroupID(s.ing[i].v, s.class) = c /\ i \in Done
    BY <2>1
  <2>4. q \in Ports0(c)
    BY <2>1, <2>2
  <2> HIDE DEF Done, Group0, Ports0
  <2>5. /\ ing[i] \in Object /\ ing[i] # None /\ s.ing[i] \in Object
        /\ ing[i].v = s.ing[i].v /\ ing[i].n = 1 /\ ~ing[i].deleting
    BY <1>6, <2>3
  <2>6. seen[i] = ing[i] /\ Len(history[i]) = 1 /\ history[i][1] = s.ing[i].v
    BY <1>7, <2>3, <2>5
  <2>7. s.ing[i].v \in Version
    BY <2>5 DEF Object
  <2>8. IsValid([v |-> s.ing[i].v], s.class)
    BY <2>3 DEF IsValid
  <2>9. Known(c, i, 1)
    <3>1. storeClass = s.class /\ cacheClass = s.class
      BY <1>2
    <3> QED
      BY <2>3, <2>5, <2>6, <2>7, <2>8, <3>1 DEF Known
  <2>10. cfgCache[c].listeners = Ports0(c)
    BY <1>3
  <2>11. q \in Port
    <3>1. ComputeIngressListenPorts(s.ing[i].v) \in {ComputeIngressListenPorts(v) : v \in Version}
      BY <2>7
    <3> QED
      BY <2>2, <3>1 DEF Port
  <2> QED
    BY <2>2, <2>3, <2>4, <2>6, <2>9, <2>10, <2>11
<1>12. PassRecord(Idle) /\ Idle.pc # "apply"
  BY DEF PassRecord, Idle
<1>13. ASSUME NEW c \in AlbConfig PROVE ServedFits(c) /\ PassFits(c)
  <2>1. pass[c] = Idle
    BY <1>3
  <2>2. \A r \in served[c] :
          /\ r[2] = 1 /\ Known(c, r[1], r[2])
          /\ r[3] \in ComputeIngressListenPorts(history[r[1]][r[2]]) \cap cfgCache[c].listeners
    BY <1>11
  <2>3. PassFits(c)
    BY <1>12, <2>1 DEF PassFits
  <2>4. ServedFits(c)
    BY <2>2 DEF ServedFits
  <2> QED
    BY <2>3, <2>4
<1>14. Shapes
  <2>1. ing \in [Ingress -> Object \cup {None}] /\ seen \in [Ingress -> Object \cup {None}]
    <3>1. ing = [i \in Ingress |-> ing[i]] /\ seen = [i \in Ingress |-> seen[i]]
      BY <1>2, <1>4
    <3>2. \A i \in Ingress : ing[i] \in Object \cup {None} /\ seen[i] \in Object \cup {None}
      BY <1>6, <1>7
    <3> QED
      BY <3>1, <3>2
  <2>2. history \in [Ingress -> Seq(Version \cup {None})]
    <3>1. history = [i \in Ingress |-> IF ing[i] = None THEN <<>> ELSE <<ing[i].v>>]
      BY <1>2
    <3> HIDE DEF Done
    <3> QED
      BY <1>7, <3>1
  <2>3. \A c \in AlbConfig : ConfigRecord(cfg[c]) /\ ConfigRecord(cfgCache[c])
    <3> HIDE DEF Ports0
    <3> QED
      BY <1>3 DEF ConfigRecord
  <2>4. cfg = [c \in AlbConfig |-> cfg[c]] /\ cfgCache = [c \in AlbConfig |-> cfgCache[c]]
    <3> HIDE DEF Ports0
    <3> QED
      BY <1>3
  <2>5. served \in [AlbConfig -> SUBSET (Ingress \X Nat \X Port)]
    <3>1. served = [c \in AlbConfig |-> served[c]]
      BY <1>3
    <3> QED
      BY <1>11, <3>1
  <2>6. pass = [c \in AlbConfig |-> pass[c]] /\ \A c \in AlbConfig : PassRecord(pass[c])
    BY <1>3, <1>12
  <2>7. queue \in Seq(EventSet)
    BY <1>3
  <2> QED
    BY <1>2, <1>4, <2>1, <2>2, <2>3, <2>4, <2>5, <2>6, <2>7 DEF Shapes
<1> QED
  BY <1>8, <1>9, <1>10, <1>13, <1>14 DEF RoutingInv

\* Every step keeps the invariant.
LEMMA RoutingNext ==
  ASSUME RoutingInv, [Next]_vars
  PROVE  RoutingInv'
<1>1. CASE UNCHANGED vars
  <2>1. UNCHANGED <<cfg, cfgCache, pass, served, ing, seen, listing, history, class, storeClass,
                    cacheClass, queue>>
    BY <1>1 DEF vars
  <2>2. Shapes /\ ListenersFit
    BY DEF RoutingInv
  <2>3. \A c \in AlbConfig : /\ ConfigRecord(cfg[c])' /\ ConfigRecord(cfgCache[c])'
                             /\ cfgCache'[c].listeners \subseteq cfg'[c].listeners
                             /\ cfgCache[c].listeners \subseteq cfgCache'[c].listeners
    BY <2>1, <2>2 DEF Shapes, ListenersFit, ConfigRecord
  <2> QED
    BY <2>1, <2>2, <2>3, ConfigStep DEF Shapes
<1>2. ASSUME NEW i \in Ingress, SeeIngress(i) PROVE RoutingInv'
  BY <1>2, SeeStep
<1>3. ASSUME NEW k \in Class, SeeClass(k) \/ CacheClass(k) PROVE RoutingInv'
  BY <1>3, ClassSteps
<1>4. ASSUME NEW c \in AlbConfig, CacheAlbConfig(c) \/ AddListener(c) PROVE RoutingInv'
  BY <1>4, ConfigSteps
<1>5. CASE Sync
  BY <1>5, SyncSteps
<1>6. ASSUME NEW c \in AlbConfig, Pass(c) \/ NoDNSName(c) PROVE RoutingInv'
  BY <1>6, LoadStep, ApplySteps, FinishStep DEF Pass, Applies
<1>7. CASE Restart
  BY <1>7, RestartStep
<1>8. ASSUME NEW i \in Ingress, EditIngress(i) \/ DeleteIngress(i) \/ CreateIngress(i) PROVE RoutingInv'
  BY <1>8, UserSteps
<1> QED
  BY <1>1, <1>2, <1>3, <1>4, <1>5, <1>6, <1>7, <1>8 DEF Next, Deliver

-----------------------------------------------------------------------------
(* No listener is lost                                                     *)

\* No step takes a listener from an AlbConfig.
LEMMA ListenersStep ==
  ASSUME ConfigShape, [Next]_vars
  PROVE  ConfigShape' /\ \A c \in AlbConfig : cfg[c].listeners \subseteq cfg'[c].listeners
<1>1. CASE UNCHANGED cfg
  BY <1>1 DEF ConfigShape, ConfigRecord
<1>2. CASE SyncIngress
  <2>1. PICK c : /\ UpdateAccepted(c)
                 /\ cfg' = [cfg EXCEPT ![c].listeners = cfgCache[c].listeners \cup GroupPorts(c)]
    BY <1>2 DEF SyncIngress, Syncs
  <2>2. /\ cfg' = [d \in AlbConfig |-> cfg'[d]]
        /\ \A d \in AlbConfig : ConfigRecord(cfg'[d]) /\ cfg[d].listeners \subseteq cfg'[d].listeners
    BY <2>1, MergeStep
  <2> QED
    BY <2>2 DEF ConfigShape, ConfigRecord
<1>3. ASSUME NEW c \in AlbConfig, Finish(c), ~UNCHANGED cfg
      PROVE  ConfigShape' /\ \A d \in AlbConfig : cfg[d].listeners \subseteq cfg'[d].listeners
  <2>1. PICK x : cfg' = [cfg EXCEPT ![c].label = x]
    BY <1>3 DEF Finish
  <2>2. /\ cfg' = [d \in AlbConfig |-> cfg'[d]] /\ cfg'[c] = [cfg[c] EXCEPT !.label = x]
        /\ \A d \in AlbConfig \ {c} : cfg'[d] = cfg[d]
    BY <2>1 DEF ConfigShape
  <2>3. cfg'[c] = [listeners |-> cfg[c].listeners, label |-> x]
    BY <2>2 DEF ConfigShape, ConfigRecord
  <2>4. \A d \in AlbConfig : ConfigRecord(cfg'[d]) /\ cfg[d].listeners \subseteq cfg'[d].listeners
    BY <2>2, <2>3 DEF ConfigShape, ConfigRecord
  <2> QED
    BY <2>2, <2>4 DEF ConfigShape, ConfigRecord
<1>4. ASSUME NEW c \in AlbConfig, AddListener(c)
      PROVE  ConfigShape' /\ \A d \in AlbConfig : cfg[d].listeners \subseteq cfg'[d].listeners
  <2>1. PICK p : cfg' = [cfg EXCEPT ![c].listeners = @ \cup {p}]
    BY <1>4 DEF AddListener
  <2> DEFINE ports == cfg[c].listeners \cup {p}
  <2>2. /\ cfg' = [d \in AlbConfig |-> cfg'[d]] /\ cfg'[c] = [cfg[c] EXCEPT !.listeners = ports]
        /\ \A d \in AlbConfig \ {c} : cfg'[d] = cfg[d]
    BY <2>1 DEF ConfigShape
  <2>3. cfg[c].listeners \subseteq ports
    OBVIOUS
  <2> HIDE DEF ports
  <2>4. cfg'[c] = [listeners |-> ports, label |-> cfg[c].label]
    BY <2>2 DEF ConfigShape, ConfigRecord
  <2>5. \A d \in AlbConfig : ConfigRecord(cfg'[d]) /\ cfg[d].listeners \subseteq cfg'[d].listeners
    BY <2>2, <2>3, <2>4 DEF ConfigShape, ConfigRecord
  <2> QED
    BY <2>2, <2>5 DEF ConfigShape, ConfigRecord
<1>5. \/ UNCHANGED cfg \/ SyncIngress
      \/ \E c \in AlbConfig : Finish(c) \/ AddListener(c)
  BY DEF vars, Next, Deliver, SeeIngress, SeeClass, CacheClass, CacheAlbConfig, Sync, SyncSkip,
         SyncRetry, Pass, LoadGroup, Apply, StatusRefused, NoDNSName, ApplyFails, Restart,
         EditIngress, DeleteIngress, CreateIngress
<1> QED
  BY <1>1, <1>2, <1>3, <1>4, <1>5

\* syncIngress adds the ports of a group to an AlbConfig that the user edits
\* at the same time; the version of the object it has read keeps it from
\* taking away what was added since.
THEOREM ListenersSafe == Spec => ListenersKept
<1>1. Init => ConfigShape
  <2> SUFFICES ASSUME Init PROVE ConfigShape
    OBVIOUS
  <2>1. PICK s \in Start :
          LET Done      == {i \in Ingress : /\ s.settled /\ s.ing[i] # None
                                            /\ IsValid(s.ing[i], s.class)}
              Group0(c) == {i \in Done : LoadGroupID(s.ing[i].v, s.class) = c}
              Ports0(c) == UNION {ComputeIngressListenPorts(s.ing[i].v) : i \in Group0(c)}
          IN  cfg = [c \in AlbConfig |-> [listeners |-> Ports0(c), label |-> Ports0(c)]]
    BY DEF Init
  <2> DEFINE Done      == {i \in Ingress : s.settled /\ s.ing[i] # None /\ IsValid(s.ing[i], s.class)}
             Group0(c) == {i \in Done : LoadGroupID(s.ing[i].v, s.class) = c}
             Ports0(c) == UNION {ComputeIngressListenPorts(s.ing[i].v) : i \in Group0(c)}
  <2>2. cfg = [c \in AlbConfig |-> [listeners |-> Ports0(c), label |-> Ports0(c)]]
    BY <2>1
  <2> HIDE DEF Ports0
  <2> QED
    BY <2>2 DEF ConfigShape, ConfigRecord
<1>2. ConfigShape /\ [Next]_vars
        => ConfigShape' /\ [\A c \in AlbConfig : cfg[c].listeners \subseteq cfg'[c].listeners]_vars
  BY ListenersStep
<1> QED
  BY <1>1, <1>2, PTL DEF Spec, ListenersKept

-----------------------------------------------------------------------------
(* The refinement                                                          *)

\* The newest version among routes that agree about an Ingress is theirs.
LEMMA NewestIs ==
  ASSUME NEW routes, NEW r \in routes, r[2] \in Nat,
         \A t \in routes : t[1] = r[1] => t[2] = r[2]
  PROVE  Newest(routes, r[1]) = r[2]
<1> DEFINE ns == {t[2] : t \in {u \in routes : u[1] = r[1]}}
<1>1. r \in {u \in routes : u[1] = r[1]}
  OBVIOUS
<1>2. r[2] \in ns
  BY <1>1
<1>3. \A n \in ns : n = r[2]
  OBVIOUS
<1>4. Newest(routes, r[1]) = IF ns = {} THEN 0 ELSE CHOOSE n \in ns : \A m \in ns : m <= n
  BY DEF Newest
<1> HIDE DEF ns
<1>5. \E n \in ns : \A m \in ns : m <= n
  BY <1>2, <1>3
<1>6. (CHOOSE n \in ns : \A m \in ns : m <= n) \in ns
  BY <1>5
<1> QED
  BY <1>2, <1>3, <1>4, <1>6

\* An Ingress without a route is at version 0.
LEMMA NewestNone ==
  ASSUME NEW routes, NEW i, \A r \in routes : r[1] # i
  PROVE  Newest(routes, i) = 0
<1>1. {t[2] : t \in {u \in routes : u[1] = i}} = {}
  OBVIOUS
<1> QED
  BY <1>1 DEF Newest

\* The version of i the routes go by, if they have no more than one
LEMMA ServedVersion ==
  ASSUME NEW routes, NEW i, NEW N, N \in Nat,
         \A r \in routes : r[1] = i => r[2] \in 1..N,
         \A r, t \in routes : r[1] = t[1] => r[2] = t[2]
  PROVE  \/ Newest(routes, i) = 0 /\ \A r \in routes : r[1] # i
         \/ \E r \in routes : r[1] = i /\ Newest(routes, i) = r[2] /\ r[2] \in 1..N
<1>1. CASE \A r \in routes : r[1] # i
  BY <1>1, NewestNone
<1>2. ASSUME NEW r \in routes, r[1] = i
      PROVE  Newest(routes, i) = r[2] /\ r[2] \in 1..N
  <2>1. r[2] \in 1..N /\ r[2] \in Nat
    BY <1>2
  <2>2. Newest(routes, r[1]) = r[2]
    BY <2>1, NewestIs
  <2> QED
    BY <1>2, <2>1, <2>2
<1> QED
  BY <1>1, <1>2

\* A version a pass has loaded asks for its AlbConfig.
LEMMA KnownAsks ==
  ASSUME RoutingInv, NEW c \in AlbConfig, NEW i \in Ingress, NEW n \in Nat, Known(c, i, n)
  PROVE  Asked(i, n) = c
<1>1. ClassesFit /\ Shapes
  BY DEF RoutingInv
<1>2. /\ history[i][n] \in Version /\ IsValid([v |-> history[i][n]], storeClass)
      /\ LoadGroupID(history[i][n], cacheClass) = c
  BY DEF Known
<1>3. \A k \in Class : storeClass[k] # None => class[k] # None
  BY <1>1 DEF ClassesFit
<1>4. PICK v, A, B : v = history[i][n] /\ A = storeClass /\ B = class
  OBVIOUS
<1>5. IsValid([v |-> v], B)
  <2>1. v \in Version /\ IsValid([v |-> v], A) /\ \A k \in Class : A[k] # None => B[k] # None
    BY <1>2, <1>3, <1>4
  <2> QED
    BY <2>1, StaysValid
<1>6. LoadGroupID(v, class) = c
  BY <1>1, <1>2, <1>4, OneGroupID
<1>7. v # None /\ c # None
  BY <1>2, <1>4, StartAssumption
<1> QED
  BY <1>4, <1>5, <1>6, <1>7 DEF Asked, Asks

\* What applying a group does to the version of i that is routed by.
LEMMA ServeMoves ==
  ASSUME RoutingInv, RoutingInv', NEW c \in AlbConfig, Applies(c), NEW i \in Ingress
  PROVE  LET old == Newest(served[c], i)
             new == Newest(served'[c], i)
         IN  \/ new = old
             \/ new \in old..Len(history[i]) /\ new > 0 /\ Asked(i, new) = c
             \/ new = 0 /\ (old < Len(history[i]) \/ i \in pass[c].missing)
<1> DEFINE old == Newest(served[c], i)
           new == Newest(served'[c], i)
           p   == pass[c]
<1>1. Shapes /\ PassFits(c) /\ PassRecord(p) /\ p.pc = "apply"
  BY DEF RoutingInv, Shapes, Applies, Apply, StatusRefused, NoDNSName, ApplyFails
<1>2. PICK done \in SUBSET Ingress :
        served' = [served EXCEPT ![c] = {r \in Build(p) : r[1] \in done}
                                          \cup {r \in served[c] : r[1] \notin done}]
  BY <1>1, Applied
<1>3. served'[c] = {r \in Build(p) : r[1] \in done} \cup {r \in served[c] : r[1] \notin done}
  BY <1>1, <1>2 DEF Shapes
<1>4. \A r \in Build(p) : r[1] \in DOMAIN p.members /\ r[2] = p.members[r[1]].n
  <2>1. PICK q : q = p
    OBVIOUS
  <2> HIDE DEF p
  <2>2. PassRecord(q)
    BY <1>1, <2>1
  <2>3. \A r \in Build(q) : r[1] \in DOMAIN q.members /\ r[2] = q.members[r[1]].n
    BY <2>2, BuildRoutes
  <2> QED
    BY <2>1, <2>3
<1>5. \/ old = 0 /\ \A r \in served[c] : r[1] # i
      \/ \E r \in served[c] : r[1] = i /\ old = r[2] /\ r[2] \in 1..Len(history[i])
  <2>1. /\ \A r \in served[c] : r[1] = i => r[2] \in 1..Len(history[i])
        /\ \A r, t \in served[c] : r[1] = t[1] => r[2] = t[2]
        /\ Len(history[i]) \in Nat
    <3>1. Len(history[i]) \in Nat
      BY <1>1 DEF Shapes
    <3>2. ServedFits(c)
      BY DEF RoutingInv
    <3> QED
      BY <3>1, <3>2 DEF ServedFits, Known
  <2>2. PICK routes, N : routes = served[c] /\ N = Len(history[i])
    OBVIOUS
  <2>3. /\ \A r \in routes : r[1] = i => r[2] \in 1..N
        /\ \A r, t \in routes : r[1] = t[1] => r[2] = t[2]
        /\ N \in Nat
    BY <2>1, <2>2
  <2> QED
    BY <2>2, <2>3, ServedVersion
<1>6. \/ new = 0 /\ \A r \in served'[c] : r[1] # i
      \/ \E r \in served'[c] : r[1] = i /\ new = r[2] /\ r[2] \in 1..Len(history'[i])
  <2>1. /\ \A r \in served'[c] : r[1] = i => r[2] \in 1..Len(history'[i])
        /\ \A r, t \in served'[c] : r[1] = t[1] => r[2] = t[2]
        /\ Len(history'[i]) \in Nat
    <3>1. history' \in [Ingress -> Seq(Version \cup {None})] /\ ServedFits(c)'
      BY DEF RoutingInv, Shapes
    <3>2. Len(history'[i]) \in Nat
      BY <3>1
    <3> QED
      BY <3>1, <3>2 DEF ServedFits, Known
  <2>2. PICK routes, N : routes = served'[c] /\ N = Len(history'[i])
    OBVIOUS
  <2>3. /\ \A r \in routes : r[1] = i => r[2] \in 1..N
        /\ \A r, t \in routes : r[1] = t[1] => r[2] = t[2]
        /\ N \in Nat
    BY <2>1, <2>2
  <2> QED
    BY <2>2, <2>3, ServedVersion
<1>7. Len(history[i]) \in Nat /\ history' = history
  <2>1. Len(history[i]) \in Nat
    BY <1>1 DEF Shapes
  <2>2. history' = history
    BY DEF Applies, Apply, StatusRefused, NoDNSName, ApplyFails, user
  <2> QED
    BY <2>1, <2>2
<1>8. \A r, t \in served[c] : r[1] = t[1] => r[2] = t[2]
  BY DEF RoutingInv, ServedFits
<1> HIDE DEF old, new
<1>9. CASE i \notin done
  <2>1. \A r : r[1] = i => (r \in served'[c] <=> r \in served[c])
    BY <1>3, <1>9
  <2>2. new = old
    BY <1>5, <1>6, <1>8, <2>1
  <2> QED
    BY <2>2 DEF old, new
<1>10. CASE i \in done
  <2>1. \A r : r[1] = i => (r \in served'[c] <=> r \in Build(p))
    BY <1>3, <1>10
  <2>2. CASE new = 0 /\ \A r \in served'[c] : r[1] # i
    <3>1. CASE old = 0
      BY <2>2, <3>1 DEF old, new
    <3>2. ASSUME NEW r \in served[c], r[1] = i, old = r[2] 
          PROVE  old < Len(history[i]) \/ i \in p.missing
      <4>1. ASSUME i \in DOMAIN p.members, NEW t \in Routes(p, i) PROVE FALSE
        <5>1. t \in Build(p) /\ t[1] = i
          BY <4>1 DEF Build, Routes
        <5> QED
          BY <2>1, <2>2, <5>1
      <4> QED
        BY <1>1, <3>2, <4>1 DEF PassFits
    <3> QED
      BY <1>5, <2>2, <3>1, <3>2 DEF old, new
  <2>3. ASSUME NEW r \in served'[c], r[1] = i, new = r[2], r[2] \in 1..Len(history[i])
        PROVE  new \in old..Len(history[i]) /\ new > 0 /\ Asked(i, new) = c
    <3>1. r \in Build(p)
      BY <2>1, <2>3
    <3>2. i \in DOMAIN p.members /\ new = p.members[i].n
      BY <1>4, <2>3, <3>1
    <3>3. Known(c, i, new)
      BY <1>1, <3>2 DEF PassFits
    <3>4. old <= new
      <4>1. CASE old = 0
        BY <2>3, <4>1
      <4>2. ASSUME NEW t \in served[c], t[1] = i, old = t[2] PROVE old <= new
        BY <1>1, <3>2, <4>2 DEF PassFits
      <4> QED
        BY <1>5, <4>1, <4>2
    <3>5. new \in Nat /\ old \in Nat
      BY <1>5, <1>7, <2>3
    <3>6. Asked(i, new) = c
      <4>1. PICK n : n = new
        OBVIOUS
      <4> QED
        BY <3>3, <3>5, <4>1, KnownAsks
    <3> QED
      BY <1>7, <2>3, <3>4, <3>5, <3>6
  <2> QED
    BY <1>6, <1>7, <2>2, <2>3 DEF old, new
<1> QED
  BY <1>9, <1>10

\* A step maps to a step of IngressRouting or to none.
LEMMA RefinementStep ==
  ASSUME RoutingInv, RoutingInv', [Next]_vars
  PROVE  [Routing!Next]_Routing!vars
<1> DEFINE A == [i \in Ingress |-> [k \in DOMAIN history[i] |-> Asked(i, k)]]
           S == [c \in AlbConfig |-> [i \in Ingress |-> Newest(served[c], i)]]
           H == [c \in AlbConfig |-> pass[c].missing]
<1>1. CASE UNCHANGED <<served, pass>>
  <2>1. S' = S /\ H' = H
    BY <1>1
  <2>2. CASE A' = A
    BY <2>1, <2>2 DEF Routing!vars, Served
  <2>3. CASE A' # A
    BY <2>1, <2>3 DEF Routing!Next, Routing!Ask, Served
  <2> QED
    BY <2>2, <2>3
<1>4. ASSUME NEW c \in AlbConfig, LoadGroup(c) \/ Finish(c)
      PROVE  Routing!Look(c)
  <2>1. UNCHANGED <<history, class, served>> /\ Shapes
    BY <1>4 DEF LoadGroup, Finish, user, RoutingInv
  <2>2. A' = A /\ S' = S
    BY <2>1 DEF Asked, Asks, LoadGroupID, IngressClass, IsValid
  <2>3. PICK x : x.missing \in SUBSET Ingress /\ pass' = [pass EXCEPT ![c] = x]
    BY <1>4 DEF LoadGroup, Finish, Idle, NotStored
  <2>4. H' = [H EXCEPT ![c] = x.missing]
    <3>1. pass'[c] = x /\ \A d \in AlbConfig \ {c} : pass'[d] = pass[d]
      BY <2>1, <2>3 DEF Shapes
    <3> QED
      BY <3>1
  <2> QED
    BY <2>2, <2>3, <2>4 DEF Routing!Look, Served
<1>5. CASE Restart
  <2>1. UNCHANGED <<history, class, served>> /\ pass' = [c \in AlbConfig |-> Idle]
    BY <1>5 DEF Restart, user
  <2>2. A' = A /\ S' = S
    BY <2>1 DEF Asked, Asks, LoadGroupID, IngressClass, IsValid
  <2>3. H' = [c \in AlbConfig |-> {}]
    BY <2>1 DEF Idle
  <2> QED
    BY <2>2, <2>3 DEF Routing!Next, Routing!Restart, Served
<1>2. ASSUME NEW c \in AlbConfig, Applies(c)
      PROVE  Routing!Serve(c)
  <2>1. UNCHANGED <<history, class>>
    BY <1>2 DEF Applies, Apply, StatusRefused, NoDNSName, ApplyFails, user
  <2>5. /\ \A d \in AlbConfig \ {c} : H'[d] = H[d]
        /\ H'[c] \in {{}, H[c]}
    <3>1. pass = [d \in AlbConfig |-> pass[d]] /\ PassRecord(pass[c])
      BY DEF RoutingInv, Shapes
    <3>2. CASE Apply(c)
      <4>1. pass' = [pass EXCEPT ![c] = [pass[c] EXCEPT !.pc = "label"]]
        BY <3>2 DEF Apply
      <4>2. /\ pass'[c] = [pass[c] EXCEPT !.pc = "label"]
            /\ \A d \in AlbConfig \ {c} : pass'[d] = pass[d]
        BY <3>1, <4>1
      <4>3. pass'[c].missing = pass[c].missing
        BY <3>1, <4>2 DEF PassRecord
      <4> QED
        BY <4>2, <4>3
    <3>3. CASE StatusRefused(c) \/ NoDNSName(c) \/ ApplyFails(c)
      <4>1. PICK x : x.missing = {} /\ pass' = [pass EXCEPT ![c] = x]
        BY <3>3 DEF StatusRefused, NoDNSName, ApplyFails, Idle
      <4>2. pass'[c] = x /\ \A d \in AlbConfig \ {c} : pass'[d] = pass[d]
        BY <3>1, <4>1
      <4> QED
        BY <4>1, <4>2
    <3> QED
      BY <1>2, <3>2, <3>3 DEF Applies
  <2>2. A' = A
    BY <2>1 DEF Asked, Asks, LoadGroupID, IngressClass, IsValid
  <2>3. \A d \in AlbConfig \ {c} : S'[d] = S[d]
    <3>1. Shapes
      BY DEF RoutingInv
    <3>2. \A d \in AlbConfig \ {c} : served'[d] = served[d]
      BY <1>2, <3>1, Applied DEF Shapes
    <3> QED
      BY <3>2
  <2>4. ASSUME NEW i \in Ingress
        PROVE  S'[c][i] \in {S[c][i]}
                   \cup {k \in S[c][i]..Len(A[i]) : k > 0 /\ A[i][k] = c}
                   \cup {k \in {0} : S[c][i] < Len(A[i]) \/ i \in H[c]}
    <3> DEFINE old == Newest(served[c], i)
               new == Newest(served'[c], i)
    <3>1. \/ new = old
          \/ new \in old..Len(history[i]) /\ new > 0 /\ Asked(i, new) = c
          \/ new = 0 /\ (old < Len(history[i]) \/ i \in H[c])
      BY <1>2, ServeMoves
    <3>2. history[i] \in Seq(Version \cup {None})
      BY DEF RoutingInv, Shapes
    <3>3. DOMAIN history[i] = 1..Len(history[i]) /\ Len(history[i]) \in Nat
      BY <3>2
    <3>4. A[i] = [k \in 1..Len(history[i]) |-> Asked(i, k)]
      BY <3>3
    <3>5. Len(A[i]) = Len(history[i])
      BY <3>3, <3>4
    <3>6. S[c][i] = old /\ S'[c][i] = new
      OBVIOUS
    <3>7. old \in Nat
      <4>1. ServedFits(c)
        BY DEF RoutingInv
      <4>2. /\ \A r \in served[c] : r[1] = i => r[2] \in 1..Len(history[i])
            /\ \A r, t \in served[c] : r[1] = t[1] => r[2] = t[2]
        BY <4>1 DEF ServedFits, Known
      <4>3. PICK routes, N : routes = served[c] /\ N = Len(history[i])
        OBVIOUS
      <4>4. /\ \A r \in routes : r[1] = i => r[2] \in 1..N
            /\ \A r, t \in routes : r[1] = t[1] => r[2] = t[2]
            /\ N \in Nat
        BY <3>3, <4>2, <4>3
      <4>5. \/ Newest(routes, i) = 0
            \/ \E r \in routes : Newest(routes, i) = r[2] /\ r[2] \in 1..N
        BY <4>4, ServedVersion
      <4> QED
        BY <4>3, <4>4, <4>5
    <3> HIDE DEF A, S, H, old, new
    <3>8. CASE new = old
      BY <3>6, <3>8
    <3>9. CASE new \in old..Len(history[i]) /\ new > 0 /\ Asked(i, new) = c
      <4>1. new \in 1..Len(history[i])
        BY <3>3, <3>7, <3>9
      <4>2. A[i][new] = c
        BY <3>4, <3>9, <4>1
      <4> QED
        BY <3>5, <3>6, <3>9, <4>2
    <3>10. CASE new = 0 /\ (old < Len(history[i]) \/ i \in H[c])
      BY <3>5, <3>6, <3>10
    <3> QED
      BY <3>1, <3>8, <3>9, <3>10
  <2> QED
    BY <2>2, <2>3, <2>4, <2>5 DEF Routing!Serve, Routing!Admissible, Served
<1>3. \/ UNCHANGED <<served, pass>> \/ Restart
      \/ \E c \in AlbConfig : Applies(c) \/ LoadGroup(c) \/ Finish(c)
  BY DEF vars, Next, Deliver, SeeIngress, SeeClass, CacheClass, CacheAlbConfig, Sync, SyncSkip,
         SyncRetry, SyncIngress, Pass, Applies, EditIngress, DeleteIngress, CreateIngress,
         AddListener
<1> QED
  BY <1>1, <1>2, <1>3, <1>4, <1>5 DEF Routing!Next

\* The initial states are initial states of IngressRouting.
LEMMA RefinementInit ==
  ASSUME RoutingInv, Init
  PROVE  Routing!Init
<1>1. ASSUME NEW i \in Ingress
      PROVE  [k \in DOMAIN history[i] |-> Asked(i, k)] \in Seq(AlbConfig \cup {None})
  <2>1. history[i] \in Seq(Version \cup {None})
    BY DEF RoutingInv, Shapes
  <2>2. DOMAIN history[i] = 1..Len(history[i]) /\ Len(history[i]) \in Nat
    BY <2>1
  <2>3. \A k : Asked(i, k) \in AlbConfig \cup {None}
    BY DEF Asked
  <2> QED
    BY <2>2, <2>3
<1>2. ASSUME NEW c \in AlbConfig, NEW i \in Ingress PROVE Served(c, i) \in Nat
  <2>1. ServedFits(c)
    BY DEF RoutingInv
  <2>2. history[i] \in Seq(Version \cup {None})
    BY DEF RoutingInv, Shapes
  <2>3. /\ \A r \in served[c] : r[1] = i => r[2] \in 1..Len(history[i])
        /\ \A r, t \in served[c] : r[1] = t[1] => r[2] = t[2]
        /\ Len(history[i]) \in Nat
    <3>1. Len(history[i]) \in Nat
      BY <2>2
    <3> QED
      BY <2>1, <3>1 DEF ServedFits, Known
  <2>4. PICK routes, N : routes = served[c] /\ N = Len(history[i])
    OBVIOUS
  <2>5. /\ \A r \in routes : r[1] = i => r[2] \in 1..N
        /\ \A r, t \in routes : r[1] = t[1] => r[2] = t[2]
        /\ N \in Nat
    BY <2>3, <2>4
  <2>6. \/ Newest(routes, i) = 0
        \/ \E r \in routes : Newest(routes, i) = r[2] /\ r[2] \in 1..N
    BY <2>5, ServedVersion
  <2> QED
    BY <2>4, <2>5, <2>6 DEF Served
<1>3. [c \in AlbConfig |-> pass[c].missing] = [c \in AlbConfig |-> {}]
  <2>1. pass = [c \in AlbConfig |-> Idle]
    BY DEF Init
  <2> QED
    BY <2>1 DEF Idle
<1> QED
  BY <1>1, <1>2, <1>3 DEF Routing!Init

\* The routing of every ALB moves as IngressRouting says, whatever the events,
\* passes, failed calls and restarts: never back to an older version of an
\* Ingress, only to one that has asked for this ALB, and away only if there is
\* a newer one or the handlers had not stored it when the pass loaded its
\* group.  No Ingress may name an AlbConfig by itself while its class is
\* missing (ClassesNamed).
THEOREM RoutingImplemented ==
  ASSUME ClassesNamed
  PROVE  Spec => Implements
<1>1. Init => RoutingInv
  BY RoutingInit
<1>2. RoutingInv /\ [Next]_vars => RoutingInv'
  BY RoutingNext
<1>3. RoutingInv /\ Init => Routing!Init
  BY RefinementInit
<1>4. RoutingInv /\ RoutingInv' /\ [Next]_vars => [Routing!Next]_Routing!vars
  BY RefinementStep
<1> QED
  BY <1>1, <1>2, <1>3, <1>4, PTL DEF Spec, Implements, Routing!Spec

-----------------------------------------------------------------------------
(* At rest                                                                 *)

\* Edits lead forward: there is an order of the versions that every edit goes
\* up in.  An edit that is taken back would carry the label of the version
\* before.  Two versions of one Ingress that have the same class also name the
\* same AlbConfig: the handlers tell the old AlbConfig of a new class only.
EditsForward(R) ==
  /\ Edit \subseteq R
  /\ \A u, v, w \in Version : <<u, v>> \in R /\ <<v, w>> \in R => <<u, w>> \in R
  /\ \A u, v \in Version : <<u, v>> \in R =>
       /\ u # v
       /\ Attr[u].class = Attr[v].class => Attr[u].config = Attr[v].config

\* The store has the version of the API server or an earlier one.
Follows(R, i) ==
  seen[i] # None /\ ing[i] # None =>
    /\ \/ seen[i].v = ing[i].v /\ seen[i].n = ing[i].n
       \/ <<seen[i].v, ing[i].v>> \in R
    /\ seen[i].deleting => ing[i].deleting

\* A label is the hash of what the store has or had: one that fits a version
\* is not written before the event of that version was sent.
LabelFits(R, i) ==
  ing[i] # None /\ ing[i].label # None =>
    /\ seen[i] # None
    /\ ing[i].label[1] = seen[i].v \/ <<ing[i].label[1], seen[i].v>> \in R
    /\ ing[i].label[2] => seen[i].deleting

\* An Ingress never edited that has no address yet
Young(i) == ing[i] # None /\ ing[i].host = None /\ Len(history[i]) = 1

\* Nothing was written to it: every copy is as the user has made it.
YoungFits(i) ==
  Young(i) =>
    /\ ~ing[i].deleting /\ ing[i].label = None /\ seen[i] \in {None, ing[i]}
    /\ \A c \in AlbConfig :
         /\ pass[c].pc = "apply" /\ i \in DOMAIN pass[c].members => pass[c].members[i] = ing[i]
         /\ pass[c].pc = "label" => i \notin DOMAIN pass[c].members

\* An address is that of an ALB the Ingress has asked for.
HostFits(i) ==
  ing[i] # None /\ ing[i].host # None =>
    \E k \in DOMAIN history[i] : Asks(i, k) = ing[i].host

\* What was ever deleted has a history, and what a pass has loaded too.
DeletedFits(i) ==
  /\ ing[i] # None /\ ing[i].deleting => Len(history[i]) > 1
  /\ seen[i] # None /\ seen[i].deleting => Len(history[i]) > 1
  /\ \A c \in AlbConfig : /\ i \in pass[c].inactive => Len(history[i]) > 1
                          /\ i \in DOMAIN pass[c].members => Len(history[i]) > 0

\* An event in the queue that will send c to the reconciler
Due(c) ==
  \E n \in DOMAIN queue : ~Skipped(queue[n]) /\ LoadGroupID(queue[n].o.v, cacheClass) = c

\* The pass of c has loaded the group as it is now.
Loaded(c) ==
  /\ DOMAIN pass[c].members = Members(c) /\ pass[c].listeners = cfgCache[c].listeners
  /\ \A i \in Members(c) : /\ pass[c].members[i].v = seen[i].v
                           /\ pass[c].members[i].n = seen[i].n

\* The ALB of c routes by the group as it is now.
Current(c) ==
  served[c] = UNION {{<<i, seen[i].n, q>> : q \in ComputeIngressListenPorts(seen[i].v)
                                                    \cap cfgCache[c].listeners} : i \in Members(c)}

\* What is left to do for c is in one of the queues or under way.
GroupFits(c) ==
  /\ cfg[c].label \subseteq cfgCache[c].listeners
  /\ pass[c].pc # "idle" => pass[c].listeners \subseteq cfgCache[c].listeners
  /\ Due(c) \/ GroupPorts(c) \subseteq cfg[c].listeners
  /\ \/ Due(c) \/ c \in acQueue
     \/ pass[c].pc = "apply" /\ Loaded(c)
     \/ /\ pass[c].pc # "apply" /\ Current(c)
        /\ (\A i \in Members(c) : ~Young(i)) \/ (pass[c].pc = "idle" /\ pass[c].unnamed)

\* What is known of an Ingress
IngressFits(R, i) ==
  Follows(R, i) /\ LabelFits(R, i) /\ YoungFits(i) /\ HostFits(i) /\ DeletedFits(i)

Fits(R) == (\A i \in Ingress : IngressFits(R, i)) /\ (\A c \in AlbConfig : GroupFits(c))

\* A restart forgets what was due.
RestInv(R) == restarted \/ Fits(R)

-----------------------------------------------------------------------------
(* What a step leaves alone                                                *)

\* No step takes a class away or changes one that is there.
LEMMA StepClasses ==
  ASSUME RoutingInv, RoutingInv', [Next]_vars
  PROVE  ClassesMove
<1>1. Shapes /\ Shapes' /\ ClassesFit
  BY DEF RoutingInv
<1>2. CASE UNCHANGED <<class, storeClass, cacheClass>>
  BY <1>1, <1>2 DEF ClassesMove, Shapes
<1>3. ASSUME NEW k \in Class, SeeClass(k) \/ CacheClass(k) PROVE ClassesMove
  BY <1>1, <1>3 DEF ClassesMove, Shapes, SeeClass, CacheClass, user
<1>4. CASE Restart
  BY <1>1, <1>4 DEF ClassesMove, Shapes, Restart, user
<1>5. CASE SyncRetry \/ SyncIngress
  <2>1. queue # <<>> /\ queue \in Seq(EventSet)
    BY <1>1, <1>5 DEF SyncRetry, SyncIngress, Shapes
  <2>2. Head(queue) \in EventSet
    BY <2>1
  <2> DEFINE e == Head(queue)
  <2>3. e.o.v \in Version
    BY <2>2 DEF EventSet, Object
  <2>4. /\ UNCHANGED <<storeClass, cacheClass>>
        /\ class' = class \/ MakeIngressClass(LoadGroupID(e.o.v, cacheClass), e.o.v)
    BY <1>5 DEF SyncRetry, SyncIngress
  <2> HIDE DEF e
  <2>5. /\ \A k \in Class \ {Alb} : class'[k] = class[k]
        /\ class'[Alb] = class[Alb] \/ (class[Alb] = None /\ class'[Alb] = Default)
    BY <1>1, <2>3, <2>4, MakeClass
  <2> QED
    BY <1>1, <2>4, <2>5 DEF ClassesMove, Shapes
<1>6. \/ UNCHANGED <<class, storeClass, cacheClass>> \/ SyncRetry \/ SyncIngress \/ Restart
      \/ \E k \in Class : SeeClass(k) \/ CacheClass(k)
  BY DEF vars, Next, Deliver, SeeIngress, CacheAlbConfig, Sync, SyncSkip, Pass, LoadGroup, Apply,
         StatusRefused, NoDNSName, ApplyFails, Finish, EditIngress, DeleteIngress, CreateIngress,
         AddListener, user
<1> QED
  BY <1>2, <1>3, <1>4, <1>5, <1>6

\* What a version has once asked for it goes on asking for.
LEMMA AsksKept ==
  ASSUME RoutingInv, RoutingInv', ClassesMove, HistoryGrows, NEW i \in Ingress,
         NEW k \in DOMAIN history[i], Asks(i, k) # None
  PROVE  k \in DOMAIN history'[i] /\ Asks(i, k)' = Asks(i, k)
<1>1. Shapes /\ Shapes' /\ ClassesFit /\ ClassesFit'
  BY DEF RoutingInv
<1>2. /\ history[i] \in Seq(Version \cup {None}) /\ history'[i] \in Seq(Version \cup {None})
      /\ Len(history[i]) \in Nat /\ Len(history'[i]) \in Nat
      /\ DOMAIN history[i] = 1..Len(history[i]) /\ DOMAIN history'[i] = 1..Len(history'[i])
  BY <1>1 DEF Shapes
<1>3. k \in DOMAIN history'[i] /\ history'[i][k] = history[i][k]
  BY <1>2 DEF HistoryGrows
<1>4. PICK v, A, B : v = history[i][k] /\ A = class /\ B = class'
  OBVIOUS
<1>5. v \in Version /\ v # None /\ IsValid([v |-> v], A)
  <2>1. v # None /\ IsValid([v |-> v], A)
    BY <1>4 DEF Asks
  <2> QED
    BY <1>2, <1>4, <2>1
<1>6. IsValid([v |-> v], B)
  <2>1. \A j \in Class : A[j] # None => B[j] # None
    BY <1>4, IngressAssumption DEF ClassesMove
  <2> QED
    BY <1>5, <2>1, StaysValid
<1>7. LoadGroupID(v, class') = LoadGroupID(v, class)
  <2>1. LoadGroupID(v, class) = LoadGroupID(v, cacheClass)
    BY <1>1, <1>5, OneGroupID
  <2>2. ClassesKept
    BY <1>1, ClassStep
  <2>3. \A u \in Version : LoadGroupID(u, class') = LoadGroupID(u, cacheClass')
    <3>1. ASSUME NEW u \in Version
          PROVE  IngressClass(u, class') = IngressClass(u, cacheClass')
      <4>1. Attr[u].class \in Class
        BY StartAssumption
      <4>2. CASE Attr[u].class = Alb
        BY <1>1, <4>2 DEF IngressClass, ClassesFit
      <4>3. CASE Attr[u].class # Alb
        BY <1>1, <4>1, <4>3 DEF IngressClass, ClassesFit
      <4> QED
        BY <4>2, <4>3
    <3> QED
      BY <3>1 DEF LoadGroupID
  <2> QED
    BY <1>5, <2>1, <2>2, <2>3 DEF ClassesKept
<1> QED
  BY <1>3, <1>4, <1>5, <1>6, <1>7 DEF Asks

\* A pass that is over
Rests(p) == p.pc = "idle" /\ p.inactive = {} /\ DOMAIN p.members = {}

\* An Ingress the step leaves alone, passes ended by it aside.
LEMMA IngressKept ==
  ASSUME NEW R, NEW i \in Ingress, IngressFits(R, i),
         ing'[i] = ing[i], seen'[i] = seen[i], history'[i] = history[i],
         \A k \in DOMAIN history[i] : Asks(i, k) # None => Asks(i, k)' = Asks(i, k),
         \A d \in AlbConfig : pass'[d] = pass[d] \/ Rests(pass'[d])
  PROVE  IngressFits(R, i)'
<1>1. Follows(R, i)' /\ LabelFits(R, i)'
  BY DEF IngressFits, Follows, LabelFits
<1>3. YoungFits(i)'
  BY DEF IngressFits, YoungFits, Young, Rests
<1>4. HostFits(i)'
  BY DEF IngressFits, HostFits
<1>5. DeletedFits(i)'
  BY DEF IngressFits, DeletedFits, Rests
<1> QED
  BY <1>1, <1>3, <1>4, <1>5 DEF IngressFits

\* The group of c is as it was.
SameGroup(c) ==
  /\ Members(c)' = Members(c)
  /\ \A i \in Members(c) : seen'[i].v = seen[i].v /\ seen'[i].n = seen[i].n

\* The store and its classes as they were
LEMMA GroupSame ==
  ASSUME RoutingInv, RoutingInv', ClassesMove, UNCHANGED <<seen, storeClass>>, NEW c \in AlbConfig
  PROVE  SameGroup(c)
<1>1. Shapes /\ ClassesFit /\ ClassesKept
  BY ClassStep DEF RoutingInv
<1>2. ASSUME NEW i \in Ingress, seen[i] # None PROVE seen[i].v \in Version
  BY <1>1, <1>2 DEF Shapes, Object
<1>3. ListIngresses' = ListIngresses
  BY DEF ListIngresses, IsValid
<1>4. Group(c)' = Group(c)
  BY <1>1, <1>2, <1>3 DEF Group, ListIngresses, ClassesKept
<1>5. Members(c)' = Members(c)
  BY <1>4 DEF Members
<1> QED
  BY <1>5 DEF SameGroup

\* An event goes on being due while others join the queue.
LEMMA DueKept ==
  ASSUME RoutingInv, ClassesKept, NEW x \in Seq(EventSet), queue' = queue \o x, NEW c, Due(c)
  PROVE  Due(c)'
<1>1. queue \in Seq(EventSet)
  BY DEF RoutingInv, Shapes
<1>2. PICK n \in DOMAIN queue : ~Skipped(queue[n]) /\ LoadGroupID(queue[n].o.v, cacheClass) = c
  BY DEF Due
<1>3. n \in DOMAIN queue' /\ queue'[n] = queue[n] /\ queue[n] \in EventSet
  BY <1>1
<1>4. queue[n].o.v \in Version
  BY <1>3 DEF EventSet, Object
<1>5. LoadGroupID(queue'[n].o.v, cacheClass') = c
  BY <1>2, <1>3, <1>4 DEF ClassesKept
<1>6. ~Skipped(queue'[n])
  BY <1>2, <1>3
<1> QED
  BY <1>3, <1>5, <1>6 DEF Due

\* A group the step leaves alone: what was due for it is due or done.
LEMMA GroupKept ==
  ASSUME NEW c \in AlbConfig, GroupFits(c), SameGroup(c),
         Due(c) => Due(c)', c \in acQueue => c \in acQueue',
         pass'[c] = pass[c], served'[c] = served[c],
         cfgCache'[c].listeners = cfgCache[c].listeners,
         cfg[c].listeners \subseteq cfg'[c].listeners, cfg'[c].label = cfg[c].label,
         \A i \in Members(c) : Young(i)' => Young(i)
  PROVE  GroupFits(c)'
<1>1. GroupPorts(c)' = GroupPorts(c)
  BY DEF GroupPorts, SameGroup
<1>2. Loaded(c) => Loaded(c)'
  BY DEF Loaded, SameGroup
<1>3. Current(c) => Current(c)'
  BY DEF Current, SameGroup
<1>4. (\A i \in Members(c) : ~Young(i)) => (\A i \in Members(c) : ~Young(i))'
  BY DEF SameGroup
<1> QED
  BY <1>1, <1>2, <1>3, <1>4 DEF GroupFits

-----------------------------------------------------------------------------
(* Steps of the user                                                       *)

\* A step that moves classes and the history of i only
LEMMA AsksStay ==
  ASSUME RoutingInv, RoutingInv', ClassesMove, HistoryGrows, NEW i \in Ingress
  PROVE  /\ \A k \in DOMAIN history[i] : Asks(i, k) # None => Asks(i, k)' = Asks(i, k)
         /\ DOMAIN history[i] \subseteq DOMAIN history'[i]
         /\ Len(history[i]) \in Nat /\ Len(history'[i]) \in Nat /\ Len(history[i]) <= Len(history'[i])
<1>1. Shapes /\ Shapes'
  BY DEF RoutingInv
<1>2. /\ Len(history[i]) \in Nat /\ Len(history'[i]) \in Nat
      /\ DOMAIN history[i] = 1..Len(history[i]) /\ DOMAIN history'[i] = 1..Len(history'[i])
  BY <1>1 DEF Shapes
<1>3. \A k \in DOMAIN history[i] : Asks(i, k) # None => Asks(i, k)' = Asks(i, k)
  BY AsksKept
<1> QED
  BY <1>2, <1>3 DEF HistoryGrows

\* The user creates, edits or deletes an Ingress: the store is not told yet.
LEMMA RestUser ==
  ASSUME RoutingInv, RoutingInv', NEW R, EditsForward(R), Fits(R), NEW i \in Ingress,
         EditIngress(i) \/ DeleteIngress(i) \/ CreateIngress(i)
  PROVE  Fits(R)'
<1>1. Shapes /\ Shapes' /\ ClassesFit /\ ObjectFits(i)
  BY DEF RoutingInv
<1>2. /\ UNCHANGED <<seen, listing, class, storeClass, cacheClass, cfg, cfgCache, queue, acQueue,
                     pass, served>>
      /\ \A j \in Ingress \ {i} : ing'[j] = ing[j] /\ history'[j] = history[j]
  BY <1>1 DEF EditIngress, DeleteIngress, CreateIngress, Shapes
<1>3. ClassesMove /\ ClassesKept
  BY <1>1, <1>2, ClassesSame DEF ClassesMove, Shapes
<1>4. HistoryGrows /\ Len(history'[i]) = Len(history[i]) + 1 /\ Len(history[i]) \in Nat
  <2>1. PICK v \in Version \cup {None} : history' = [history EXCEPT ![i] = Append(@, v)]
    BY IngressAssumption, StartAssumption DEF EditIngress, DeleteIngress, CreateIngress
  <2> QED
    BY <1>1, <2>1, HistoryStep
<1>5. ASSUME NEW j \in Ingress
      PROVE  /\ \A k \in DOMAIN history[j] : Asks(j, k) # None => Asks(j, k)' = Asks(j, k)
             /\ DOMAIN history[j] \subseteq DOMAIN history'[j]
  BY <1>3, <1>4, AsksStay
<1>6. ASSUME NEW j \in Ingress, j # i PROVE IngressFits(R, j)'
  BY <1>2, <1>5, <1>6, IngressKept DEF Fits
<1>7. IngressFits(R, i)
  BY DEF Fits
<1>8. ing[i] # None => ing[i] \in Object /\ Len(history[i]) > 0
  BY <1>1, <1>4 DEF Shapes, ObjectFits
<1>9. CASE EditIngress(i)
  <2>1. PICK e \in Edit :
          /\ e[1] = ing[i].v
          /\ ing' = [ing EXCEPT ![i].v = e[2], ![i].n = Len(history[i]) + 1]
    BY <1>9 DEF EditIngress
  <2>2. ing[i] # None /\ ing[i] \in Object /\ e \in Version \X Version
    BY <1>8, <1>9, IngressAssumption DEF EditIngress
  <2>3. /\ ing'[i].v = e[2] /\ ing'[i].host = ing[i].host /\ ing'[i].label = ing[i].label
        /\ ing'[i].deleting = ing[i].deleting
    BY <1>1, <2>1, <2>2 DEF Shapes, Object
  <2>4. <<ing[i].v, e[2]>> \in R /\ ing[i].v \in Version /\ e[2] \in Version
    BY <2>1, <2>2 DEF EditsForward
  <2>5. Follows(R, i)'
    <3>1. ASSUME seen[i] # None PROVE <<seen[i].v, e[2]>> \in R /\ (seen[i].deleting => ing[i].deleting)
      <4>1. seen[i].v \in Version
        BY <1>1, <3>1 DEF Shapes, Object
      <4> QED
        BY <1>7, <2>2, <2>4, <3>1, <4>1 DEF IngressFits, Follows, EditsForward
    <3> QED
      BY <1>2, <2>3, <3>1 DEF Follows
  <2>6. LabelFits(R, i)'
    BY <1>2, <1>7, <2>2, <2>3 DEF IngressFits, LabelFits
  <2>7. Len(history'[i]) > 1
    BY <1>4, <1>8, <2>2
  <2>8. YoungFits(i)' /\ DeletedFits(i)'
    BY <1>4, <2>7 DEF YoungFits, Young, DeletedFits
  <2>9. HostFits(i)'
    BY <1>5, <1>7, <2>2, <2>3 DEF IngressFits, HostFits
  <2> QED
    <3>1. IngressFits(R, i)'
      BY <2>5, <2>6, <2>8, <2>9 DEF IngressFits
    <3>2. ~Young(i)'
      BY <1>4, <2>7 DEF Young
    <3> QED
      <4>1. ASSUME NEW c \in AlbConfig PROVE GroupFits(c)'
        <5>1. SameGroup(c) /\ GroupFits(c)
          BY <1>2, <1>3, GroupSame DEF Fits
        <5>2. Due(c) => Due(c)'
          BY <1>2 DEF Due
        <5>3. \A j \in Members(c) : Young(j)' => Young(j)
          BY <1>2, <3>2 DEF Young, Members, Group, ListIngresses
        <5> QED
          BY <1>2, <5>1, <5>2, <5>3, GroupKept
      <4> QED
        BY <1>6, <3>1, <4>1 DEF Fits
<1>10. ASSUME NEW o, ing'[i] = o, DeleteIngress(i) \/ CreateIngress(i),
              o # None => /\ seen[i] # None => /\ ing[i] # None /\ o.v = ing[i].v /\ o.n = ing[i].n
                                               /\ o.deleting
                          /\ o.label # None => ing[i] # None /\ o.label = ing[i].label
                          /\ o.host # None => ing[i] # None /\ o.host = ing[i].host
                          /\ o.deleting => ing[i] # None
                          /\ Len(history[i]) = 0 => o.label = None /\ seen[i] = None
       PROVE  Fits(R)'
  <2>1. Follows(R, i)' /\ LabelFits(R, i)'
    BY <1>2, <1>7, <1>10 DEF IngressFits, Follows, LabelFits
  <2>2. HostFits(i)'
    BY <1>5, <1>7, <1>10 DEF IngressFits, HostFits
  <2>3. DeletedFits(i)'
    BY <1>2, <1>4, <1>7, <1>8, <1>10 DEF IngressFits, DeletedFits
  <2>4. YoungFits(i)'
    <3> SUFFICES ASSUME Young(i)' PROVE YoungFits(i)'
      BY DEF YoungFits
    <3>1. Len(history[i]) = 0 /\ o # None
      <4>1. Len(history'[i]) = 1 /\ ing'[i] # None
        BY DEF Young
      <4>2. Len(history[i]) + 1 = 1
        BY <1>4, <4>1
      <4>3. Len(history[i]) = 0
        BY <1>4, <4>2
      <4> QED
        BY <1>10, <4>1, <4>3
    <3>2. o.label = None /\ seen[i] = None /\ ~o.deleting
      BY <1>4, <1>8, <1>10, <3>1
    <3>3. \A c \in AlbConfig : i \notin DOMAIN pass[c].members
      BY <1>4, <1>7, <3>1 DEF IngressFits, DeletedFits
    <3> QED
      BY <1>2, <1>10, <3>2, <3>3 DEF YoungFits
  <2>5. IngressFits(R, i)'
    BY <2>1, <2>2, <2>3, <2>4 DEF IngressFits
  <2>6. seen[i] # None => ~Young(i)'
    <3>1. seen[i] # None => Len(history[i]) > 0
      BY <1>1, <1>4 DEF ObjectFits
    <3> QED
      BY <1>4, <3>1 DEF Young
  <2>7. ASSUME NEW c \in AlbConfig PROVE GroupFits(c)'
    <3>1. SameGroup(c) /\ GroupFits(c)
      BY <1>2, <1>3, GroupSame DEF Fits
    <3>2. Due(c) => Due(c)'
      BY <1>2 DEF Due
    <3>3. \A j \in Members(c) : Young(j)' => Young(j)
      BY <1>2, <2>6 DEF Young, Members, Group, ListIngresses
    <3> QED
      BY <1>2, <3>1, <3>2, <3>3, GroupKept
  <2> QED
    BY <1>6, <2>5, <2>7 DEF Fits
<1>11. CASE DeleteIngress(i)
  <2>1. /\ ing[i] # None /\ ing[i] \in Object /\ Len(history[i]) > 0
        /\ ing'[i] = IF ing[i].fin THEN [ing[i] EXCEPT !.deleting = TRUE] ELSE None
    BY <1>1, <1>8, <1>11 DEF DeleteIngress, Shapes
  <2>2. PICK o : o = ing'[i]
    OBVIOUS
  <2>3. o # None => /\ o.v = ing[i].v /\ o.n = ing[i].n /\ o.deleting
                    /\ o.label = ing[i].label /\ o.host = ing[i].host
    BY <2>1, <2>2 DEF Object
  <2>4. Len(history[i]) # 0
    BY <1>4, <2>1
  <2> QED
    BY <1>10, <1>11, <2>1, <2>2, <2>3, <2>4
<1>12. CASE CreateIngress(i)
  <2>1. PICK v \in Fresh : ing' = [ing EXCEPT ![i] = New(v, FALSE, Len(history[i]) + 1)]
    BY <1>12 DEF CreateIngress
  <2>2. PICK o : o = ing'[i]
    OBVIOUS
  <2>3. o.label = None /\ o.host = None /\ ~o.deleting /\ seen[i] = None
    BY <1>1, <1>12, <2>1, <2>2 DEF New, Shapes, CreateIngress
  <2> QED
    BY <1>10, <1>12, <2>2, <2>3
<1> QED
  BY <1>9, <1>11, <1>12

-----------------------------------------------------------------------------
(* Steps of the informers                                                  *)

\* A label that fits what the API server has was written for what the store
\* has: the version, and whether it is being deleted, are the same.
LEMMA LabelledSeen ==
  ASSUME RoutingInv, NEW R, EditsForward(R), NEW i \in Ingress, IngressFits(R, i),
         ing[i] # None, ~IsIngressHashChanged(ing[i])
  PROVE  /\ seen[i] # None /\ seen[i].v = ing[i].v /\ seen[i].n = ing[i].n
         /\ seen[i].deleting = ing[i].deleting
<1>1. Shapes
  BY DEF RoutingInv
<1>2. ing[i] \in Object /\ (seen[i] # None => seen[i] \in Object)
  BY <1>1 DEF Shapes
<1>3. /\ ing[i].v \in Version /\ ing[i].deleting \in BOOLEAN
      /\ seen[i] # None => seen[i].v \in Version /\ seen[i].deleting \in BOOLEAN
  BY <1>2 DEF Object
<1>4. ing[i].label = <<ing[i].v, ing[i].deleting>>
  BY DEF IsIngressHashChanged, Hash
<1>5. ing[i].label # None
  <2>1. ing[i].label \in Version \X BOOLEAN
    BY <1>3, <1>4
  <2> QED
    BY <2>1, StartAssumption
<1>6. /\ seen[i] # None /\ (ing[i].v = seen[i].v \/ <<ing[i].v, seen[i].v>> \in R)
      /\ ing[i].deleting => seen[i].deleting
  BY <1>4, <1>5 DEF IngressFits, LabelFits
<1>7. /\ (seen[i].v = ing[i].v /\ seen[i].n = ing[i].n) \/ <<seen[i].v, ing[i].v>> \in R
      /\ seen[i].deleting => ing[i].deleting
  BY <1>6 DEF IngressFits, Follows
<1>8. seen[i].v = ing[i].v
  BY <1>3, <1>6, <1>7 DEF EditsForward
<1>9. seen[i].n = ing[i].n
  BY <1>3, <1>6, <1>7, <1>8 DEF EditsForward
<1> QED
  BY <1>3, <1>6, <1>7, <1>8, <1>9

\* An event added to the queue is due unless it is skipped.
LEMMA EventDue ==
  ASSUME RoutingInv, UNCHANGED cacheClass, NEW x \in Seq(EventSet), queue' = queue \o x,
         NEW n \in DOMAIN x, ~Skipped(x[n]), NEW c, LoadGroupID(x[n].o.v, cacheClass) = c
  PROVE  Due(c)'
<1>1. queue \in Seq(EventSet)
  BY DEF RoutingInv, Shapes
<1>2. Len(queue) + n \in DOMAIN queue' /\ queue'[Len(queue) + n] = x[n]
  BY <1>1
<1>3. ~Skipped(queue'[Len(queue) + n])
  BY <1>2
<1>4. LoadGroupID(queue'[Len(queue) + n].o.v, cacheClass') = c
  BY <1>2
<1> QED
  BY <1>2, <1>3, <1>4 DEF Due

\* The events about an Ingress name the AlbConfigs it leaves, joins or asks
\* for something new.
LEMMA EventsTell ==
  ASSUME RoutingInv, RoutingInv', NEW R, EditsForward(R), NEW i \in Ingress, IngressFits(R, i),
         SeeIngress(i), NEW c \in AlbConfig
  PROVE  Due(c)' \/ SameGroup(c)
<1> DEFINE old == seen[i]
           new == ing[i]
           x   == IngressEvents(i, old, new)
           was == old # None /\ IsValid(old, storeClass)
           is  == new # None /\ IsValid(new, storeClass)
<1>1. Shapes
  BY DEF RoutingInv
<1>2. /\ seen' = [seen EXCEPT ![i] = new] /\ queue' = queue \o x
      /\ UNCHANGED <<storeClass, cacheClass>>
  BY DEF SeeIngress
<1>3. /\ old \in Object \cup {None} /\ new \in Object \cup {None} /\ seen'[i] = new
      /\ \A j \in Ingress \ {i} : seen'[j] = seen[j]
  BY <1>1, <1>2 DEF Shapes
<1>4. x \in Seq(EventSet)
  BY <1>3, EventsSeq
<1>5. /\ old # None => old.v \in Version /\ old.deleting \in BOOLEAN
      /\ new # None => new.v \in Version /\ new.deleting \in BOOLEAN
  BY <1>3 DEF Object
<1>6. /\ \A j \in Ingress \ {i} : j \in Members(c)' <=> j \in Members(c)
      /\ Members(c) \subseteq Ingress /\ Members(c)' \subseteq Ingress
  BY <1>2, <1>3 DEF Members, Group, ListIngresses
<1>7. /\ i \in Members(c) <=> was /\ ~old.deleting /\ LoadGroupID(old.v, cacheClass) = c
      /\ i \in Members(c)' <=> is /\ ~new.deleting /\ LoadGroupID(new.v, cacheClass) = c
  BY <1>2, <1>3 DEF Members, Group, ListIngresses
<1>8. ASSUME i \in Members(c)' <=> i \in Members(c),
             i \in Members(c) => new.v = old.v /\ new.n = old.n
      PROVE  SameGroup(c)
  BY <1>3, <1>6, <1>8 DEF SameGroup
<1>9. ASSUME new # None, ~IsIngressHashChanged(new)
      PROVE  old # None /\ old.v = new.v /\ old.n = new.n /\ old.deleting = new.deleting
  BY <1>9, LabelledSeen
<1>10. ASSUME was, ~is, i \in Members(c) PROVE Due(c)'
  <2>1. x = <<Event("IngressDelete", i, old)>>
    BY <1>10 DEF IngressEvents
  <2>2. /\ 1 \in DOMAIN x /\ ~Skipped(x[1]) /\ LoadGroupID(x[1].o.v, cacheClass) = c
    BY <1>7, <1>10, <2>1 DEF Event, Skipped
  <2> HIDE DEF x
  <2> QED
    BY <1>2, <1>4, <2>2, EventDue
<1>11. ASSUME is, IsIngressHashChanged(new), LoadGroupID(new.v, cacheClass) = c PROVE Due(c)'
  <2>1. PICK t \in {"Create", "Update"}, n \in DOMAIN x : x[n] = Event(t, i, new)
    <3>1. CASE was
      <4> DEFINE first == IF IsIngressClassUpdate(old, new) THEN <<Event("AlbConfig", i, old)>>
                                                            ELSE <<>>
      <4>1. x = first \o <<Event("Update", i, new)>>
        BY <1>11, <3>1 DEF IngressEvents
      <4>2. CASE IsIngressClassUpdate(old, new)
        <5>1. x = <<Event("AlbConfig", i, old)>> \o <<Event("Update", i, new)>>
          BY <4>1, <4>2
        <5>2. 2 \in DOMAIN x /\ x[2] = Event("Update", i, new)
          BY <5>1
        <5> HIDE DEF x
        <5> QED
          BY <5>2
      <4>3. CASE ~IsIngressClassUpdate(old, new)
        <5>1. x = <<>> \o <<Event("Update", i, new)>>
          BY <4>1, <4>3
        <5>2. 1 \in DOMAIN x /\ x[1] = Event("Update", i, new)
          BY <5>1
        <5> HIDE DEF x
        <5> QED
          BY <5>2
      <4> QED
        BY <4>2, <4>3
    <3>2. CASE ~was
      <4>1. x = <<Event(IF old = None THEN "Create" ELSE "Update", i, new)>>
        BY <1>11, <3>2 DEF IngressEvents
      <4>2. 1 \in DOMAIN x /\ x[1] = Event(IF old = None THEN "Create" ELSE "Update", i, new)
        BY <4>1
      <4> HIDE DEF x
      <4> QED
        BY <4>2
    <3> QED
      BY <3>1, <3>2
  <2>2. ~Skipped(x[n]) /\ LoadGroupID(x[n].o.v, cacheClass) = c
    BY <1>11, <2>1 DEF Event, Skipped
  <2> HIDE DEF x
  <2> QED
    BY <1>2, <1>4, <2>2, EventDue
<1>12. ASSUME was, is, Attr[old.v].class # Attr[new.v].class, i \in Members(c) PROVE Due(c)'
  <2>1. x = <<Event("AlbConfig", i, old)>> \o <<Event("Update", i, new)>>
    BY <1>12 DEF IngressEvents, IsIngressClassUpdate
  <2>2. 1 \in DOMAIN x /\ x[1] = Event("AlbConfig", i, old)
    BY <2>1
  <2>3. ~Skipped(x[1]) /\ LoadGroupID(x[1].o.v, cacheClass) = c
    BY <1>7, <1>12, <2>2 DEF Event, Skipped
  <2> HIDE DEF x
  <2> QED
    BY <1>2, <1>4, <2>2, <2>3, EventDue
<1>13. was /\ is => \/ old.v = new.v /\ old.n = new.n
                    \/ <<old.v, new.v>> \in R
  BY DEF IngressFits, Follows
<1>14. old # None /\ new # None /\ old.deleting => new.deleting
  BY DEF IngressFits, Follows
<1> HIDE DEF x
<1>15. CASE i \in Members(c)
  <2>1. was /\ ~old.deleting /\ LoadGroupID(old.v, cacheClass) = c
    BY <1>7, <1>15
  <2>2. CASE ~is
    BY <1>10, <1>15, <2>1, <2>2
  <2>3. CASE is /\ old.v = new.v /\ old.n = new.n
    <3>1. CASE new.deleting
      BY <1>9, <1>11, <2>1, <2>3, <3>1
    <3>2. CASE ~new.deleting
      BY <1>7, <1>8, <1>15, <2>1, <2>3, <3>2
    <3> QED
      BY <3>1, <3>2
  <2>4. CASE is /\ <<old.v, new.v>> \in R
    <3>1. old.v \in Version /\ new.v \in Version /\ old.v # new.v
      BY <1>5, <2>1, <2>4 DEF EditsForward
    <3>2. CASE Attr[old.v].class # Attr[new.v].class
      BY <1>12, <1>15, <2>1, <2>4, <3>2
    <3>3. CASE Attr[old.v].class = Attr[new.v].class
      <4>1. Attr[old.v].config = Attr[new.v].config
        BY <2>4, <3>1, <3>3 DEF EditsForward
      <4>2. LoadGroupID(new.v, cacheClass) = c
        BY <2>1, <3>3, <4>1 DEF LoadGroupID, IngressClass
      <4> QED
        BY <1>9, <1>11, <2>4, <3>1, <4>2
    <3> QED
      BY <3>2, <3>3
  <2> QED
    BY <1>13, <2>1, <2>2, <2>3, <2>4
<1>16. CASE i \notin Members(c) /\ i \in Members(c)'
  <2>1. is /\ ~new.deleting /\ LoadGroupID(new.v, cacheClass) = c
    BY <1>7, <1>16
  <2>2. IsIngressHashChanged(new)
    <3> SUFFICES ASSUME ~IsIngressHashChanged(new) PROVE FALSE
      OBVIOUS
    <3>1. old # None /\ old.v = new.v /\ old.deleting = new.deleting
      BY <1>9, <2>1
    <3>2. was
      BY <2>1, <3>1 DEF IsValid
    <3> QED
      BY <1>7, <1>16, <2>1, <3>1, <3>2
  <2> QED
    BY <1>11, <2>1, <2>2
<1>17. CASE i \notin Members(c) /\ i \notin Members(c)'
  BY <1>8, <1>17
<1> QED
  BY <1>15, <1>16, <1>17

\* A group somebody will be told of
LEMMA GroupDue ==
  ASSUME NEW c \in AlbConfig, GroupFits(c), Due(c)', UNCHANGED <<cfg, cfgCache, pass>>
  PROVE  GroupFits(c)'
BY DEF GroupFits

\* The store's informer delivers an Ingress.
LEMMA RestSee ==
  ASSUME RoutingInv, RoutingInv', NEW R, EditsForward(R), Fits(R), NEW i \in Ingress, SeeIngress(i)
  PROVE  Fits(R)'
<1>1. Shapes /\ ClassesFit
  BY DEF RoutingInv
<1>2. /\ seen' = [seen EXCEPT ![i] = ing[i]] /\ queue' = queue \o IngressEvents(i, seen[i], ing[i])
      /\ UNCHANGED <<ing, class, storeClass, cacheClass, cfg, cfgCache, acQueue, pass, served, history>>
  BY DEF SeeIngress, user
<1>3. seen'[i] = ing[i] /\ \A j \in Ingress \ {i} : seen'[j] = seen[j]
  BY <1>1, <1>2 DEF Shapes
<1>4. ClassesMove /\ ClassesKept /\ HistoryGrows
  <2>1. \A j \in Ingress : Len(history[j]) \in Nat
    BY <1>1 DEF Shapes
  <2> QED
    BY <1>1, <1>2, <2>1, ClassesSame DEF ClassesMove, Shapes, HistoryGrows
<1>5. ASSUME NEW j \in Ingress
      PROVE  \A k \in DOMAIN history[j] : Asks(j, k) # None => Asks(j, k)' = Asks(j, k)
  BY <1>4, AsksStay
<1>6. ASSUME NEW j \in Ingress, j # i PROVE IngressFits(R, j)'
  BY <1>2, <1>3, <1>5, <1>6, IngressKept DEF Fits
<1>7. IngressFits(R, i)
  BY DEF Fits
<1>8. /\ ing[i] # None => ing[i].v \in Version
      /\ seen[i] # None => seen[i].v \in Version
      /\ ing[i] # None /\ ing[i].label # None => ing[i].label[1] \in Version
  <2>1. ing[i] \in Object \cup {None} /\ seen[i] \in Object \cup {None}
    BY <1>1 DEF Shapes
  <2> QED
    BY <2>1 DEF Object
<1>9. IngressFits(R, i)'
  <2>1. Follows(R, i)'
    BY <1>2, <1>3 DEF Follows
  <2>2. LabelFits(R, i)'
    <3> SUFFICES ASSUME ing[i] # None, ing[i].label # None
                 PROVE  /\ ing[i].label[1] = ing[i].v \/ <<ing[i].label[1], ing[i].v>> \in R
                        /\ ing[i].label[2] => ing[i].deleting
      BY <1>2, <1>3 DEF LabelFits
    <3>1. /\ seen[i] # None
          /\ ing[i].label[1] = seen[i].v \/ <<ing[i].label[1], seen[i].v>> \in R
          /\ ing[i].label[2] => seen[i].deleting
      BY <1>7 DEF IngressFits, LabelFits
    <3>2. /\ seen[i].v = ing[i].v \/ <<seen[i].v, ing[i].v>> \in R
          /\ seen[i].deleting => ing[i].deleting
      BY <1>7, <3>1 DEF IngressFits, Follows
    <3> QED
      BY <1>8, <3>1, <3>2 DEF EditsForward
  <2>3. YoungFits(i)' /\ DeletedFits(i)'
    BY <1>2, <1>3, <1>7 DEF IngressFits, YoungFits, Young, DeletedFits
  <2>4. HostFits(i)'
    BY <1>2, <1>5, <1>7 DEF IngressFits, HostFits
  <2> QED
    BY <2>1, <2>2, <2>3, <2>4 DEF IngressFits
<1>10. ASSUME NEW c \in AlbConfig PROVE GroupFits(c)'
  <2>1. GroupFits(c) /\ (Due(c)' \/ SameGroup(c))
    BY <1>7, EventsTell DEF Fits
  <2>2. CASE Due(c)'
    BY <1>2, <2>1, <2>2, GroupDue
  <2>3. CASE SameGroup(c)
    <3>1. IngressEvents(i, seen[i], ing[i]) \in Seq(EventSet)
      BY <1>1, EventsSeq DEF Shapes
    <3>2. Due(c) => Due(c)'
      BY <1>2, <1>4, <3>1, DueKept
    <3>3. \A j \in Members(c) : Young(j)' => Young(j)
      BY <1>2 DEF Young
    <3> QED
      BY <1>2, <2>1, <2>3, <3>2, <3>3, GroupKept
  <2> QED
    BY <2>1, <2>2, <2>3
<1> QED
  BY <1>6, <1>9, <1>10 DEF Fits

\* A step that leaves the Ingresses and the passes alone.
LEMMA RestIngresses ==
  ASSUME RoutingInv, RoutingInv', ClassesMove, NEW R, Fits(R), UNCHANGED <<ing, seen, history>>,
         \A d \in AlbConfig : pass'[d] = pass[d] \/ Rests(pass'[d])
  PROVE  \A i \in Ingress : IngressFits(R, i)'
<1>1. \A j \in Ingress : Len(history[j]) \in Nat
  BY DEF RoutingInv, Shapes
<1>2. HistoryGrows
  BY <1>1 DEF HistoryGrows
<1>3. ASSUME NEW i \in Ingress PROVE IngressFits(R, i)'
  <2>1. \A k \in DOMAIN history[i] : Asks(i, k) # None => Asks(i, k)' = Asks(i, k)
    BY <1>2, AsksStay
  <2> QED
    BY <2>1, IngressKept DEF Fits
<1> QED
  BY <1>3

\* The informers deliver an IngressClass: the Ingresses it makes valid are
\* told of.
LEMMA RestClass ==
  ASSUME RoutingInv, RoutingInv', NEW R, Fits(R), NEW k \in Class, SeeClass(k) \/ CacheClass(k)
  PROVE  Fits(R)'
<1>1. Shapes /\ ClassesFit
  BY DEF RoutingInv
<1>2. UNCHANGED <<ing, seen, class, cfg, cfgCache, acQueue, pass, served, history>>
  BY DEF SeeClass, CacheClass, user
<1>3. ClassesMove
  <2>1. CASE SeeClass(k)
    BY <1>1, <2>1 DEF ClassesMove, Shapes, SeeClass, user
  <2>2. CASE CacheClass(k)
    BY <1>1, <2>2 DEF ClassesMove, Shapes, CacheClass, user
  <2> QED
    BY <2>1, <2>2
<1>4. ClassesKept
  BY <1>1, <1>3, ClassStep
<1>5. \A i \in Ingress : IngressFits(R, i)'
  BY <1>2, <1>3, RestIngresses
<1>6. \A j : Young(j)' => Young(j)
  BY <1>2 DEF Young
<1>7. CASE CacheClass(k)
  <2>1. UNCHANGED <<storeClass, queue>>
    BY <1>7 DEF CacheClass
  <2>2. ASSUME NEW c \in AlbConfig PROVE GroupFits(c)'
    <3>1. SameGroup(c) /\ GroupFits(c)
      BY <1>2, <1>3, <2>1, GroupSame DEF Fits
    <3>2. <<>> \in Seq(EventSet) /\ queue' = queue \o <<>>
      BY <1>1, <2>1 DEF Shapes
    <3>3. Due(c) => Due(c)'
      BY <1>4, <3>2, DueKept
    <3> QED
      BY <1>2, <1>6, <3>1, <3>3, GroupKept
  <2> QED
    BY <1>5, <2>2 DEF Fits
<1>8. CASE SeeClass(k)
  <2>1. storeClass' = [storeClass EXCEPT ![k] = class[k]] /\ cacheClass' = cacheClass /\ storeClass[k] # class[k]
    BY <1>8 DEF SeeClass
  <2>2. PICK order \in [1..Cardinality(Impacted(k)) -> Impacted(k)] :
          /\ \A i \in Impacted(k) : \E n \in DOMAIN order : order[n] = i
          /\ queue' = queue \o [n \in DOMAIN order |-> Event("Ingress", order[n], seen[order[n]])]
    BY <1>8 DEF SeeClass
  <2> DEFINE x == [n \in DOMAIN order |-> Event("Ingress", order[n], seen[order[n]])]
  <2>3. x \in Seq(EventSet)
    <3>1. Cardinality(Impacted(k)) \in Nat
      <4>1. Impacted(k) \subseteq Ingress
        BY DEF Impacted
      <4> QED
        BY <4>1, FS_CardinalityType, FS_Subset, StartAssumption
    <3>2. ASSUME NEW n \in DOMAIN order PROVE x[n] \in EventSet
      <4>1. order[n] \in Ingress /\ seen[order[n]] \in Object
        BY <1>1 DEF Impacted, Shapes
      <4> QED
        BY <4>1 DEF Event, EventSet, EventType
    <3>3. DOMAIN order = 1..Cardinality(Impacted(k))
      OBVIOUS
    <3>4. x \in [1..Cardinality(Impacted(k)) -> EventSet]
      BY <3>2, <3>3
    <3> HIDE DEF x
    <3> QED
      BY <3>1, <3>4
  <2>4. k = Alb /\ storeClass[Alb] = None
    BY <1>1, <2>1 DEF ClassesFit
  <2>5. \A j \in Class : storeClass[j] # None => storeClass'[j] = storeClass[j]
    BY <1>1, <2>1, <2>4 DEF Shapes
  <2>6. \A j \in Class \ {k} : storeClass'[j] = storeClass[j]
    BY <1>1, <2>1 DEF Shapes
  <2>7. ASSUME NEW i \in Ingress, seen[i] # None
        PROVE  /\ seen[i].v \in Version /\ Attr[seen[i].v].class \in Class
               /\ IsValid(seen[i], storeClass) => IsValid(seen[i], storeClass')
               /\ IsValid(seen[i], storeClass') => IsValid(seen[i], storeClass) \/ i \in Impacted(k)
    <3>1. seen[i].v \in Version
      BY <1>1, <2>7 DEF Shapes, Object
    <3>2. Attr[seen[i].v].class \in Class
      BY <3>1, StartAssumption
    <3>3. IsValid(seen[i], storeClass) => IsValid(seen[i], storeClass')
      BY <2>5, <3>2 DEF IsValid
    <3>4. IsValid(seen[i], storeClass') => IsValid(seen[i], storeClass) \/ i \in Impacted(k)
      BY <2>4, <2>6, <2>7, <3>2 DEF IsValid, Impacted
    <3> QED
      BY <3>1, <3>2, <3>3, <3>4
  <2>8. ASSUME NEW c \in AlbConfig PROVE Due(c)' \/ SameGroup(c)
    <3>1. CASE \E i \in Impacted(k) : LoadGroupID(seen[i].v, cacheClass) = c
      <4>1. PICK i \in Impacted(k) : LoadGroupID(seen[i].v, cacheClass) = c
        BY <3>1
      <4>2. PICK n \in DOMAIN order : order[n] = i
        BY <2>2
      <4>3. n \in DOMAIN x /\ x[n] = Event("Ingress", i, seen[i])
        BY <4>2
      <4>4. ~Skipped(x[n]) /\ LoadGroupID(x[n].o.v, cacheClass) = c
        BY <4>1, <4>3 DEF Event, Skipped
      <4>5. queue' = queue \o x
        BY <2>2
      <4> HIDE DEF x
      <4> QED
        BY <2>1, <2>3, <4>3, <4>4, <4>5, EventDue
    <3>2. CASE ~\E i \in Impacted(k) : LoadGroupID(seen[i].v, cacheClass) = c
      <4>1. Members(c)' = Members(c)
        BY <1>2, <2>1, <2>7, <3>2 DEF Members, Group, ListIngresses
      <4> QED
        BY <1>2, <4>1 DEF SameGroup
    <3> QED
      BY <3>1, <3>2
  <2>9. ASSUME NEW c \in AlbConfig PROVE GroupFits(c)'
    <3>1. GroupFits(c) /\ queue' = queue \o x
      BY <2>2 DEF Fits
    <3>2. CASE Due(c)'
      BY <1>2, <3>1, <3>2, GroupDue
    <3>3. CASE SameGroup(c)
      <4> HIDE DEF x
      <4>1. Due(c) => Due(c)'
        BY <1>4, <2>3, <3>1, DueKept
      <4> QED
        BY <1>2, <1>6, <3>1, <3>3, <4>1, GroupKept
    <3> QED
      BY <2>8, <3>2, <3>3
  <2> QED
    BY <1>5, <2>9 DEF Fits
<1> QED
  BY <1>7, <1>8

\* The cache shows an AlbConfig, or a listener is added to it: ports no pass
\* has applied are not in the label.
LEMMA RestConfig ==
  ASSUME RoutingInv, RoutingInv', NEW R, Fits(R), NEW c \in AlbConfig,
         CacheAlbConfig(c) \/ AddListener(c)
  PROVE  Fits(R)'
<1>1. Shapes /\ ListenersFit /\ ClassesFit
  BY DEF RoutingInv
<1>2. UNCHANGED <<ing, seen, class, storeClass, cacheClass, queue, pass, served, history>>
  BY DEF CacheAlbConfig, AddListener, user
<1>3. ClassesMove
  BY <1>1, <1>2 DEF ClassesMove, Shapes
<1>4. \A i \in Ingress : IngressFits(R, i)'
  BY <1>2, <1>3, RestIngresses
<1>5. (\A j : Young(j)' => Young(j)) /\ \A d : Due(d) => Due(d)'
  BY <1>2 DEF Young, Due
<1>6. ASSUME NEW d \in AlbConfig PROVE SameGroup(d) /\ GroupFits(d)
  BY <1>2, <1>3, GroupSame DEF Fits
<1>7. CASE AddListener(c)
  <2>1. PICK p : cfg' = [cfg EXCEPT ![c].listeners = @ \cup {p}]
    BY <1>7 DEF AddListener
  <2>2. UNCHANGED <<cfgCache, acQueue>>
    BY <1>7 DEF AddListener
  <2>3. ASSUME NEW d \in AlbConfig
        PROVE  cfg[d].listeners \subseteq cfg'[d].listeners /\ cfg'[d].label = cfg[d].label
    <3>1. ConfigRecord(cfg[d]) /\ cfg'[d] = IF d = c THEN [cfg[d] EXCEPT !.listeners = @ \cup {p}] ELSE cfg[d]
      BY <1>1, <2>1 DEF Shapes
    <3> QED
      BY <3>1 DEF ConfigRecord
  <2>4. ASSUME NEW d \in AlbConfig PROVE GroupFits(d)'
    BY <1>2, <1>5, <1>6, <2>2, <2>3, GroupKept
  <2> QED
    BY <1>4, <2>4 DEF Fits
<1>8. CASE CacheAlbConfig(c)
  <2>1. /\ cfg' = cfg /\ cfgCache' = [cfgCache EXCEPT ![c] = cfg[c]]
        /\ acQueue' = IF cfg[c].listeners # cfgCache[c].listeners /\ cfg[c].label # cfg[c].listeners
                      THEN acQueue \cup {c} ELSE acQueue
    BY <1>8 DEF CacheAlbConfig
  <2>2. cfgCache'[c] = cfg[c] /\ \A d \in AlbConfig \ {c} : cfgCache'[d] = cfgCache[d]
    BY <1>1, <2>1 DEF Shapes
  <2>3. ASSUME NEW d \in AlbConfig, cfgCache'[d].listeners = cfgCache[d].listeners PROVE GroupFits(d)'
    BY <1>2, <1>5, <1>6, <2>1, <2>3, GroupKept
  <2>4. ASSUME cfg[c].listeners # cfgCache[c].listeners PROVE GroupFits(c)'
    <3>1. /\ cfg[c].label \subseteq cfgCache[c].listeners
          /\ cfgCache[c].listeners \subseteq cfg[c].listeners
          /\ pass[c].pc # "idle" => pass[c].listeners \subseteq cfgCache[c].listeners
          /\ Due(c) \/ GroupPorts(c) \subseteq cfg[c].listeners
      BY <1>1, <1>6 DEF GroupFits, ListenersFit
    <3>2. c \in acQueue'
      BY <2>1, <2>4, <3>1
    <3>3. GroupPorts(c)' = GroupPorts(c)
      BY <1>6 DEF GroupPorts, SameGroup
    <3> QED
      BY <1>2, <1>5, <2>1, <2>2, <3>1, <3>2, <3>3 DEF GroupFits
  <2>5. ASSUME NEW d \in AlbConfig PROVE GroupFits(d)'
    BY <2>2, <2>3, <2>4
  <2> QED
    BY <1>4, <2>5 DEF Fits
<1> QED
  BY <1>7, <1>8

-----------------------------------------------------------------------------
(* Steps of the workers                                                    *)

\* An Ingress to which the controller writes label or finalizer.
LEMMA IngressWritten ==
  ASSUME NEW R, NEW i \in Ingress, IngressFits(R, i), seen'[i] = seen[i], history'[i] = history[i],
         \A k \in DOMAIN history[i] : Asks(i, k) # None => Asks(i, k)' = Asks(i, k),
         \A d \in AlbConfig : pass'[d] = pass[d] \/ Rests(pass'[d]),
         \/ ing'[i] = None
         \/ /\ ing[i] # None /\ ing'[i].v = ing[i].v /\ ing'[i].n = ing[i].n
            /\ ing'[i].deleting = ing[i].deleting /\ ing'[i].host = ing[i].host
            /\ Young(i) => ing'[i] = ing[i]
            /\ \/ ing'[i].label \in {None, ing[i].label}
               \/ seen[i] # None /\ ing'[i].label = Hash(seen[i])
  PROVE  IngressFits(R, i)' /\ (Young(i)' => Young(i))
<1>2. DeletedFits(i)'
  BY DEF IngressFits, DeletedFits, Rests
<1>3. CASE ing'[i] = None
  <2>1. Follows(R, i)' /\ LabelFits(R, i)' /\ YoungFits(i)' /\ HostFits(i)' /\ ~Young(i)'
    BY <1>3 DEF Follows, LabelFits, YoungFits, Young, HostFits
  <2> QED
    BY <1>2, <2>1 DEF IngressFits
<1>4. CASE ing'[i] # None
  <2>1. Young(i)' => Young(i) /\ ing'[i] = ing[i]
    BY <1>4 DEF Young
  <2>2. Follows(R, i)'
    BY <1>4 DEF IngressFits, Follows
  <2>3. LabelFits(R, i)'
    BY <1>4 DEF IngressFits, LabelFits, Hash
  <2>4. YoungFits(i)'
    BY <2>1 DEF IngressFits, YoungFits, Rests
  <2>5. HostFits(i)'
    BY <1>4 DEF IngressFits, HostFits
  <2> QED
    BY <1>2, <2>1, <2>2, <2>3, <2>4, <2>5 DEF IngressFits
<1> QED
  BY <1>3, <1>4

\* What is due for c stays so when an event is taken that is skipped, put
\* back or about another AlbConfig.
LEMMA TailDue ==
  ASSUME RoutingInv, UNCHANGED cacheClass, queue # <<>>, NEW c, Due(c),
         \/ /\ queue' = Tail(queue)
            /\ Skipped(Head(queue)) \/ LoadGroupID(Head(queue).o.v, cacheClass) # c
         \/ queue' = Append(Tail(queue), Head(queue))
  PROVE  Due(c)'
<1>1. queue \in Seq(EventSet) /\ Len(queue) \in Nat \ {0}
  BY DEF RoutingInv, Shapes
<1>2. PICK n \in DOMAIN queue : ~Skipped(queue[n]) /\ LoadGroupID(queue[n].o.v, cacheClass) = c
  BY DEF Due
<1>3. PICK m \in DOMAIN queue' : queue'[m] = queue[n]
  <2>1. CASE n = 1
    <3>1. queue[n] = Head(queue)
      BY <1>1, <2>1
    <3>2. queue' = Append(Tail(queue), Head(queue))
      BY <1>2, <3>1
    <3>3. Len(queue) \in DOMAIN queue' /\ queue'[Len(queue)] = Head(queue)
      BY <1>1, <3>2
    <3> QED
      BY <3>1, <3>3
  <2>2. CASE n # 1
    <3>1. n - 1 \in 1..(Len(queue) - 1)
      BY <1>1, <2>2
    <3>2. Tail(queue) \in Seq(EventSet) /\ Len(Tail(queue)) = Len(queue) - 1 /\ Tail(queue)[n - 1] = queue[n]
      BY <1>1, <3>1
    <3>3. Append(Tail(queue), Head(queue))[n - 1] = Tail(queue)[n - 1]
          /\ n - 1 \in DOMAIN Append(Tail(queue), Head(queue)) /\ n - 1 \in DOMAIN Tail(queue)
      BY <1>1, <3>1, <3>2
    <3> QED
      BY <3>2, <3>3
  <2> QED
    BY <2>1, <2>2
<1>4. ~Skipped(queue'[m]) /\ LoadGroupID(queue'[m].o.v, cacheClass') = c
  BY <1>2, <1>3
<1> QED
  BY <1>3, <1>4 DEF Due

\* The worker of syncQueue: an event leaves its AlbConfig in the queue of the
\* reconciler and the ports of the group in the AlbConfig.
LEMMA RestSync ==
  ASSUME RoutingInv, RoutingInv', ClassesMove, NEW R, Fits(R), Sync
  PROVE  Fits(R)'
<1>1. Shapes /\ ClassesFit /\ ListenersFit
  BY DEF RoutingInv
<1>2. /\ queue # <<>>
      /\ UNCHANGED <<seen, storeClass, cacheClass, cfgCache, pass, served, history>>
  BY DEF Sync, SyncSkip, SyncRetry, SyncIngress, user
<1>3. ASSUME NEW d \in AlbConfig PROVE SameGroup(d) /\ GroupFits(d)
  BY <1>2, GroupSame DEF Fits
<1>4. CASE SyncSkip \/ SyncRetry
  <2>1. UNCHANGED <<ing, cfg, acQueue>>
    BY <1>4 DEF SyncSkip, SyncRetry, user
  <2>2. \A i \in Ingress : IngressFits(R, i)'
    BY <1>2, <2>1, RestIngresses
  <2>3. ASSUME NEW d \in AlbConfig PROVE GroupFits(d)'
    <3>1. Due(d) => Due(d)'
      BY <1>2, <1>4, TailDue DEF SyncSkip, SyncRetry
    <3>2. \A j : Young(j)' => Young(j)
      BY <1>2, <2>1 DEF Young
    <3> QED
      BY <1>2, <1>3, <2>1, <3>1, <3>2, GroupKept
  <2> QED
    BY <2>2, <2>3 DEF Fits
<1>5. CASE SyncIngress
  <2> DEFINE e == Head(queue)
  <2>1. PICK c : c = LoadGroupID(e.o.v, cacheClass)
    OBVIOUS
  <2>2. /\ queue' = Tail(queue) /\ UpdateAccepted(c) /\ acQueue' = acQueue \cup {c}
        /\ cfg' = [cfg EXCEPT ![c].listeners = cfgCache[c].listeners \cup GroupPorts(c)]
        /\ RemoveIngressLabel(e.i) \/ ing' = ing
    BY <1>5, <2>1 DEF SyncIngress, Syncs
  <2> HIDE DEF e
  <2>3. ASSUME NEW i \in Ingress PROVE IngressFits(R, i)' /\ (Young(i)' => Young(i))
    <3>1. \A k \in DOMAIN history[i] : Asks(i, k) # None => Asks(i, k)' = Asks(i, k)
      <4>1. HistoryGrows
        <5>1. \A j \in Ingress : Len(history[j]) \in Nat
          BY <1>1 DEF Shapes
        <5> QED
          BY <1>2, <5>1 DEF HistoryGrows
      <4> QED
        BY <4>1, AsksStay
    <3>2. IngressFits(R, i)
      BY DEF Fits
    <3>3. \/ ing'[i] = ing[i]
          \/ ing[i] \in Object /\ ing'[i] = [ing[i] EXCEPT !.label = None]
      <4>1. CASE RemoveIngressLabel(e.i)
        <5>1. ing'[i] = IF i = e.i THEN IF ing[i] = None THEN None ELSE [ing[i] EXCEPT !.label = None]
                        ELSE ing[i]
          BY <1>1, <4>1 DEF RemoveIngressLabel, Shapes
        <5> QED
          BY <1>1, <5>1 DEF Shapes
      <4> QED
        BY <2>2, <4>1
    <3>4. CASE ing'[i] = ing[i]
      <4>1. ing'[i] = None \/ (ing[i] # None /\ ing'[i].label \in {None, ing[i].label})
        BY <3>4
      <4> QED
        BY <1>2, <3>1, <3>2, <3>4, <4>1, IngressWritten
    <3>5. CASE ing[i] \in Object /\ ing'[i] = [ing[i] EXCEPT !.label = None]
      <4>1. /\ ing'[i].v = ing[i].v /\ ing'[i].n = ing[i].n /\ ing'[i].deleting = ing[i].deleting
            /\ ing'[i].host = ing[i].host /\ ing'[i].label = None
            /\ ing[i].label = None => ing'[i] = ing[i]
        BY <3>5 DEF Object
      <4>2. ing[i] # None
        BY <3>5, StartAssumption
      <4>3. Young(i) => ing'[i] = ing[i]
        BY <3>2, <4>1 DEF IngressFits, YoungFits
      <4> QED
        BY <1>2, <3>1, <3>2, <4>1, <4>2, <4>3, IngressWritten
    <3> QED
      BY <3>3, <3>4, <3>5
  <2>4. ASSUME NEW d \in AlbConfig
        PROVE  /\ cfg'[d].label = cfg[d].label /\ cfg[d].listeners \subseteq cfg'[d].listeners
               /\ d = c => GroupPorts(c) \subseteq cfg'[d].listeners
    <3>1. ConfigRecord(cfg[d])
      BY <1>1 DEF Shapes
    <3>2. CASE d = c
      <4> DEFINE ports == cfgCache[c].listeners \cup GroupPorts(c)
      <4>1. cfg'[c] = [cfg[c] EXCEPT !.listeners = ports]
        BY <1>1, <2>2, <3>2 DEF Shapes
      <4>2. cfg[c].listeners \subseteq ports /\ GroupPorts(c) \subseteq ports
        BY <2>2 DEF UpdateAccepted
      <4> HIDE DEF ports
      <4>3. cfg'[c] = [listeners |-> ports, label |-> cfg[c].label]
        BY <3>1, <3>2, <4>1 DEF ConfigRecord
      <4> QED
        BY <3>2, <4>2, <4>3
    <3>3. CASE d # c
      <4>1. cfg'[d] = cfg[d]
        BY <1>1, <2>2, <3>3 DEF Shapes
      <4> QED
        BY <3>3, <4>1
    <3> QED
      BY <3>2, <3>3
  <2>5. \A j \in Ingress : Young(j)' => Young(j)
    BY <2>3
  <2>6. ASSUME NEW d \in AlbConfig PROVE GroupFits(d)'
    <3>1. CASE d # c
      <4>1. Due(d) => Due(d)'
        BY <1>2, <2>1, <2>2, <3>1, TailDue DEF e
      <4>2. \A j \in Members(d) : Young(j)' => Young(j)
        BY <2>5 DEF Members, Group, ListIngresses
      <4> QED
        BY <1>2, <1>3, <2>2, <2>4, <4>1, <4>2, GroupKept
    <3>2. CASE d = c
      <4>1. GroupPorts(c)' = GroupPorts(c)
        BY <1>3, <3>2 DEF GroupPorts, SameGroup
      <4>2. GroupFits(c) /\ c \in acQueue' /\ GroupPorts(c) \subseteq cfg'[c].listeners
            /\ cfg'[c].label = cfg[c].label
        BY <1>3, <2>2, <2>4, <3>2
      <4> QED
        BY <1>2, <3>2, <4>1, <4>2 DEF GroupFits
    <3> QED
      BY <3>1, <3>2
  <2> QED
    BY <2>3, <2>6 DEF Fits
<1> QED
  BY <1>4, <1>5 DEF Sync

\* A pass loads its group: nothing is due for it any more.
LEMMA RestLoad ==
  ASSUME RoutingInv, RoutingInv', NEW R, Fits(R), NEW c \in AlbConfig, LoadGroup(c)
  PROVE  Fits(R)'
<1>1. Shapes /\ ClassesFit /\ \A i \in Ingress : ObjectFits(i)
  BY DEF RoutingInv
<1> DEFINE q == [pc |-> "apply", members |-> [i \in Members(c) |-> seen[i]],
                 inactive |-> Inactive(c), listeners |-> cfgCache[c].listeners,
                 label |-> cfgCache[c].label, missing |-> NotStored, unnamed |-> FALSE]
<1>2. /\ acQueue' = acQueue \ {c} /\ pass' = [pass EXCEPT ![c] = q]
      /\ UNCHANGED <<ing, seen, class, storeClass, cacheClass, cfg, cfgCache, queue, served, history>>
  BY DEF LoadGroup, user
<1>3. /\ pass'[c] = q /\ \A d \in AlbConfig \ {c} : pass'[d] = pass[d]
      /\ q.pc = "apply" /\ DOMAIN q.members = Members(c) /\ q.listeners = cfgCache[c].listeners
      /\ q.inactive = Inactive(c) /\ \A i \in Members(c) : q.members[i] = seen[i]
  BY <1>1, <1>2 DEF Shapes
<1> HIDE DEF q
<1>4. ClassesMove
  BY <1>1, <1>2 DEF ClassesMove, Shapes
<1>5. ASSUME NEW i \in Ingress PROVE IngressFits(R, i)'
  <2>1. IngressFits(R, i)
    BY DEF Fits
  <2>2. Follows(R, i)' /\ LabelFits(R, i)'
    BY <1>2, <2>1 DEF IngressFits, Follows, LabelFits
  <2>3. HostFits(i)'
    <3>1. \A j \in Ingress : Len(history[j]) \in Nat
      BY <1>1 DEF Shapes
    <3>2. HistoryGrows
      BY <1>2, <3>1 DEF HistoryGrows
    <3>3. \A k \in DOMAIN history[i] : Asks(i, k) # None => Asks(i, k)' = Asks(i, k)
      BY <1>4, <3>2, AsksStay
    <3> QED
      BY <1>2, <2>1, <3>3 DEF IngressFits, HostFits
  <2>4. YoungFits(i)'
    <3>1. i \in Members(c) => seen[i] # None
      BY DEF Members, Group, ListIngresses
    <3> QED
      BY <1>2, <1>3, <2>1, <3>1 DEF IngressFits, YoungFits, Young
  <2>5. DeletedFits(i)'
    <3>1. i \in Inactive(c) => seen[i] # None /\ seen[i].deleting
      BY DEF Inactive, Group, ListIngresses
    <3>2. i \in Members(c) => Len(history[i]) > 0
      <4>1. Len(history[i]) \in Nat
        BY <1>1 DEF Shapes
      <4> QED
        BY <1>1, <4>1 DEF Members, Group, ListIngresses, ObjectFits
    <3> QED
      BY <1>2, <1>3, <2>1, <3>1, <3>2 DEF IngressFits, DeletedFits
  <2> QED
    BY <2>2, <2>3, <2>4, <2>5 DEF IngressFits
<1>6. ASSUME NEW d \in AlbConfig PROVE GroupFits(d)'
  <2>1. SameGroup(d) /\ GroupFits(d)
    BY <1>2, <1>4, GroupSame DEF Fits
  <2>2. (Due(d) => Due(d)') /\ \A j : Young(j)' => Young(j)
    BY <1>2 DEF Due, Young
  <2>3. CASE d # c
    BY <1>2, <1>3, <2>1, <2>2, <2>3, GroupKept
  <2>4. CASE d = c
    <3>1. Loaded(c)' /\ pass'[c].pc = "apply" /\ pass'[c].listeners = cfgCache'[c].listeners
      BY <1>2, <1>3, <2>1, <2>4 DEF Loaded, SameGroup
    <3>2. GroupPorts(c)' = GroupPorts(c)
      BY <2>1, <2>4 DEF GroupPorts, SameGroup
    <3> QED
      BY <1>2, <2>1, <2>2, <2>4, <3>1, <3>2 DEF GroupFits
  <2> QED
    BY <2>3, <2>4
<1> QED
  BY <1>5, <1>6 DEF Fits

\* A step of a pass that ends it and writes labels and finalizers
LEMMA RestEnd ==
  ASSUME RoutingInv, RoutingInv', NEW R, Fits(R), NEW c \in AlbConfig,
         NEW x, Rests(x), pass' = [pass EXCEPT ![c] = x],
         UNCHANGED <<seen, class, storeClass, cacheClass, history, cfgCache, queue>>,
         NEW s \in SUBSET Ingress, s = {} \/ (pass[c].pc = "label" /\ s \subseteq DOMAIN pass[c].members),
         \A i \in s : ing[i] # None /\ seen[i] # None,
         ing' = RemoveGroupFinalizer([i \in Ingress |-> IF i \in s THEN AddIngressLabel(ing[i], seen[i])
                                                                   ELSE ing[i]], pass[c].inactive)
  PROVE  /\ \A i \in Ingress : IngressFits(R, i)' /\ (Young(i)' => Young(i))
         /\ pass'[c] = x /\ \A d \in AlbConfig \ {c} : pass'[d] = pass[d]
         /\ \A d \in AlbConfig : SameGroup(d)
<1>1. Shapes /\ ClassesFit
  BY DEF RoutingInv
<1>2. pass'[c] = x /\ \A d \in AlbConfig \ {c} : pass'[d] = pass[d]
  BY <1>1 DEF Shapes
<1>3. ClassesMove
  BY <1>1 DEF ClassesMove, Shapes
<1>4. HistoryGrows
  <2>1. \A j \in Ingress : Len(history[j]) \in Nat
    BY <1>1 DEF Shapes
  <2> QED
    BY <2>1 DEF HistoryGrows
<1>5. ASSUME NEW i \in Ingress PROVE IngressFits(R, i)' /\ (Young(i)' => Young(i))
  <2>1. IngressFits(R, i)
    BY DEF Fits
  <2>2. \A k \in DOMAIN history[i] : Asks(i, k) # None => Asks(i, k)' = Asks(i, k)
    BY <1>3, <1>4, AsksStay
  <2> DEFINE t == IF i \in s THEN AddIngressLabel(ing[i], seen[i]) ELSE ing[i]
  <2>3. ing'[i] = IF t = None \/ i \notin pass[c].inactive THEN t
                  ELSE IF t.deleting THEN None ELSE [t EXCEPT !.fin = FALSE]
    BY DEF RemoveGroupFinalizer
  <2>4. CASE ing[i] = None
    <3>1. t = None
      BY <2>4
    <3>2. ing'[i] = None
      BY <2>3, <3>1
    <3> QED
      BY <1>2, <2>1, <2>2, <3>2, IngressWritten
  <2>5. CASE ing[i] # None
    <3>1. ing[i] \in Object
      BY <1>1, <2>5 DEF Shapes
    <3>2. \/ t = ing[i]
          \/ i \in s /\ t = [ing[i] EXCEPT !.label = Hash(seen[i])]
      BY DEF AddIngressLabel
    <3>3. /\ t.v = ing[i].v /\ t.n = ing[i].n /\ t.deleting = ing[i].deleting /\ t.host = ing[i].host
          /\ t.fin = ing[i].fin /\ [t EXCEPT !.fin = FALSE].v = ing[i].v
          /\ [t EXCEPT !.fin = FALSE].n = ing[i].n /\ [t EXCEPT !.fin = FALSE].deleting = ing[i].deleting
          /\ [t EXCEPT !.fin = FALSE].host = ing[i].host
          /\ t.label = ing[i].label \/ (i \in s /\ t.label = Hash(seen[i]))
          /\ [t EXCEPT !.fin = FALSE].label = t.label
      <4>1. PICK h, u : h = Hash(seen[i]) /\ u = t
        OBVIOUS
      <4>2. u = ing[i] \/ (i \in s /\ u = [ing[i] EXCEPT !.label = h])
        BY <3>2, <4>1
      <4> HIDE DEF t
      <4>3. /\ u.v = ing[i].v /\ u.n = ing[i].n /\ u.deleting = ing[i].deleting /\ u.host = ing[i].host
            /\ u.fin = ing[i].fin /\ [u EXCEPT !.fin = FALSE].v = ing[i].v
            /\ [u EXCEPT !.fin = FALSE].n = ing[i].n /\ [u EXCEPT !.fin = FALSE].deleting = ing[i].deleting
            /\ [u EXCEPT !.fin = FALSE].host = ing[i].host
            /\ u.label = ing[i].label \/ (i \in s /\ u.label = h)
            /\ [u EXCEPT !.fin = FALSE].label = u.label
        BY <3>1, <4>2 DEF Object
      <4> QED
        BY <4>1, <4>3
    <3>4. Young(i) => i \notin s /\ i \notin pass[c].inactive
      <4>1. Len(history[i]) \in Nat
        BY <1>1 DEF Shapes
      <4>2. Young(i) => i \notin pass[c].inactive
        BY <2>1, <4>1 DEF IngressFits, DeletedFits, Young
      <4>3. Young(i) => i \notin s
        BY <2>1 DEF IngressFits, YoungFits
      <4> QED
        BY <4>2, <4>3
    <3>5. Young(i) => ing'[i] = ing[i]
      BY <2>3, <3>4
    <3> HIDE DEF t
    <3>6. \/ ing'[i] = None
          \/ /\ ing'[i].v = ing[i].v /\ ing'[i].n = ing[i].n /\ ing'[i].deleting = ing[i].deleting
             /\ ing'[i].host = ing[i].host
             /\ ing'[i].label = ing[i].label \/ (i \in s /\ ing'[i].label = Hash(seen[i]))
      <4>1. CASE ing'[i] = t
        BY <3>3, <4>1
      <4>2. CASE ing'[i] = [t EXCEPT !.fin = FALSE]
        BY <3>3, <4>2
      <4> QED
        BY <2>3, <4>1, <4>2
    <3> QED
      BY <1>2, <2>1, <2>2, <2>5, <3>5, <3>6, IngressWritten
  <2> QED
    BY <2>4, <2>5
<1>6. \A d \in AlbConfig : SameGroup(d)
  BY <1>3, GroupSame
<1> QED
  BY <1>2, <1>5, <1>6

\* A pass ends: what it has labelled was applied, or is due again.
LEMMA RestFinish ==
  ASSUME RoutingInv, RoutingInv', NEW R, Fits(R), NEW c \in AlbConfig, Finish(c)
  PROVE  Fits(R)'
<1> DEFINE there == {i \in DOMAIN pass[c].members : seen[i] # None /\ ing[i] # None}
           L(s) == [i \in Ingress |-> IF i \in s THEN AddIngressLabel(ing[i], seen[i]) ELSE ing[i]]
<1>1. Shapes /\ PassRecord(pass[c])
  BY DEF RoutingInv, Shapes
<1>2. /\ pass[c].pc = "label" /\ pass' = [pass EXCEPT ![c] = Idle]
      /\ UNCHANGED <<seen, class, storeClass, cacheClass, history, cfgCache, queue, served>>
      /\ \/ acQueue' = acQueue /\ cfg' = [cfg EXCEPT ![c].label = pass[c].listeners]
         \/ acQueue' = acQueue \cup {c} /\ cfg' = cfg
  BY DEF Finish, user
<1>3. PICK s \in SUBSET there : ing' = RemoveGroupFinalizer(L(s), pass[c].inactive)
  BY DEF Finish
<1>4. /\ s \in SUBSET Ingress /\ s \subseteq DOMAIN pass[c].members
      /\ \A i \in s : ing[i] # None /\ seen[i] # None
  BY <1>1, <1>3 DEF PassRecord
<1>5. /\ \A i \in Ingress : IngressFits(R, i)' /\ (Young(i)' => Young(i))
      /\ pass'[c] = Idle /\ \A d \in AlbConfig \ {c} : pass'[d] = pass[d]
      /\ \A d \in AlbConfig : SameGroup(d)
  <2>1. Rests(Idle)
    BY DEF Rests, Idle
  <2> QED
    BY <1>2, <1>3, <1>4, <2>1, RestEnd
<1>6. \A d : Due(d) => Due(d)'
  BY <1>2 DEF Due
<1>7. ASSUME NEW d \in AlbConfig
      PROVE  /\ cfg'[d].listeners = cfg[d].listeners
             /\ cfg'[d].label = cfg[d].label \/ (d = c /\ cfg'[d].label = pass[c].listeners)
             /\ d # c => cfg'[d].label = cfg[d].label
  <2>1. ConfigRecord(cfg[d])
    BY <1>1 DEF Shapes
  <2>2. CASE cfg' = cfg
    BY <2>2
  <2>3. CASE cfg' = [cfg EXCEPT ![c].label = pass[c].listeners]
    <3>1. cfg'[d] = IF d = c THEN [cfg[d] EXCEPT !.label = pass[c].listeners] ELSE cfg[d]
      BY <1>1, <2>3 DEF Shapes
    <3> QED
      BY <2>1, <3>1 DEF ConfigRecord
  <2> QED
    BY <1>2, <2>2, <2>3
<1>8. ASSUME NEW d \in AlbConfig PROVE GroupFits(d)'
  <2>1. GroupFits(d) /\ SameGroup(d)
    BY <1>5 DEF Fits
  <2>2. \A j \in Members(d) : Young(j)' => Young(j)
    BY <1>5 DEF Members, Group, ListIngresses
  <2>3. CASE d # c
    BY <1>2, <1>5, <1>6, <1>7, <2>1, <2>2, <2>3, GroupKept
  <2>4. CASE d = c
    <3>1. GroupPorts(c)' = GroupPorts(c)
      BY <2>1, <2>4 DEF GroupPorts, SameGroup
    <3>2. Current(c) => Current(c)'
      BY <1>2, <2>1, <2>4 DEF Current, SameGroup
    <3>3. (\A i \in Members(c) : ~Young(i)) => (\A i \in Members(c) : ~Young(i))'
      BY <2>1, <2>2, <2>4 DEF SameGroup
    <3>4. pass'[c].pc = "idle"
      BY <1>5 DEF Idle
    <3>5. cfg'[c].label \subseteq cfgCache'[c].listeners
      BY <1>2, <1>7, <2>1, <2>4 DEF GroupFits
    <3> QED
      BY <1>2, <1>6, <1>7, <2>1, <2>4, <3>1, <3>2, <3>3, <3>4, <3>5 DEF GroupFits
  <2> QED
    BY <2>3, <2>4
<1> QED
  BY <1>5, <1>8 DEF Fits

\* What a pass builds from the group as it is now
LEMMA BuildCurrent ==
  ASSUME NEW c \in AlbConfig, Loaded(c), served'[c] = Build(pass[c]), SameGroup(c),
         UNCHANGED <<seen, cfgCache>>
  PROVE  Current(c)'
<1> DEFINE p == pass[c]
<1>1. /\ DOMAIN p.members = Members(c) /\ p.listeners = cfgCache[c].listeners
      /\ \A i \in Members(c) : p.members[i].v = seen[i].v /\ p.members[i].n = seen[i].n
  BY DEF Loaded
<1>2. \A i \in Members(c) :
        Routes(p, i) = {<<i, seen[i].n, q>> : q \in ComputeIngressListenPorts(seen[i].v)
                                                      \cap cfgCache[c].listeners}
  BY <1>1 DEF Routes
<1>3. Build(p) = UNION {{<<i, seen[i].n, q>> : q \in ComputeIngressListenPorts(seen[i].v)
                                                      \cap cfgCache[c].listeners} : i \in Members(c)}
  BY <1>1, <1>2 DEF Build
<1> QED
  BY <1>3 DEF Current, SameGroup

\* A pass that fails is tried again; one that finds no DNS name has applied
\* what it has loaded.
LEMMA RestApplyFails ==
  ASSUME RoutingInv, RoutingInv', NEW R, Fits(R), NEW c \in AlbConfig, ApplyFails(c) \/ NoDNSName(c)
  PROVE  Fits(R)'
<1>1. Shapes
  BY DEF RoutingInv
<1>2. PICK x : /\ pass' = [pass EXCEPT ![c] = x] /\ Rests(x)
               /\ \/ acQueue' = acQueue \cup {c}
                  \/ /\ acQueue' = acQueue /\ x.unnamed /\ pass[c].pc = "apply"
                     /\ served' = [served EXCEPT ![c] = Build(pass[c])]
               /\ ing' = RemoveGroupFinalizer(ing, pass[c].inactive)
               /\ UNCHANGED <<seen, class, storeClass, cacheClass, history, cfg, cfgCache, queue>>
  <2>1. Rests(Idle) /\ Rests([Idle EXCEPT !.unnamed = TRUE]) /\ [Idle EXCEPT !.unnamed = TRUE].unnamed
    BY DEF Rests, Idle
  <2>2. CASE ApplyFails(c)
    BY <2>1, <2>2 DEF ApplyFails, user
  <2>3. CASE NoDNSName(c)
    BY <2>1, <2>3 DEF NoDNSName, user
  <2> QED
    BY <2>2, <2>3
<1>3. \A d \in AlbConfig \ {c} : served'[d] = served[d]
  <2>1. PICK y : served' = [served EXCEPT ![c] = y]
    BY <1>1, Applied DEF Applies
  <2> QED
    BY <1>1, <2>1 DEF Shapes
<1>4. [i \in Ingress |-> IF i \in {} THEN AddIngressLabel(ing[i], seen[i]) ELSE ing[i]] = ing
  BY <1>1 DEF Shapes
<1>5. /\ \A i \in Ingress : IngressFits(R, i)' /\ (Young(i)' => Young(i))
      /\ pass'[c] = x /\ \A d \in AlbConfig \ {c} : pass'[d] = pass[d]
      /\ \A d \in AlbConfig : SameGroup(d)
  <2>1. PICK s \in SUBSET Ingress : s = {}
    OBVIOUS
  <2>2. ing' = RemoveGroupFinalizer([i \in Ingress |-> IF i \in s THEN AddIngressLabel(ing[i], seen[i])
                                                                 ELSE ing[i]], pass[c].inactive)
    BY <1>2, <1>4, <2>1
  <2> QED
    BY <1>2, <2>1, <2>2, RestEnd
<1>6. \A d : Due(d) => Due(d)'
  BY <1>2 DEF Due
<1>7. ASSUME NEW d \in AlbConfig PROVE GroupFits(d)'
  <2>1. GroupFits(d) /\ SameGroup(d)
    BY <1>5 DEF Fits
  <2>2. \A j \in Members(d) : Young(j)' => Young(j)
    BY <1>5 DEF Members, Group, ListIngresses
  <2>3. CASE d # c
    BY <1>2, <1>3, <1>5, <1>6, <2>1, <2>2, <2>3, GroupKept
  <2>4. CASE d = c
    <3>1. GroupPorts(c)' = GroupPorts(c)
      BY <2>1, <2>4 DEF GroupPorts, SameGroup
    <3>2. pass'[c].pc = "idle"
      BY <1>2, <1>5 DEF Rests
    <3>3. CASE acQueue' = acQueue \cup {c}
      BY <1>2, <1>6, <2>1, <2>4, <3>1, <3>2, <3>3 DEF GroupFits
    <3>4. CASE /\ acQueue' = acQueue /\ x.unnamed /\ pass[c].pc = "apply"
               /\ served' = [served EXCEPT ![c] = Build(pass[c])]
      <4>1. Loaded(c) => Current(c)'
        <5>1. served'[c] = Build(pass[c])
          BY <1>1, <3>4 DEF Shapes
        <5> QED
          BY <1>2, <2>1, <2>4, <5>1, BuildCurrent
      <4> QED
        BY <1>2, <1>5, <1>6, <2>1, <2>4, <3>1, <3>2, <3>4, <4>1 DEF GroupFits
    <3> QED
      BY <1>2, <3>3, <3>4
  <2> QED
    BY <2>3, <2>4
<1> QED
  BY <1>5, <1>7 DEF Fits

\* A pass writes the address into every member that is still as it was loaded.
LEMMA StatusesFit ==
  ASSUME RoutingInv, RoutingInv', NEW R, Fits(R), NEW c \in AlbConfig, pass[c].pc = "apply",
         ing' = Statuses(c) \/ ing' = RemoveGroupFinalizer(Statuses(c), pass[c].inactive),
         UNCHANGED <<seen, class, storeClass, cacheClass, history>>,
         \A d \in AlbConfig \ {c} : pass'[d] = pass[d],
         \/ Rests(pass'[c])
         \/ /\ pass'[c].pc = "label" /\ pass'[c].members = pass[c].members
            /\ pass'[c].inactive = pass[c].inactive,
         NEW i \in Ingress
  PROVE  /\ IngressFits(R, i)' /\ (Young(i)' => Young(i))
         /\ i \in DOMAIN pass[c].members => ~Young(i)'
<1> DEFINE p == pass[c]
<1>1. Shapes /\ ClassesFit /\ PassRecord(p) /\ PassFits(c) /\ IngressFits(R, i)
  BY DEF RoutingInv, Shapes, Fits
<1> DEFINE t == Statuses(c)[i]
<1>2. /\ ClassesMove
      /\ HistoryGrows
  <2>1. \A j \in Ingress : Len(history[j]) \in Nat
    BY <1>1 DEF Shapes
  <2> QED
    BY <1>1, <2>1 DEF HistoryGrows, ClassesMove, Shapes
<1>3. t = IF i \in DOMAIN p.members /\ ing[i] # None /\ ing[i] = p.members[i]
          THEN [ing[i] EXCEPT !.host = c] ELSE ing[i]
  BY DEF Statuses, UpdateStatus
<1>4. \/ ing'[i] = t
      \/ /\ i \in p.inactive /\ t # None
         /\ ing'[i] = None \/ ing'[i] = [t EXCEPT !.fin = FALSE]
  BY DEF RemoveGroupFinalizer, Statuses
<1>5. Young(i) => i \notin p.inactive
  <2>1. Len(history[i]) \in Nat
    BY <1>1 DEF Shapes
  <2> QED
    BY <1>1, <2>1 DEF IngressFits, DeletedFits, Young
<1> HIDE DEF p, t
<1>6. \/ ing'[i] = None /\ ~Young(i)
      \/ /\ ing[i] = None /\ ing'[i] = None
      \/ /\ ing[i] \in Object /\ ing[i] # None /\ ing'[i] # None
         /\ ing'[i].v = ing[i].v /\ ing'[i].n = ing[i].n /\ ing'[i].deleting = ing[i].deleting
         /\ ing'[i].label = ing[i].label
         /\ \/ i \in DOMAIN p.members /\ ing[i] = p.members[i] /\ ing'[i].host = c
            \/ /\ ~(i \in DOMAIN p.members /\ ing[i] = p.members[i]) /\ ing'[i].host = ing[i].host
               /\ Young(i) => ing'[i] = ing[i]
  <2>1. CASE ing[i] = None
    BY <1>3, <1>4, <2>1
  <2>2. CASE ing[i] # None
    <3>1. ing[i] \in Object
      BY <1>1, <2>2 DEF Shapes
    <3>2. /\ t \in Object /\ t.v = ing[i].v /\ t.n = ing[i].n /\ t.deleting = ing[i].deleting
          /\ t.label = ing[i].label
          /\ \/ i \in DOMAIN p.members /\ ing[i] = p.members[i] /\ t.host = c
             \/ ~(i \in DOMAIN p.members /\ ing[i] = p.members[i]) /\ t = ing[i]
      <4>1. CASE i \in DOMAIN p.members /\ ing[i] = p.members[i]
        <5>1. t = [ing[i] EXCEPT !.host = c]
          BY <1>3, <2>2, <4>1
        <5> QED
          BY <3>1, <4>1, <5>1 DEF Object
      <4>2. CASE ~(i \in DOMAIN p.members /\ ing[i] = p.members[i])
        BY <1>3, <3>1, <4>2
      <4> QED
        BY <4>1, <4>2
    <3>3. /\ [t EXCEPT !.fin = FALSE] \in Object /\ [t EXCEPT !.fin = FALSE].v = t.v
          /\ [t EXCEPT !.fin = FALSE].n = t.n /\ [t EXCEPT !.fin = FALSE].deleting = t.deleting
          /\ [t EXCEPT !.fin = FALSE].label = t.label /\ [t EXCEPT !.fin = FALSE].host = t.host
      BY <3>2 DEF Object
    <3>4. None \notin Object
      BY StartAssumption
    <3>5. CASE ing'[i] = t
      BY <2>2, <3>1, <3>2, <3>4, <3>5
    <3>6. CASE ing'[i] = None /\ i \in p.inactive
      BY <1>5, <3>6
    <3>7. CASE ing'[i] = [t EXCEPT !.fin = FALSE] /\ i \in p.inactive
      BY <1>5, <2>2, <3>1, <3>2, <3>3, <3>4, <3>7
    <3> QED
      BY <1>4, <3>5, <3>6, <3>7
  <2> QED
    BY <2>1, <2>2
<1>7. Young(i)' => Young(i) /\ ing'[i] = ing[i]
  <2>1. c # None
    BY StartAssumption
  <2> QED
    BY <1>6, <2>1 DEF Young
<1>8. i \in DOMAIN p.members => ~Young(i)'
  <2> SUFFICES ASSUME i \in DOMAIN p.members, Young(i)' PROVE FALSE
    OBVIOUS
  <2>1. Young(i) /\ ing'[i] = ing[i]
    BY <1>7
  <2>2. ing[i] # None /\ p.members[i] = ing[i] /\ ing[i].host = None
    BY <1>1, <2>1 DEF IngressFits, YoungFits, Young, p
  <2>3. ing'[i].host = c /\ c # None
    BY <1>6, <2>1, <2>2, StartAssumption
  <2> QED
    BY <2>1, <2>2, <2>3
<1>9. Follows(R, i)' /\ LabelFits(R, i)'
  BY <1>1, <1>6 DEF IngressFits, Follows, LabelFits
<1>10. DeletedFits(i)'
  BY <1>1, <1>6 DEF IngressFits, DeletedFits, Rests
<1>11. YoungFits(i)'
  <2> SUFFICES ASSUME Young(i)' PROVE YoungFits(i)'
    BY DEF YoungFits
  <2>1. Young(i) /\ ing'[i] = ing[i] /\ i \notin DOMAIN p.members
    BY <1>7, <1>8
  <2> QED
    BY <1>1, <2>1 DEF IngressFits, YoungFits, Rests, p
<1>12. HostFits(i)'
  <2>1. \A k \in DOMAIN history[i] : Asks(i, k) # None => Asks(i, k)' = Asks(i, k)
    BY <1>2, AsksStay
  <2>2. CASE ing'[i] = None \/ (ing[i] # None /\ ing'[i].host = ing[i].host)
    BY <1>1, <2>1, <2>2 DEF IngressFits, HostFits
  <2>3. CASE i \in DOMAIN p.members /\ ing[i] = p.members[i] /\ ing'[i].host = c
    <3>1. PICK n : n = p.members[i].n
      OBVIOUS
    <3>2. n \in Nat
      BY <1>1, <2>3, <3>1 DEF PassRecord, Object
    <3>3. Known(c, i, n)
      BY <1>1, <2>3, <3>1 DEF PassFits, p
    <3>4. Asked(i, n) = c
      BY <3>2, <3>3, KnownAsks
    <3>5. Asks(i, n) = c /\ c # None
      BY <3>4, StartAssumption DEF Asked
    <3>6. n \in DOMAIN history[i]
      <4>1. history[i] \in Seq(Version \cup {None}) /\ n \in 1..Len(history[i])
        BY <1>1, <3>3 DEF Shapes, Known
      <4> QED
        BY <4>1
    <3> QED
      BY <2>1, <2>3, <3>5, <3>6 DEF HostFits
  <2> QED
    BY <1>6, <2>2, <2>3
<1> QED
  BY <1>7, <1>8, <1>9, <1>10, <1>11, <1>12 DEF IngressFits, p

\* A pass applies what it has loaded and writes the statuses; if the AlbConfig
\* has changed it is tried again.
LEMMA RestApply ==
  ASSUME RoutingInv, RoutingInv', NEW R, Fits(R), NEW c \in AlbConfig, Apply(c) \/ StatusRefused(c)
  PROVE  Fits(R)'
<1> DEFINE p == pass[c]
<1>1. Shapes /\ ClassesFit /\ PassRecord(p) /\ PassFits(c)
  BY DEF RoutingInv, Shapes
<1>2. /\ p.pc = "apply" /\ served' = [served EXCEPT ![c] = Build(p)]
      /\ ing' = Statuses(c) \/ ing' = RemoveGroupFinalizer(Statuses(c), p.inactive)
      /\ \/ pass' = [pass EXCEPT ![c].pc = "label"] /\ acQueue' = acQueue
         \/ pass' = [pass EXCEPT ![c] = Idle] /\ acQueue' = acQueue \cup {c}
      /\ UNCHANGED <<seen, class, storeClass, cacheClass, cfg, cfgCache, queue, history>>
  BY DEF Apply, StatusRefused, user
<1>3. /\ \A d \in AlbConfig \ {c} : pass'[d] = pass[d] /\ served'[d] = served[d]
      /\ served'[c] = Build(p)
      /\ \/ /\ pass'[c].pc = "label" /\ pass'[c].members = p.members
            /\ pass'[c].inactive = p.inactive /\ pass'[c].listeners = p.listeners
         \/ Rests(pass'[c]) /\ c \in acQueue'
  <2>1. served'[c] = Build(p) /\ \A d \in AlbConfig \ {c} : pass'[d] = pass[d] /\ served'[d] = served[d]
    BY <1>1, <1>2 DEF Shapes
  <2>2. CASE pass' = [pass EXCEPT ![c].pc = "label"]
    <3>1. pass'[c] = [p EXCEPT !.pc = "label"]
      BY <1>1, <2>2 DEF Shapes
    <3> QED
      BY <1>1, <2>1, <3>1 DEF PassRecord
  <2>3. CASE pass' = [pass EXCEPT ![c] = Idle] /\ acQueue' = acQueue \cup {c}
    <3>1. pass'[c] = Idle
      BY <1>1, <2>3 DEF Shapes
    <3> QED
      BY <2>1, <2>3, <3>1 DEF Rests, Idle
  <2> QED
    BY <1>2, <2>2, <2>3
<1>4. ClassesMove
  BY <1>1, <1>2 DEF ClassesMove, Shapes
<1>7. ASSUME NEW i \in Ingress
      PROVE  /\ IngressFits(R, i)' /\ (Young(i)' => Young(i))
             /\ i \in DOMAIN p.members => ~Young(i)'
  BY <1>2, <1>3, StatusesFit
<1> HIDE DEF p
<1>8. ASSUME NEW d \in AlbConfig PROVE GroupFits(d)'
  <2>1. GroupFits(d) /\ SameGroup(d)
    BY <1>2, <1>4, GroupSame DEF Fits
  <2>2. (Due(d) => Due(d)') /\ Members(d) \subseteq Ingress
    BY <1>2 DEF Due, Members, Group, ListIngresses
  <2>3. CASE d # c
    BY <1>2, <1>3, <1>7, <2>1, <2>2, <2>3, GroupKept
  <2>4. CASE d = c
    <3>1. GroupPorts(c)' = GroupPorts(c)
      BY <2>1, <2>4 DEF GroupPorts, SameGroup
    <3>2. ASSUME Loaded(c) PROVE Current(c)' /\ \A i \in Members(c)' : ~Young(i)'
      <4>1. DOMAIN p.members = Members(c)
        BY <3>2 DEF Loaded, p
      <4>4. Current(c)'
        BY <1>2, <1>3, <2>1, <2>4, <3>2, BuildCurrent DEF p
      <4>5. \A i \in Members(c)' : ~Young(i)'
        BY <1>7, <2>1, <2>2, <2>4, <4>1 DEF SameGroup
      <4> QED
        BY <4>4, <4>5
    <3>3. Due(c) \/ c \in acQueue \/ Loaded(c)
      BY <1>2, <2>1, <2>4 DEF GroupFits, p
    <3>4. /\ cfg'[c].label \subseteq cfgCache'[c].listeners
          /\ pass'[c].pc # "idle" => pass'[c].listeners \subseteq cfgCache'[c].listeners
          /\ Due(c)' \/ GroupPorts(c)' \subseteq cfg'[c].listeners
      BY <1>2, <1>3, <2>1, <2>2, <2>4, <3>1 DEF GroupFits, Rests, p
    <3> QED
      BY <1>2, <1>3, <2>2, <2>4, <3>2, <3>3, <3>4 DEF GroupFits, Rests
  <2> QED
    BY <2>3, <2>4
<1> QED
  BY <1>7, <1>8 DEF Fits

-----------------------------------------------------------------------------
(* The result                                                              *)

\* Behaviours start with nothing handled or with everything handled.
LEMMA RestInit ==
  ASSUME Init, ClassesNamed, NEW R
  PROVE  RestInv(R)
<1>1. PICK s \in Start :
        LET Done      == {i \in Ingress : /\ s.settled /\ s.ing[i] # None
                                          /\ IsValid(s.ing[i], s.class)}
            Group0(c) == {i \in Done : LoadGroupID(s.ing[i].v, s.class) = c}
            Ports0(c) == UNION {ComputeIngressListenPorts(s.ing[i].v) : i \in Group0(c)}
        IN /\ class = s.class /\ storeClass = class /\ cacheClass = class
           /\ ing = [i \in Ingress |->
                       IF i \notin Done THEN s.ing[i]
                       ELSE [s.ing[i] EXCEPT !.host = LoadGroupID(s.ing[i].v, s.class),
                                             !.label = Hash(s.ing[i])]]
           /\ seen = IF s.settled THEN ing ELSE [i \in Ingress |-> None]
           /\ history = [i \in Ingress |-> IF ing[i] = None THEN <<>> ELSE <<ing[i].v>>]
           /\ cfg = [c \in AlbConfig |-> [listeners |-> Ports0(c), label |-> Ports0(c)]]
           /\ cfgCache = cfg
           /\ served = [c \in AlbConfig |->
                          UNION {{<<i, 1, q>> : q \in ComputeIngressListenPorts(s.ing[i].v)}
                                   : i \in Group0(c)}]
           /\ pass = [c \in AlbConfig |-> Idle]
  BY DEF Init
<1> DEFINE Done      == {i \in Ingress : s.settled /\ s.ing[i] # None /\ IsValid(s.ing[i], s.class)}
           Group0(c) == {i \in Done : LoadGroupID(s.ing[i].v, s.class) = c}
           Ports0(c) == UNION {ComputeIngressListenPorts(s.ing[i].v) : i \in Group0(c)}
<1>2. /\ class = s.class /\ storeClass = class /\ cacheClass = class
      /\ ing = [i \in Ingress |->
                  IF i \notin Done THEN s.ing[i]
                  ELSE [s.ing[i] EXCEPT !.host = LoadGroupID(s.ing[i].v, s.class),
                                        !.label = Hash(s.ing[i])]]
      /\ seen = IF s.settled THEN ing ELSE [i \in Ingress |-> None]
      /\ history = [i \in Ingress |-> IF ing[i] = None THEN <<>> ELSE <<ing[i].v>>]
  BY <1>1
<1>3. /\ cfg = [c \in AlbConfig |-> [listeners |-> Ports0(c), label |-> Ports0(c)]]
      /\ cfgCache = cfg
      /\ served = [c \in AlbConfig |->
                     UNION {{<<i, 1, q>> : q \in ComputeIngressListenPorts(s.ing[i].v)}
                              : i \in Group0(c)}]
      /\ pass = [c \in AlbConfig |-> Idle]
  BY <1>1
<1>4. Idle.pc = "idle" /\ Idle.inactive = {} /\ DOMAIN Idle.members = {}
  BY DEF Idle
<1>5. class \in [Class -> AlbConfig \cup {None, NoParams}] /\ s.settled \in BOOLEAN
  BY <1>2, StartAssumption
<1>6. \A v \in Version : LoadGroupID(v, s.class) # None
  BY StartAssumption, IngressAssumption DEF LoadGroupID, IngressClass
<1>7. RoutingInv
  BY RoutingInit
<1>8. Shapes
  BY <1>7 DEF RoutingInv
<1>9. ASSUME NEW i \in Ingress, ing[i] # None
      PROVE  /\ ing[i].v = s.ing[i].v /\ ing[i].n = 1 /\ ~ing[i].deleting /\ ing[i].v \in Version
             /\ i \notin Done => ing[i].label = None /\ ing[i].host = None
             /\ i \in Done => /\ ing[i].host = LoadGroupID(ing[i].v, s.class) /\ ing[i].host # None
                              /\ ing[i].label[1] = ing[i].v /\ ~ing[i].label[2]
             /\ s.ing[i] # None /\ history[i] = <<ing[i].v>>
             /\ IsValid(ing[i], s.class) <=> IsValid(s.ing[i], s.class)
  <2>1. s.ing[i] # None
    BY <1>2, <1>9
  <2>2. PICK v \in Version, fin \in BOOLEAN : s.ing[i] = New(v, fin, 1)
    BY <2>1, StartAssumption
  <2>3. PICK h, l : h = LoadGroupID(s.ing[i].v, s.class) /\ l = Hash(s.ing[i])
    OBVIOUS
  <2>4. ing[i] = IF i \notin Done THEN s.ing[i] ELSE [s.ing[i] EXCEPT !.host = h, !.label = l]
    BY <1>2, <2>3
  <2>5. /\ s.ing[i].v = v /\ s.ing[i].n = 1 /\ ~s.ing[i].deleting /\ s.ing[i].label = None
        /\ s.ing[i].host = None /\ l[1] = v /\ ~l[2]
    BY <2>2, <2>3 DEF New, Hash
  <2>6. history[i] = <<ing[i].v>>
    BY <1>2, <1>9
  <2> HIDE DEF Done
  <2>7. /\ ing[i].v = v /\ ing[i].n = 1 /\ ~ing[i].deleting
        /\ i \notin Done => ing[i].label = None /\ ing[i].host = None
        /\ i \in Done => ing[i].host = h /\ ing[i].label = l
    BY <2>2, <2>4, <2>5 DEF New
  <2>8. IsValid(ing[i], s.class) <=> IsValid(s.ing[i], s.class)
    BY <2>5, <2>7 DEF IsValid
  <2> QED
    BY <1>6, <2>1, <2>3, <2>5, <2>6, <2>7, <2>8
<1>10. \A i \in Ingress : (seen[i] = None \/ seen[i] = ing[i]) /\ (~s.settled => seen[i] = None)
  <2>1. seen = IF s.settled THEN ing ELSE [i \in Ingress |-> None]
    BY <1>2
  <2>2. CASE s.settled
    BY <2>1, <2>2
  <2>3. CASE ~s.settled
    BY <2>1, <2>3
  <2> QED
    BY <2>2, <2>3
<1>11. ASSUME NEW i \in Ingress PROVE IngressFits(R, i)
  <2>1. i \in Done => s.settled
    OBVIOUS
  <2>2. s.settled => seen[i] = ing[i]
    BY <1>2, <1>5
  <2>3. \A d \in AlbConfig : pass[d] = Idle
    BY <1>3
  <2> HIDE DEF Done
  <2>4. Follows(R, i)
    BY <1>10 DEF Follows
  <2>5. LabelFits(R, i)
    BY <1>9, <2>1, <2>2 DEF LabelFits
  <2>6. YoungFits(i)
    BY <1>4, <1>9, <1>10, <2>3 DEF YoungFits, Young
  <2>7. DeletedFits(i)
    BY <1>4, <1>9, <1>10, <2>3 DEF DeletedFits
  <2>8. HostFits(i)
    <3> SUFFICES ASSUME ing[i] # None, ing[i].host # None
                 PROVE  \E k \in DOMAIN history[i] : Asks(i, k) = ing[i].host
      BY DEF HostFits
    <3>1. i \in Done /\ history[i] = <<ing[i].v>> /\ ing[i].v \in Version
      BY <1>9
    <3>2. IsValid(ing[i], class) /\ ing[i].host = LoadGroupID(ing[i].v, class)
      BY <1>2, <1>9, <3>1 DEF Done
    <3>3. 1 \in DOMAIN history[i] /\ history[i][1] = ing[i].v
      BY <3>1
    <3>4. IsValid([v |-> ing[i].v], class) /\ ing[i].v # None
      BY <3>1, <3>2, StartAssumption DEF IsValid
    <3>5. Asks(i, 1) = ing[i].host
      BY <3>2, <3>3, <3>4 DEF Asks
    <3> QED
      BY <3>3, <3>5
  <2> QED
    BY <2>4, <2>5, <2>6, <2>7, <2>8 DEF IngressFits
<1>12. ASSUME NEW c \in AlbConfig PROVE GroupFits(c)
  <2>1. Members(c) = Group0(c)
    <3>1. ASSUME NEW i \in Ingress PROVE i \in Members(c) <=> i \in Group0(c)
      <4>1. CASE ~s.settled
        <5>1. seen[i] = None
          BY <1>10, <4>1
        <5> QED
          BY <4>1, <5>1 DEF Members, Group, ListIngresses
      <4>2. CASE s.settled
        <5>1. seen[i] = ing[i]
          BY <1>2, <4>2
        <5>2. CASE ing[i] = None
          <6>1. s.ing[i] = None
            <7>1. ASSUME s.ing[i] # None PROVE s.ing[i] \in Object
              <8>1. PICK v \in Version, fin \in BOOLEAN : s.ing[i] = New(v, fin, 1)
                BY <7>1, StartAssumption
              <8> QED
                BY <8>1 DEF New, Object
            <7>2. i \in Done => ing[i] # None
              <8>1. ASSUME i \in Done PROVE ing[i] # None
                <9>1. PICK h, l : h = LoadGroupID(s.ing[i].v, s.class) /\ l = Hash(s.ing[i])
                  OBVIOUS
                <9>2. ing[i] = [s.ing[i] EXCEPT !.host = h, !.label = l]
                  BY <1>2, <8>1, <9>1
                <9>3. s.ing[i] \in Object
                  BY <7>1, <8>1
                <9>4. h \in AlbConfig \cup {None, NoParams} /\ l \in Version \X BOOLEAN
                  BY <1>2, <1>5, <9>1, <9>3, StartAssumption, IngressAssumption
                     DEF Object, Hash, LoadGroupID, IngressClass
                <9>5. ing[i] \in Object
                  <10> HIDE DEF Done
                  <10> QED
                    BY <9>2, <9>3, <9>4 DEF Object
                <9> QED
                  BY <9>5, StartAssumption
              <8> QED
                BY <8>1
            <7> QED
              BY <1>2, <5>2, <7>2
          <6> QED
            BY <5>1, <5>2, <6>1 DEF Members, Group, ListIngresses
        <5>3. CASE ing[i] # None
          <6>1. /\ ing[i].v = s.ing[i].v /\ ~ing[i].deleting /\ s.ing[i] # None
                /\ IsValid(ing[i], s.class) <=> IsValid(s.ing[i], s.class)
            BY <1>9, <5>3
          <6>2. i \in Members(c) <=> IsValid(ing[i], s.class) /\ LoadGroupID(ing[i].v, s.class) = c
            BY <1>2, <5>1, <5>3, <6>1 DEF Members, Group, ListIngresses
          <6> QED
            BY <4>2, <6>1, <6>2
        <5> QED
          BY <5>2, <5>3
      <4> QED
        BY <1>5, <4>1, <4>2
    <3>2. Members(c) \subseteq Ingress /\ Group0(c) \subseteq Ingress
      BY DEF Members, Group, ListIngresses
    <3> QED
      BY <3>1, <3>2
  <2>2. ASSUME NEW i \in Members(c)
        PROVE  /\ i \in Ingress /\ i \in Done /\ seen[i] # None /\ seen[i] = ing[i]
               /\ seen[i].v = s.ing[i].v /\ seen[i].n = 1
    <3>1. i \in Ingress /\ seen[i] # None /\ i \in Done
      BY <2>1 DEF Members, Group, ListIngresses
    <3> QED
      BY <1>9, <1>10, <3>1
  <2>3. /\ cfg[c].listeners = Ports0(c) /\ cfg[c].label = Ports0(c) /\ cfgCache[c].listeners = Ports0(c)
        /\ pass[c] = Idle
        /\ served[c] = UNION {{<<i, 1, q>> : q \in ComputeIngressListenPorts(s.ing[i].v)} : i \in Group0(c)}
    BY <1>3
  <2>4. \A i \in Members(c) : ComputeIngressListenPorts(seen[i].v) = ComputeIngressListenPorts(s.ing[i].v)
    BY <2>2
  <2>5. GroupPorts(c) = Ports0(c)
    BY <2>1, <2>4 DEF GroupPorts
  <2>6. \A i \in Members(c) : ComputeIngressListenPorts(s.ing[i].v) \subseteq Ports0(c)
    BY <2>1
  <2>7. \A i \in Members(c) : ~Young(i)
    BY <1>9, <2>2 DEF Young
  <2> HIDE DEF Ports0, Done
  <2>8. ASSUME NEW i \in Members(c)
        PROVE  {<<i, seen[i].n, q>> : q \in ComputeIngressListenPorts(seen[i].v) \cap cfgCache[c].listeners}
                 = {<<i, 1, q>> : q \in ComputeIngressListenPorts(s.ing[i].v)}
    <3>1. ComputeIngressListenPorts(seen[i].v) \cap cfgCache[c].listeners = ComputeIngressListenPorts(s.ing[i].v)
      BY <2>3, <2>4, <2>6
    <3> QED
      BY <2>2, <3>1
  <2> HIDE DEF Group0
  <2>9. Current(c)
    BY <2>1, <2>3, <2>8 DEF Current
  <2> QED
    BY <1>4, <2>3, <2>5, <2>7, <2>9 DEF GroupFits
<1> QED
  BY <1>11, <1>12 DEF RestInv, Fits

\* Every step keeps the invariant.
LEMMA RestNext ==
  ASSUME RoutingInv, RoutingInv', NEW R, EditsForward(R), RestInv(R), [Next]_vars
  PROVE  RestInv(R)'
<1>1. ClassesMove /\ Shapes
  BY StepClasses DEF RoutingInv
<1>2. CASE restarted
  <2>1. restarted' = restarted \/ restarted' = TRUE
    BY DEF vars, Next, Deliver, SeeIngress, SeeClass, CacheClass, CacheAlbConfig, Sync, SyncSkip,
           SyncRetry, SyncIngress, Pass, LoadGroup, Apply, StatusRefused, NoDNSName, ApplyFails,
           Finish, Restart, EditIngress, DeleteIngress, CreateIngress, AddListener
  <2> QED
    BY <1>2, <2>1 DEF RestInv
<1>3. CASE Restart
  BY <1>3 DEF Restart, RestInv
<1>4. CASE Fits(R)
  <2>1. CASE UNCHANGED vars
    <3>1. UNCHANGED <<ing, seen, storeClass, cacheClass, cfg, cfgCache, queue, acQueue, pass, served, history>>
      BY <2>1 DEF vars
    <3>2. \A i \in Ingress : IngressFits(R, i)'
      BY <1>1, <1>4, <3>1, RestIngresses
    <3>3. ASSUME NEW c \in AlbConfig PROVE GroupFits(c)'
      <4>1. SameGroup(c) /\ GroupFits(c)
        BY <1>1, <1>4, <3>1, GroupSame DEF Fits
      <4>2. (Due(c) => Due(c)') /\ \A j : Young(j)' => Young(j)
        BY <3>1 DEF Due, Young
      <4> QED
        BY <3>1, <4>1, <4>2, GroupKept
    <3> QED
      BY <3>2, <3>3 DEF Fits, RestInv
  <2>2. ASSUME NEW i \in Ingress, SeeIngress(i) PROVE Fits(R)'
    BY <1>4, <2>2, RestSee
  <2>3. ASSUME NEW k \in Class, SeeClass(k) \/ CacheClass(k) PROVE Fits(R)'
    BY <1>4, <2>3, RestClass
  <2>4. ASSUME NEW c \in AlbConfig, CacheAlbConfig(c) \/ AddListener(c) PROVE Fits(R)'
    BY <1>4, <2>4, RestConfig
  <2>5. CASE Sync
    BY <1>1, <1>4, <2>5, RestSync DEF RestInv
  <2>6. ASSUME NEW c \in AlbConfig, Pass(c) \/ NoDNSName(c) PROVE Fits(R)'
    BY <1>4, <2>6, RestLoad, RestApply, RestApplyFails, RestFinish DEF Pass
  <2>7. ASSUME NEW i \in Ingress, EditIngress(i) \/ DeleteIngress(i) \/ CreateIngress(i) PROVE Fits(R)'
    BY <1>4, <2>7, RestUser
  <2> QED
    BY <1>3, <2>1, <2>2, <2>3, <2>4, <2>5, <2>6, <2>7 DEF Next, Deliver, RestInv
<1> QED
  BY <1>2, <1>4 DEF RestInv

\* At rest nothing is due, so that every group is served as it is.
LEMMA RestSynced ==
  ASSUME RoutingInv, NEW R, RestInv(R), Quiet, ~restarted, NEW c \in AlbConfig
  PROVE  /\ Members(c) = Wanting(c) /\ InSync(c)
         /\ pass[c].unnamed \/ \A i \in Members(c) : ~Young(i)
<1>1. /\ seen = ing /\ storeClass = class /\ cacheClass = class /\ cfgCache = cfg
      /\ queue = <<>> /\ acQueue = {} /\ pass[c].pc = "idle"
  BY DEF Quiet
<1>2. GroupFits(c) /\ Shapes
  BY DEF RestInv, Fits, RoutingInv
<1>3. ~Due(c)
  BY <1>1 DEF Due
<1>4. /\ GroupPorts(c) \subseteq cfg[c].listeners /\ Current(c)
      /\ pass[c].unnamed \/ \A i \in Members(c) : ~Young(i)
  BY <1>1, <1>2, <1>3 DEF GroupFits
<1>5. c # None
  BY StartAssumption
<1>6. ASSUME NEW i \in Ingress PROVE i \in Members(c) <=> i \in Wanting(c)
  BY <1>1, <1>5 DEF Members, Group, ListIngresses, Wanting, Wanted
<1>7. Members(c) = Wanting(c) /\ Members(c) \subseteq Ingress
  BY <1>6 DEF Members, Group, ListIngresses, Wanting
<1>8. ASSUME NEW i \in Members(c)
      PROVE  /\ ComputeIngressListenPorts(ing[i].v) \subseteq cfgCache[c].listeners
             /\ history[i][ing[i].n] = ing[i].v /\ seen[i] = ing[i]
  <2>1. ComputeIngressListenPorts(seen[i].v) \subseteq GroupPorts(c)
    BY DEF GroupPorts
  <2>2. ObjectFits(i) /\ seen[i] # None
    BY <1>7 DEF RoutingInv, Members, Group, ListIngresses
  <2> QED
    BY <1>1, <1>4, <2>1, <2>2 DEF ObjectFits
<1>9. served[c] = UNION {{<<i, ing[i].n, q>> : q \in ComputeIngressListenPorts(ing[i].v)} : i \in Members(c)}
  <2>1. ASSUME NEW i \in Members(c)
        PROVE  {<<i, seen[i].n, q>> : q \in ComputeIngressListenPorts(seen[i].v) \cap cfgCache[c].listeners}
                 = {<<i, ing[i].n, q>> : q \in ComputeIngressListenPorts(ing[i].v)}
    <3>1. ComputeIngressListenPorts(seen[i].v) \cap cfgCache[c].listeners = ComputeIngressListenPorts(ing[i].v)
      BY <1>8
    <3> QED
      BY <1>8, <3>1
  <2> QED
    BY <1>4, <2>1 DEF Current
<1>10. {<<r[1], history[r[1]][r[2]], r[3]>> : r \in served[c]}
         = UNION {{<<i, ing[i].v, q>> : q \in ComputeIngressListenPorts(ing[i].v)} : i \in Members(c)}
  <2> DEFINE T == {<<r[1], history[r[1]][r[2]], r[3]>> : r \in served[c]}
             U == UNION {{<<i, ing[i].v, q>> : q \in ComputeIngressListenPorts(ing[i].v)} : i \in Members(c)}
  <2>1. ASSUME NEW t \in T PROVE t \in U
    <3>1. PICK r \in served[c] : t = <<r[1], history[r[1]][r[2]], r[3]>>
      OBVIOUS
    <3>2. PICK i \in Members(c) : r \in {<<i, ing[i].n, q>> : q \in ComputeIngressListenPorts(ing[i].v)}
      BY <1>9
    <3>3. PICK q \in ComputeIngressListenPorts(ing[i].v) : r = <<i, ing[i].n, q>>
      BY <3>2
    <3>4. t = <<i, ing[i].v, q>>
      BY <1>8, <3>1, <3>3
    <3> QED
      BY <3>4
  <2>2. ASSUME NEW t \in U PROVE t \in T
    <3>1. PICK i \in Members(c) : t \in {<<i, ing[i].v, q>> : q \in ComputeIngressListenPorts(ing[i].v)}
      OBVIOUS
    <3>2. PICK q \in ComputeIngressListenPorts(ing[i].v) : t = <<i, ing[i].v, q>>
      BY <3>1
    <3>3. PICK r : r = <<i, ing[i].n, q>>
      OBVIOUS
    <3>4. r \in served[c]
      BY <1>9, <3>3
    <3>5. t = <<r[1], history[r[1]][r[2]], r[3]>>
      BY <1>8, <3>2, <3>3
    <3> QED
      BY <3>4, <3>5
  <2> HIDE DEF T, U
  <2>3. T = U
    BY <2>1, <2>2
  <2> QED
    BY <2>3 DEF T, U
<1> QED
  BY <1>4, <1>7, <1>10 DEF InSync

\* The invariant of the two theorems below.
LEMMA RestInvariant ==
  ASSUME ClassesNamed, NEW R, EditsForward(R)
  PROVE  /\ Init => RoutingInv /\ RestInv(R)
         /\ RoutingInv /\ RestInv(R) /\ [Next]_vars => RoutingInv' /\ RestInv(R)'
<1>1. Init => RoutingInv /\ RestInv(R)
  BY RoutingInit, RestInit
<1>2. RoutingInv /\ RestInv(R) /\ [Next]_vars => RoutingInv' /\ RestInv(R)'
  BY RoutingNext, RestNext
<1> QED
  BY <1>1, <1>2

\* Whatever the order in which Ingresses are edited, deleted and created, events
\* arrive, passes run and calls fail: when nothing is left in the queues, every
\* ALB serves what the Ingresses ask for now.  Beside what RoutingImplemented
\* asks for, edits must lead forward (EditsForward); a restart may lose what was
\* due.
THEOREM RoutesInSync ==
  ASSUME ClassesNamed, NEW R, EditsForward(R)
  PROVE  Spec => []QuietInSync
<1>1. RoutingInv /\ RestInv(R) => QuietInSync
  BY RestSynced DEF QuietInSync
<1> QED
  BY <1>1, RestInvariant, PTL DEF Spec

\* When nothing is left in the queues, an Ingress has no address but that of an
\* ALB it has asked for, and has it unless it was edited or the last pass found
\* no DNS name.
THEOREM AddressesRight ==
  ASSUME ClassesNamed, NEW R, EditsForward(R)
  PROVE  Spec => []AddressRight
<1>1. RoutingInv /\ RestInv(R) => AddressRight
  <2> SUFFICES ASSUME RoutingInv, RestInv(R), Quiet, ~restarted,
                      NEW c \in AlbConfig, NEW i \in Wanting(c),
                      ing[i].host # c, ~AskedElsewhere(i, c), ~(ing[i].host = None /\ pass[c].unnamed)
               PROVE  ing[i].host = None /\ Len(history[i]) > 1
    BY DEF AddressRight
  <2>1. i \in Ingress /\ Fits(R) /\ ObjectFits(i) /\ Shapes
    BY DEF Wanting, RestInv, RoutingInv
  <2>2. ing[i] # None
    BY StartAssumption DEF Wanting, Wanted
  <2>3. HostFits(i)
    BY <2>1 DEF Fits, IngressFits
  <2>4. ing[i].host = None
    BY <2>2, <2>3 DEF HostFits, AskedElsewhere
  <2>5. Len(history[i]) \in Nat /\ Len(history[i]) >= 1
    BY <2>1, <2>2 DEF Shapes, ObjectFits
  <2>6. ~Young(i)
    BY <2>4, RestSynced
  <2>7. Len(history[i]) # 1
    BY <2>2, <2>4, <2>6 DEF Young
  <2>8. \A n \in Nat : n >= 1 /\ n # 1 => n > 1
    OBVIOUS
  <2>9. Len(history[i]) > 1
    BY <2>5, <2>7, <2>8
  <2> QED
    BY <2>4, <2>9
<1> QED
  BY <1>1, RestInvariant, PTL DEF Spec
=============================================================================
