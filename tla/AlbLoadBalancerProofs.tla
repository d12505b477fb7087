----------------------- MODULE AlbLoadBalancerProofs -----------------------
(***************************************************************************)
(* Proofs about AlbLoadBalancer, for any number of AlbConfigs, ALBs, edits *)
(* and faults: the finalizer holds an AlbConfig while an ALB bears its     *)
(* tags, no AlbConfig has two ALBs, the user's ALB is neither deleted nor  *)
(* changed against the user's will, and an AlbConfig at rest has an ALB    *)
(* that agrees with its spec.                                              *)
(***************************************************************************)
EXTENDS AlbLoadBalancer, FiniteSetTheorems, SequenceTheorems, TLAPS

CallsOf(q) == {q[i] : i \in 1..Len(q)}

Untag == [tag |-> None]

\* The calls of a pass whose AlbConfig is being deleted.
ReleaseSeqs ==
  {<<>>, <<DeleteLoadBalancer>>, <<DisableDeletionProtection, DeleteLoadBalancer>>, <<Untag>>}

\* A pass sets the tags of its own AlbConfig only, and brings no ALB to life.
CallFits(c, x) ==
  /\ "by" \notin DOMAIN x
  /\ "tag" \in DOMAIN x => x.tag \in {c, None}
  /\ "state" \in DOMAIN x => x.state = "gone"

PassRecord(p) ==
  p \in [pc : {"idle", "finalizer", "apply", "create", "wait", "calls", "status", "label",
               "unfinalize"},
         obj : Object \cup {None}, reuse : BOOLEAN, clean : BOOLEAN,
         lb : LB \cup {None}, calls : {p.calls}, doomed : BOOLEAN, unnamed : BOOLEAN]

ALBRecord(b) ==
  /\ b = [f \in DOMAIN Free |-> b[f]]
  /\ b.state \in {"free", "live", "gone"}
  /\ b.tag \in AlbConfig \cup {None}

Shapes ==
  /\ api \in [AlbConfig -> Object \cup {None}]
  /\ cached \in [AlbConfig -> Object \cup {None}]
  /\ pass = [c \in AlbConfig |-> pass[c]]
  /\ \A c \in AlbConfig : PassRecord(pass[c])
  /\ lb = [l \in LB |-> lb[l]]
  /\ \A l \in LB : ALBRecord(lb[l])

\* The remaining calls of a pass.  No other ALB than the one of the pass has
\* the tags of its AlbConfig, and after the calls of a deletion none has.
CallsFit(c) ==
  LET p == pass[c]
  IN  /\ p.calls \in Seq(CallsOf(p.calls))
      /\ p.calls # <<>> => p.lb \in LB
      /\ \A x \in CallsOf(p.calls) : CallFits(c, x)
      /\ Listed(c) \subseteq {p.lb}
      /\ p.obj.deleting => /\ p.calls \in ReleaseSeqs
                           /\ p.calls = <<>> => Listed(c) = {}

\* What the copies of an AlbConfig know of each other: a deletion seen once is
\* in the API server, and so is a finalizer, until the cleanup is done.
CopiesFit(c) ==
  LET p == pass[c]
  IN  /\ p.pc # "idle" => p.obj # None
      /\ p.clean => p.obj # None /\ p.obj.deleting
      /\ p.pc = "finalizer" => ~p.clean
      /\ cached[c] # None /\ cached[c].deleting => api[c] = None \/ api[c].deleting
      /\ p.obj # None /\ p.obj.deleting => api[c] = None \/ api[c].deleting
      /\ cached[c] # None /\ cached[c].fin =>
           \/ api[c] = None /\ cached[c].deleting
           \/ api[c] # None /\ api[c].fin
      /\ p.pc \notin {"idle", "finalizer"} /\ ~p.obj.deleting => api[c] # None /\ api[c].fin

\* At most one ALB bears the tags, none while a new one is made and none once
\* the cleanup is done; the finalizer is there as long as one bears them.
ListingFits(c) ==
  LET p == pass[c]
  IN  /\ \A l, m \in Listed(c) : l = m
      /\ Listed(c) # {} => api[c] # None /\ api[c].fin
      /\ p.pc \in {"create", "wait"} => ~p.obj.deleting /\ Listed(c) = {}
      /\ p.pc = "wait" => p.lb \in LB
      /\ p.pc = "unfinalize" => p.clean /\ Listed(c) = {}
      /\ p.pc = "calls" => CallsFit(c)

GuardInv == Shapes /\ \A c \in AlbConfig : CopiesFit(c) /\ ListingFits(c)

-----------------------------------------------------------------------------
\* The copies of an AlbConfig that are around.
Copies(c) == {api[c], cached[c], pass[c].obj} \ {None}

\* What a pass may do to an ALB of the user.
UserCall(p, x) ==
  /\ "state" \notin DOMAIN x
  /\ p.obj.spec.force \/ DOMAIN x \subseteq {"tag", "custom", "refused"}

\* All copies name the same ALB, so what the pass took from one of them holds
\* for all, and the user's ALB has the tags of AlbConfigs that name it only.
UserFits(c) ==
  LET p == pass[c]
  IN  /\ \A o, q \in Copies(c) : o.spec.id = q.spec.id
      /\ p.pc # "idle" => p.reuse = (p.obj.spec.id # None)
      /\ \A l \in UserLB : lb[l].tag = c => \A o \in Copies(c) : o.spec.id = l
      /\ p.pc = "wait" => p.lb \notin UserLB
      /\ p.pc = "calls" /\ p.lb \in UserLB =>
           /\ p.reuse /\ p.obj.spec.id = p.lb
           /\ \A x \in CallsOf(p.calls) : UserCall(p, x)

UserInv == UserALBKept /\ \A c \in AlbConfig : UserFits(c)

\* Edits leave alone which ALB the spec names.  The code does not see to it: an
\* AlbConfig that stops naming the user's ALB counts it as its own.
IdsKept == \A e \in Edit : e[1].id = e[2].id

-----------------------------------------------------------------------------
(* Sequences of calls                                                      *)

\* A sequence is one of the calls that are in it.
LEMMA CallsOfSeq ==
  ASSUME NEW S, NEW q \in Seq(S)
  PROVE  CallsOf(q) \subseteq S /\ q \in Seq(CallsOf(q))
<1>1. CallsOf(q) \subseteq S
  BY DEF CallsOf
<1>2. \A i \in 1..Len(q) : q[i] \in CallsOf(q)
  BY DEF CallsOf
<1>3. Len(q) \in Nat /\ q = [i \in 1..Len(q) |-> q[i]]
  OBVIOUS
<1>4. q \in [1..Len(q) -> CallsOf(q)]
  BY <1>2, <1>3
<1> QED
  BY <1>1, <1>3, <1>4

\* The first call is one of them, and the rest are others of them.
LEMMA HeadTail ==
  ASSUME NEW q, q \in Seq(CallsOf(q)), q # <<>>
  PROVE  /\ Head(q) \in CallsOf(q)
         /\ CallsOf(Tail(q)) \subseteq CallsOf(q)
         /\ Tail(q) \in Seq(CallsOf(Tail(q)))
<1>1. Head(q) \in CallsOf(q) /\ Tail(q) \in Seq(CallsOf(q))
  <2>1. \A S : q \in Seq(S) => Head(q) \in S /\ Tail(q) \in Seq(S)
    OBVIOUS
  <2> QED
    BY <2>1
<1> QED
  BY <1>1, CallsOfSeq

\* An optional call makes a sequence of at most one call.
LEMMA WhenSeq ==
  ASSUME NEW S, NEW x \in S, NEW cond
  PROVE  When(cond, x) \in Seq(S)
BY DEF When

\* The calls that bring an ALB in line with the spec.
SettingCalls(s, b) ==
  LET keep == [k \in Key |-> IF s.tags[k] = None THEN None ELSE b.custom[k]]
  IN  {Refusal, [name |-> s.name, mod |-> TRUE], EnableDeletionProtection,
       EnableIpv6Internet, DisableIpv6Internet, DissociateAccessLog, [log |-> s.log],
       [edition |-> s.edition], DetachBandwidthPackage, AttachBandwidthPackage(s),
       UnTag(keep), TagWithoutResourceTags(s, keep), MoveResourceGroup(s)}

\* They neither set the tags of the controller nor delete the ALB.
LEMMA SettingCallsFit ==
  ASSUME NEW s, NEW b, NEW x \in SettingCalls(s, b)
  PROVE  "tag" \notin DOMAIN x /\ "state" \notin DOMAIN x /\ "by" \notin DOMAIN x
BY DEF SettingCalls, Refusal, EnableDeletionProtection, EnableIpv6Internet, DisableIpv6Internet,
   DissociateAccessLog, DetachBandwidthPackage, AttachBandwidthPackage, UnTag,
   TagWithoutResourceTags, MoveResourceGroup

\* updateALB makes calls for settings only.
LEMMA UpdateALBSeq ==
  ASSUME NEW s, NEW b
  PROVE  UpdateALB(s, b) \in Seq(SettingCalls(s, b))
<1> DEFINE S == SettingCalls(s, b)
<1>1. \A q, r : q \in Seq(S) /\ r \in Seq(S) => q \o r \in Seq(S)
  <2> HIDE DEF S
  <2> QED
    OBVIOUS
<1>2. AttributeCalls(s, b) \in Seq(S) /\ DeletionProtectionCalls(b) \in Seq(S)
      /\ Ipv6Calls(s, b) \in Seq(S) /\ ResourceGroupCalls(s, b) \in Seq(S)
  <2>1. /\ [name |-> s.name, mod |-> TRUE] \in S /\ EnableDeletionProtection \in S
        /\ EnableIpv6Internet \in S /\ DisableIpv6Internet \in S /\ MoveResourceGroup(s) \in S
    BY DEF SettingCalls
  <2> HIDE DEF S
  <2> QED
    BY <2>1, WhenSeq DEF AttributeCalls, DeletionProtectionCalls, Ipv6Calls, ResourceGroupCalls
<1>3. AccessLogCalls(s, b) \in Seq(S)
  <2>1. DissociateAccessLog \in S /\ AssociateAccessLog(s) \in S
    BY DEF SettingCalls, AssociateAccessLog
  <2>2. <<>> \in Seq(S)
    OBVIOUS
  <2> HIDE DEF S
  <2>3. When(b.log # None, DissociateAccessLog) \in Seq(S)
        /\ When(s.log # None, AssociateAccessLog(s)) \in Seq(S)
    BY <2>1, WhenSeq
  <2> QED
    BY <1>1, <2>2, <2>3 DEF AccessLogCalls
<1>4. EditionCalls(s, b) \in Seq(S)
  <2>1. Refusal \in S /\ [edition |-> s.edition] \in S
    BY DEF SettingCalls
  <2> HIDE DEF S
  <2> QED
    BY <2>1 DEF EditionCalls
<1>5. BandWidthPackageCalls(s, b) \in Seq(S)
  <2>1. Refusal \in S /\ DetachBandwidthPackage \in S /\ AttachBandwidthPackage(s) \in S
    BY DEF SettingCalls
  <2> HIDE DEF S
  <2>2. /\ When(b.bw # None, DetachBandwidthPackage) \in Seq(S)
        /\ <<AttachBandwidthPackage(s)>> \in Seq(S) /\ <<Refusal>> \in Seq(S) /\ <<>> \in Seq(S)
    BY <2>1, WhenSeq
  <2> QED
    BY <1>1, <2>2 DEF BandWidthPackageCalls
<1>6. TagCalls(s, b) \in Seq(S)
  <2> DEFINE keep == [k \in Key |-> IF s.tags[k] = None THEN None ELSE b.custom[k]]
  <2>1. UnTag(keep) \in S /\ TagWithoutResourceTags(s, keep) \in S
    BY DEF SettingCalls
  <2> HIDE DEF S
  <2>2. /\ When(keep # b.custom, UnTag(keep)) \in Seq(S)
        /\ When(s.tags # keep, TagWithoutResourceTags(s, keep)) \in Seq(S)
        /\ <<>> \in Seq(S)
    BY <2>1, WhenSeq
  <2>3. TagCalls(s, b) = IF \A k \in Key : s.tags[k] = None THEN <<>>
          ELSE When(keep # b.custom, UnTag(keep))
               \o When(s.tags # keep, TagWithoutResourceTags(s, keep))
    BY DEF TagCalls
  <2> HIDE DEF keep
  <2> QED
    BY <1>1, <2>2, <2>3
<1> HIDE DEF S
<1>7. UpdateALB(s, b) \in Seq(S)
  BY <1>1, <1>2, <1>3, <1>4, <1>5, <1>6 DEF UpdateALB
<1> QED
  BY <1>7 DEF S

\* A sequence of calls that a pass of c may have.
FitSeq(c, q) == q \in Seq(CallsOf(q)) /\ \A x \in CallsOf(q) : CallFits(c, x)

\* A sequence of calls that each fit, fits.
LEMMA FitSeqOf ==
  ASSUME NEW c, NEW S, NEW q \in Seq(S), \A x \in S : CallFits(c, x)
  PROVE  FitSeq(c, q)
BY CallsOfSeq DEF FitSeq

\* The calls that release a reused load balancer fit.
LEMMA ReleaseFits ==
  ASSUME NEW c, NEW q \in ReleaseSeqs
  PROVE  FitSeq(c, q)
<1> DEFINE S == {DeleteLoadBalancer, DisableDeletionProtection, Untag}
<1>1. \A x \in S : CallFits(c, x)
  BY DEF CallFits, DeleteLoadBalancer, DisableDeletionProtection, Untag
<1>2. q \in Seq(S)
  <2>1. DeleteLoadBalancer \in S /\ DisableDeletionProtection \in S /\ Untag \in S
    OBVIOUS
  <2> HIDE DEF S
  <2>2. /\ <<>> \in Seq(S) /\ <<DeleteLoadBalancer>> \in Seq(S) /\ <<Untag>> \in Seq(S)
        /\ <<DisableDeletionProtection, DeleteLoadBalancer>> \in Seq(S)
    BY <2>1
  <2> QED
    BY <2>2 DEF ReleaseSeqs
<1> HIDE DEF S
<1> QED
  BY <1>1, <1>2, FitSeqOf

\* Releasing and deleting: one of four sequences.
LEMMA ReleaseCallsFit ==
  ASSUME NEW p, NEW b
  PROVE  /\ DeleteCalls(b) \in ReleaseSeqs
         /\ ReleaseCalls(p, b) \in ReleaseSeqs
         /\ b.tag # None => ReleaseCalls(p, b) # <<>>
<1>1. DeleteCalls(b) \in ReleaseSeqs /\ DeleteCalls(b) # <<>>
  <2>1. b.prot => DeleteCalls(b) = <<DisableDeletionProtection, DeleteLoadBalancer>>
    <3>1. ASSUME NEW x, NEW y PROVE <<x>> \o <<y>> = <<x, y>>
      <4> DEFINE r == <<x>> \o <<y>>
      <4>1. <<x>> \in Seq({x, y}) /\ <<y>> \in Seq({x, y}) /\ <<x, y>> \in Seq({x, y})
        OBVIOUS
      <4>2. r \in Seq({x, y}) /\ Len(r) = 2 /\ r[1] = x /\ r[2] = y
        BY <4>1
      <4> HIDE DEF r
      <4>3. \A i \in 1..Len(r) : r[i] = <<x, y>>[i]
        BY <4>2
      <4>4. r = <<x, y>>
        BY <4>1, <4>2, <4>3, SeqEqual
      <4> QED
        BY <4>4 DEF r
    <3> QED
      BY <3>1 DEF DeleteCalls, When
  <2>2. ~b.prot => DeleteCalls(b) = <<DeleteLoadBalancer>>
    BY DEF DeleteCalls, When
  <2> QED
    BY <2>1, <2>2 DEF ReleaseSeqs
<1>2. UnReuseCalls(b) \in ReleaseSeqs /\ (b.tag # None => UnReuseCalls(b) # <<>>)
  BY DEF UnReuseCalls, When, ReleaseSeqs, Untag
<1> QED
  BY <1>1, <1>2 DEF ReleaseCalls

\* Updating, reusing and creating.
LEMMA UpdateCallsFit ==
  ASSUME NEW c, NEW s, NEW b
  PROVE  FitSeq(c, UpdateALB(s, b))
<1>1. \A x \in SettingCalls(s, b) : CallFits(c, x)
  BY SettingCallsFit DEF CallFits
<1> QED
  BY <1>1, UpdateALBSeq, FitSeqOf

\* The calls for a reused load balancer fit and never delete it.
LEMMA ReuseCallsFit ==
  ASSUME NEW c, NEW s, NEW b
  PROVE  /\ FitSeq(c, ReuseCalls(c, s, b))
         /\ \A x \in CallsOf(ReuseCalls(c, s, b)) :
              /\ "state" \notin DOMAIN x
              /\ ~s.force => DOMAIN x \subseteq {"tag", "custom", "refused"}
<1> DEFINE d == ReuseDescription(b)
           T == {Refusal, Tag(c, s, b)}
           S == IF s.force THEN T \cup SettingCalls(s, d) ELSE T
           q == ReuseCalls(c, s, b)
<1>1. \A x \in T : /\ CallFits(c, x) /\ "state" \notin DOMAIN x
                   /\ DOMAIN x \subseteq {"tag", "custom", "refused"}
  BY DEF CallFits, Refusal, Tag
<1>2. \A x \in SettingCalls(s, d) : CallFits(c, x) /\ "state" \notin DOMAIN x
  BY SettingCallsFit DEF CallFits
<1>3. \A x \in S : /\ CallFits(c, x) /\ "state" \notin DOMAIN x
                   /\ ~s.force => DOMAIN x \subseteq {"tag", "custom", "refused"}
  <2> HIDE DEF T, d
  <2> QED
    BY <1>1, <1>2
<1>4. q \in Seq(S)
  <2>1. <<Refusal>> \in Seq(S) /\ <<Tag(c, s, b)>> \in Seq(S) /\ <<>> \in Seq(S)
    <3>1. Refusal \in S /\ Tag(c, s, b) \in S
      OBVIOUS
    <3> HIDE DEF S
    <3> QED
      BY <3>1
  <2>2. s.force => UpdateALB(s, d) \in Seq(S)
    <3>1. UpdateALB(s, d) \in Seq(SettingCalls(s, d))
      BY UpdateALBSeq
    <3>2. s.force => SettingCalls(s, d) \subseteq S
      OBVIOUS
    <3> HIDE DEF S
    <3> QED
      BY <3>1, <3>2, CallsOfSeq
  <2>3. \A r, t : r \in Seq(S) /\ t \in Seq(S) => r \o t \in Seq(S)
    <3> HIDE DEF S
    <3> QED
      OBVIOUS
  <2>4. q = IF b.edition = "Basic" \/ TagConflict(c, b) THEN <<Refusal>>
            ELSE <<Tag(c, s, b)>> \o (IF s.force THEN UpdateALB(s, d) ELSE <<>>)
    BY DEF ReuseCalls
  <2> HIDE DEF S, q, d
  <2> QED
    BY <2>1, <2>2, <2>3, <2>4
<1> HIDE DEF S, q
<1>5. FitSeq(c, q) /\ CallsOf(q) \subseteq S
  BY <1>3, <1>4, FitSeqOf, CallsOfSeq
<1>6. \A x \in CallsOf(q) : /\ "state" \notin DOMAIN x
                            /\ ~s.force => DOMAIN x \subseteq {"tag", "custom", "refused"}
  BY <1>3, <1>5
<1> QED
  BY <1>5, <1>6 DEF q

\* The calls after a creation fit.
LEMMA CreateCallsFit ==
  ASSUME NEW c, NEW s, NEW b
  PROVE  FitSeq(c, CreateCalls(c, s, b))
<1> DEFINE S == {Refusal, Tag(c, s, b), EnableIpv6Internet, [log |-> s.log]}
           q == CreateCalls(c, s, b)
<1>1. \A x \in S : CallFits(c, x)
  BY DEF CallFits, Refusal, Tag, EnableIpv6Internet
<1>2. q \in Seq(S)
  <2>1. Tag(c, s, b) \in S /\ EnableIpv6Internet \in S /\ AssociateAccessLog(s) \in S
    BY DEF AssociateAccessLog
  <2> HIDE DEF S
  <2>2. /\ <<Tag(c, s, b)>> \in Seq(S) /\ When(s.ipv6 = "Internet", EnableIpv6Internet) \in Seq(S)
        /\ When(s.log # None, AssociateAccessLog(s)) \in Seq(S)
    BY <2>1, WhenSeq
  <2>3. \A r, t : r \in Seq(S) /\ t \in Seq(S) => r \o t \in Seq(S)
    OBVIOUS
  <2> QED
    BY <2>2, <2>3 DEF CreateCalls
<1> HIDE DEF S
<1> QED
  BY <1>1, <1>2, FitSeqOf

-----------------------------------------------------------------------------
(* What the steps do to the ALBs                                           *)

\* A call of a pass of c: only c can gain an ALB by it, the one called for.
LEMMA CallStep ==
  ASSUME Shapes, NEW c \in AlbConfig, NEW l \in LB, NEW x, CallFits(c, x),
         lb' = [lb EXCEPT ![l] = Done(x, @)]
  PROVE  /\ lb' = [k \in LB |-> lb'[k]] /\ \A k \in LB : ALBRecord(lb[k])'
         /\ \A d \in AlbConfig \ {c} : Listed(d)' \subseteq Listed(d)
         /\ Listed(c)' \subseteq Listed(c) \cup {l}
         /\ "tag" \notin DOMAIN x \/ x.tag # c => Listed(c)' \subseteq Listed(c)
         /\ x \in {DeleteLoadBalancer, Untag} => l \notin Listed(c)'
<1>1. ALBRecord(lb[l]) /\ lb'[l] = Done(x, lb[l]) /\ \A k \in LB \ {l} : lb'[k] = lb[k]
  BY DEF Shapes
<1>2. lb' = [k \in LB |-> lb'[k]]
  BY DEF Shapes
<1>3. "tag" \in DOMAIN Free /\ "state" \in DOMAIN Free
  BY DEF Free
<1>4. /\ DOMAIN lb[l] = DOMAIN Free
      /\ lb'[l] = [f \in DOMAIN Free |-> IF f \in DOMAIN x THEN x[f] ELSE lb[l][f]]
  BY <1>1 DEF ALBRecord, Done
<1>5. /\ lb'[l].tag = IF "tag" \in DOMAIN x THEN x.tag ELSE lb[l].tag
      /\ lb'[l].state = IF "state" \in DOMAIN x THEN x.state ELSE lb[l].state
  BY <1>3, <1>4
<1>6. ALBRecord(lb'[l])
  <2>1. lb'[l] = [f \in DOMAIN Free |-> lb'[l][f]]
    BY <1>4
  <2>2. lb'[l].state \in {"free", "live", "gone"} /\ lb'[l].tag \in AlbConfig \cup {None}
    BY <1>1, <1>5 DEF CallFits, ALBRecord
  <2> QED
    BY <2>1, <2>2 DEF ALBRecord
<1>7. \A k \in LB : ALBRecord(lb[k])'
  BY <1>1, <1>6 DEF Shapes, ALBRecord
<1>8. ASSUME NEW d \in AlbConfig, "tag" \notin DOMAIN x \/ x.tag # d
      PROVE  Listed(d)' \subseteq Listed(d)
  <2>1. d # None
    BY AlbAssumption
  <2>2. l \in Listed(d)' => l \in Listed(d)
    BY <1>5, <1>8, <2>1 DEF Listed, CallFits
  <2> QED
    BY <1>1, <2>2 DEF Listed
<1>9. Listed(c)' \subseteq Listed(c) \cup {l}
  BY <1>1 DEF Listed
<1>10. x \in {DeleteLoadBalancer, Untag} => l \notin Listed(c)'
  <2>1. c # None
    BY AlbAssumption
  <2> QED
    BY <1>5, <2>1 DEF Listed, DeleteLoadBalancer, Untag
<1>11. \A d \in AlbConfig \ {c} : Listed(d)' \subseteq Listed(d)
  <2> SUFFICES ASSUME NEW d \in AlbConfig \ {c} PROVE Listed(d)' \subseteq Listed(d)
    OBVIOUS
  <2>1. "tag" \notin DOMAIN x \/ x.tag # d
    BY AlbAssumption DEF CallFits
  <2> QED
    BY <1>8, <2>1
<1> QED
  BY <1>2, <1>7, <1>8, <1>9, <1>10, <1>11

\* A new ALB has no tags.
LEMMA CreateStep ==
  ASSUME Shapes, NEW c \in AlbConfig, NEW l \in LB, NEW s,
         lb' = [lb EXCEPT ![l] = Created(c, s)]
  PROVE  /\ lb' = [k \in LB |-> lb'[k]] /\ \A k \in LB : ALBRecord(lb[k])'
         /\ \A d \in AlbConfig : Listed(d)' \subseteq Listed(d)
<1>1. lb'[l] = Created(c, s) /\ \A k \in LB \ {l} : lb'[k] = lb[k]
  BY DEF Shapes
<1>2. ALBRecord(Created(c, s)) /\ Created(c, s).tag = None
  <2>1. DOMAIN Free = DOMAIN Created(c, s)
    BY DEF Free, Created
  <2>2. Created(c, s) = [f \in DOMAIN Created(c, s) |-> Created(c, s)[f]]
    BY DEF Created
  <2>3. Created(c, s).state = "live" /\ Created(c, s).tag = None
    BY DEF Created
  <2> QED
    BY <2>1, <2>2, <2>3 DEF ALBRecord
<1>3. lb' = [k \in LB |-> lb'[k]] /\ \A k \in LB : ALBRecord(lb[k])'
  BY <1>1, <1>2 DEF Shapes, ALBRecord
<1>4. ASSUME NEW d \in AlbConfig PROVE Listed(d)' \subseteq Listed(d)
  <2>1. d # None
    BY AlbAssumption
  <2> QED
    BY <1>1, <1>2, <2>1 DEF Listed
<1> QED
  BY <1>3, <1>4

\* An AlbConfig whose copies and pass are as before stays guarded when it
\* gains no ALB.
LEMMA Frame ==
  ASSUME NEW c \in AlbConfig, CopiesFit(c), ListingFits(c),
         pass'[c] = pass[c], api'[c] = api[c], cached'[c] = cached[c],
         Listed(c)' \subseteq Listed(c)
  PROVE  CopiesFit(c)' /\ ListingFits(c)'
<1>1. CopiesFit(c)'
  BY DEF CopiesFit
<1>2. pass[c].pc = "calls" => CallsFit(c)'
  BY DEF ListingFits, CallsFit
<1>3. ListingFits(c)'
  BY <1>2 DEF ListingFits
<1> QED
  BY <1>1, <1>3

\* A step of the pass of c that concerns no other AlbConfig.
LEMMA PassStep ==
  ASSUME GuardInv, NEW c \in AlbConfig, NEW q, Go(c, q), PassRecord(q),
         api' \in [AlbConfig -> Object \cup {None}],
         cached' \in [AlbConfig -> Object \cup {None}],
         lb' = [k \in LB |-> lb'[k]], \A k \in LB : ALBRecord(lb[k])',
         \A d \in AlbConfig \ {c} : /\ api'[d] = api[d] /\ cached'[d] = cached[d]
                                    /\ Listed(d)' \subseteq Listed(d),
         CopiesFit(c)', ListingFits(c)'
  PROVE  GuardInv'
<1>1. /\ pass' = [pass EXCEPT ![c] = q] /\ pass'[c] = q
      /\ pass' = [d \in AlbConfig |-> pass'[d]]
      /\ \A d \in AlbConfig \ {c} : pass'[d] = pass[d]
  BY DEF Go, GuardInv, Shapes
<1>2. \A d \in AlbConfig : PassRecord(pass[d])'
  BY <1>1 DEF GuardInv, Shapes, PassRecord
<1>3. Shapes'
  BY <1>1, <1>2 DEF Shapes
<1>4. \A d \in AlbConfig \ {c} : CopiesFit(d)' /\ ListingFits(d)'
  BY <1>1, Frame DEF GuardInv
<1> QED
  BY <1>3, <1>4 DEF GuardInv

\* A pass that ends leaves its AlbConfig guarded.
LEMMA RestStep ==
  ASSUME GuardInv, NEW c \in AlbConfig, Go(c, Resting),
         UNCHANGED <<api, cached>>,
         lb' = [k \in LB |-> lb'[k]], \A k \in LB : ALBRecord(lb[k])',
         \A d \in AlbConfig \ {c} : Listed(d)' \subseteq Listed(d),
         \A l, m \in Listed(c)' : l = m,
         Listed(c)' # {} => api[c] # None /\ api[c].fin
  PROVE  GuardInv'
<1>1. PassRecord(Resting)
  BY DEF PassRecord, Resting
<1>2. pass'[c] = Resting
  BY DEF Go, GuardInv, Shapes
<1>3. CopiesFit(c)'
  BY <1>2 DEF GuardInv, CopiesFit, Resting
<1>4. ListingFits(c)'
  BY <1>2 DEF ListingFits, Resting
<1> QED
  BY <1>1, <1>3, <1>4, PassStep DEF GuardInv, Shapes

-----------------------------------------------------------------------------
(* The guard is an invariant: one lemma per group of actions               *)

\* The invariant holds at first.
LEMMA GuardInit == Init => GuardInv
<1> SUFFICES ASSUME Init PROVE GuardInv
  OBVIOUS
<1> USE AlbAssumption, InputAssumption
<1>1. PICK s \in [AlbConfig -> InitSpec] :
        api = [c \in AlbConfig |-> [spec |-> s[c], deleting |-> FALSE, fin |-> FALSE,
                                    status |-> None, label |-> None]]
  BY DEF Init
<1>2. /\ api \in [AlbConfig -> Object \cup {None}] /\ cached = api
      /\ \A c \in AlbConfig : api[c] # None /\ ~api[c].deleting /\ ~api[c].fin
  <2>1. \A c \in AlbConfig : s[c] \in Specs
    BY DEF Specs
  <2>2. api \in [AlbConfig -> Object]
    BY <1>1, <2>1 DEF Object
  <2> QED
    BY <1>1, <2>2 DEF Init
<1>3. pass = [c \in AlbConfig |-> Resting] /\ lb = [l \in LB |-> IF l \in UserLB THEN UserAttrs ELSE Free]
  BY DEF Init
<1>4. \A c \in AlbConfig : PassRecord(pass[c])
  BY <1>3 DEF PassRecord, Resting
<1>5. ASSUME NEW l \in LB PROVE ALBRecord(lb[l]) /\ lb[l].tag = None
  <2>1. Free = [f \in DOMAIN Free |-> Free[f]] /\ Free.state = "free" /\ Free.tag = None
    BY DEF Free
  <2>2. ALBRecord(Free) /\ ALBRecord(UserAttrs)
    BY <2>1 DEF ALBRecord
  <2> QED
    BY <1>3, <2>1, <2>2
<1>6. Shapes
  BY <1>2, <1>3, <1>4, <1>5 DEF Shapes
<1>7. ASSUME NEW c \in AlbConfig PROVE Listed(c) = {}
  BY <1>5 DEF Listed
<1>8. ASSUME NEW c \in AlbConfig PROVE CopiesFit(c) /\ ListingFits(c)
  <2>1. pass[c] = Resting
    BY <1>3
  <2> QED
    BY <1>2, <1>7, <2>1 DEF CopiesFit, ListingFits, Resting
<1> QED
  BY <1>6, <1>8 DEF GuardInv

\* The user edits or deletes the AlbConfig, or the informer sees it.
LEMMA ClusterGuard ==
  ASSUME GuardInv, NEW c \in AlbConfig, EditSpec(c) \/ DeleteAlbConfig(c) \/ CacheSync(c)
  PROVE  GuardInv'
<1>1. Shapes /\ CopiesFit(c) /\ ListingFits(c) /\ PassRecord(pass[c])
  BY DEF GuardInv, Shapes
<1>2. pass' = pass /\ lb' = lb
  BY DEF EditSpec, DeleteAlbConfig, CacheSync
<1>3. Go(c, pass[c])
  BY <1>1, <1>2 DEF Go, Shapes
<1>4. /\ lb' = [k \in LB |-> lb'[k]] /\ \A k \in LB : ALBRecord(lb[k])'
      /\ \A d \in AlbConfig : Listed(d)' = Listed(d)
  BY <1>1, <1>2 DEF Shapes, ALBRecord, Listed
<1>5. /\ api' \in [AlbConfig -> Object \cup {None}] /\ cached' \in [AlbConfig -> Object \cup {None}]
      /\ \A d \in AlbConfig \ {c} : api'[d] = api[d] /\ cached'[d] = cached[d]
      /\ CopiesFit(c)'
      /\ Listed(c) # {} => api'[c] # None /\ api'[c].fin
  <2>1. CASE EditSpec(c)
    <3>1. PICK e \in Edit : api' = [api EXCEPT ![c].spec = e[2]]
      BY <2>1 DEF EditSpec
    <3>2. /\ api[c] \in Object /\ cached' = cached
      BY <1>1, <2>1 DEF EditSpec, Shapes
    <3>3. [api[c] EXCEPT !.spec = e[2]] \in Object
      BY <3>2 DEF Object, Specs
    <3>4. /\ api' \in [AlbConfig -> Object \cup {None}]
          /\ api'[c] \in Object /\ api'[c].deleting = api[c].deleting /\ api'[c].fin = api[c].fin
          /\ \A d \in AlbConfig \ {c} : api'[d] = api[d]
      BY <1>1, <3>1, <3>2, <3>3 DEF Shapes, Object
    <3>5. api'[c] # None /\ api[c] # None
      BY <3>2, <3>4, InputAssumption
    <3>6. CopiesFit(c)'
      BY <1>1, <1>2, <3>2, <3>4, <3>5 DEF CopiesFit
    <3> QED
      BY <1>1, <3>2, <3>4, <3>5, <3>6 DEF Shapes, ListingFits
  <2>2. CASE DeleteAlbConfig(c)
    <3>1. /\ api[c] \in Object /\ ~api[c].deleting /\ cached' = cached
          /\ api' = [api EXCEPT ![c] = IF @.fin THEN [@ EXCEPT !.deleting = TRUE] ELSE None]
      BY <1>1, <2>2 DEF DeleteAlbConfig, Shapes
    <3>2. [api[c] EXCEPT !.deleting = TRUE] \in Object
      BY <3>1 DEF Object
    <3>3. /\ api' \in [AlbConfig -> Object \cup {None}]
          /\ \A d \in AlbConfig \ {c} : api'[d] = api[d]
          /\ api'[c] = IF api[c].fin THEN [api[c] EXCEPT !.deleting = TRUE] ELSE None
      BY <1>1, <3>1, <3>2 DEF Shapes
    <3>4. api[c].fin => api'[c] # None /\ api'[c].fin /\ api'[c].deleting
      BY <3>1, <3>2, <3>3, InputAssumption DEF Object
    <3>5. api[c] # None /\ (~api[c].fin => api'[c] = None)
      BY <3>1, <3>3, InputAssumption
    <3>6. CopiesFit(c)'
      BY <1>1, <1>2, <3>1, <3>4, <3>5 DEF CopiesFit
    <3> QED
      BY <1>1, <3>1, <3>3, <3>4, <3>5, <3>6 DEF Shapes, ListingFits
  <2>3. CASE CacheSync(c)
    <3>1. cached' = [cached EXCEPT ![c] = api[c]] /\ api' = api
      BY <2>3 DEF CacheSync
    <3>2. cached'[c] = api[c] /\ \A d \in AlbConfig \ {c} : cached'[d] = cached[d]
      BY <1>1, <3>1 DEF Shapes
    <3>3. CopiesFit(c)'
      BY <1>1, <1>2, <3>1, <3>2 DEF CopiesFit
    <3> QED
      BY <1>1, <3>1, <3>2, <3>3 DEF Shapes, ListingFits
  <2> QED
    BY <2>1, <2>2, <2>3
<1>6. ListingFits(c)'
  <2>1. pass'[c] = pass[c] /\ Listed(c)' = Listed(c)
    BY <1>2, <1>4
  <2>2. pass[c].pc = "calls" => CallsFit(c)'
    BY <1>1, <2>1 DEF ListingFits, CallsFit
  <2> QED
    BY <1>1, <1>5, <2>1, <2>2 DEF ListingFits
<1> QED
  BY <1>1, <1>3, <1>4, <1>5, <1>6, PassStep

\* A step that moves the pass of c on and changes nothing else.
LEMMA MoveStep ==
  ASSUME GuardInv, NEW c \in AlbConfig, NEW q, Go(c, q), PassRecord(q), UNCHANGED <<api, cached, lb>>
  PROVE  /\ pass'[c] = q /\ Listed(c)' = Listed(c)
         /\ CopiesFit(c)' /\ ListingFits(c)' => GuardInv'
<1>1. pass'[c] = q
  BY DEF Go, GuardInv, Shapes
<1>2. /\ lb' = [k \in LB |-> lb'[k]] /\ \A k \in LB : ALBRecord(lb[k])'
      /\ \A d \in AlbConfig : Listed(d)' = Listed(d)
  BY DEF GuardInv, Shapes, ALBRecord, Listed
<1>3. CopiesFit(c)' /\ ListingFits(c)' => GuardInv'
  BY <1>2, PassStep DEF GuardInv, Shapes
<1> QED
  BY <1>1, <1>2, <1>3

\* A pass that ends without touching an ALB.
LEMMA EndStep ==
  ASSUME GuardInv, NEW c \in AlbConfig, Go(c, Resting), UNCHANGED <<api, cached, lb>>
  PROVE  GuardInv'
<1>1. /\ lb' = [k \in LB |-> lb'[k]] /\ \A k \in LB : ALBRecord(lb[k])'
      /\ \A d \in AlbConfig : Listed(d)' = Listed(d)
  BY DEF GuardInv, Shapes, ALBRecord, Listed
<1>2. /\ \A l, m \in Listed(c)' : l = m
      /\ Listed(c)' # {} => api[c] # None /\ api[c].fin
  BY <1>1 DEF GuardInv, ListingFits
<1> QED
  BY <1>1, <1>2, RestStep

\* A pass that ends because its ALB has no DNS name.
LEMMA UnnamedGuard ==
  ASSUME GuardInv, NEW c \in AlbConfig, NoDNSName(c)
  PROVE  GuardInv'
<1> DEFINE q == [Resting EXCEPT !.unnamed = TRUE]
<1>1. Go(c, q) /\ UNCHANGED <<api, cached, lb>>
  BY DEF NoDNSName
<1>2. PassRecord(q) /\ q.pc = "idle" /\ q.obj = None /\ ~q.clean
  BY DEF PassRecord, Resting
<1> HIDE DEF q
<1>3. /\ pass'[c] = q /\ Listed(c)' = Listed(c)
      /\ CopiesFit(c)' /\ ListingFits(c)' => GuardInv'
  BY <1>1, <1>2, MoveStep
<1>4. CopiesFit(c)' /\ ListingFits(c)'
  BY <1>1, <1>2, <1>3 DEF GuardInv, CopiesFit, ListingFits
<1> QED
  BY <1>3, <1>4

\* The start of a pass and its finalizer.
LEMMA StartGuard ==
  ASSUME GuardInv, NEW c \in AlbConfig, Reconcile(c) \/ AddFinalizers(c) \/ Conflict(c)
  PROVE  GuardInv'
<1>1. Shapes /\ CopiesFit(c) /\ ListingFits(c) /\ PassRecord(pass[c])
  BY DEF GuardInv, Shapes
<1>2. CASE Reconcile(c)
  <2> DEFINE o == cached[c]
             q == [Resting EXCEPT !.pc = IF o.deleting THEN "apply" ELSE "finalizer",
                                  !.obj = o, !.reuse = (o.spec.id # None), !.clean = o.deleting]
  <2>1. UNCHANGED <<api, cached, lb>> /\ pass[c].pc = "idle"
    BY <1>2 DEF Reconcile
  <2>2. CASE Go(c, Resting)
    BY <2>1, <2>2, EndStep
  <2>3. CASE o # None /\ Go(c, q)
    <3>1. o \in Object /\ o.deleting \in BOOLEAN
      BY <1>1, <2>3 DEF Shapes, Object
    <3>2. /\ q.pc = (IF o.deleting THEN "apply" ELSE "finalizer") /\ q.obj = o /\ q.clean = o.deleting
          /\ PassRecord(q)
      BY <3>1 DEF PassRecord, Resting
    <3> HIDE DEF q
    <3>3. /\ pass'[c] = q /\ Listed(c)' = Listed(c)
          /\ CopiesFit(c)' /\ ListingFits(c)' => GuardInv'
      BY <2>1, <2>3, <3>2, MoveStep
    <3>4. CopiesFit(c)'
      BY <1>1, <2>1, <2>3, <3>1, <3>2, <3>3 DEF CopiesFit
    <3>5. ListingFits(c)'
      BY <1>1, <2>1, <3>1, <3>2, <3>3 DEF ListingFits
    <3> QED
      BY <3>3, <3>4, <3>5
  <2> QED
    BY <1>2, <2>2, <2>3 DEF Reconcile
<1>3. CASE AddFinalizers(c)
  <2> DEFINE o == cached[c]
             q == [pass[c] EXCEPT !.pc = "apply", !.obj = [o EXCEPT !.fin = TRUE]]
  <2>1. /\ pass[c].pc = "finalizer" /\ o # None /\ (o.fin \/ o = api[c])
        /\ api' = IF o.fin THEN api ELSE [api EXCEPT ![c].fin = TRUE]
        /\ Go(c, q) /\ UNCHANGED <<cached, lb>>
    BY <1>3 DEF AddFinalizers
  <2>2. o \in Object /\ [o EXCEPT !.fin = TRUE] \in Object
    BY <1>1, <2>1 DEF Shapes, Object
  <2>3. /\ api' \in [AlbConfig -> Object \cup {None}]
        /\ \A d \in AlbConfig \ {c} : api'[d] = api[d]
        /\ o.fin => api'[c] = api[c]
        /\ ~o.fin => api'[c] = [o EXCEPT !.fin = TRUE]
    BY <1>1, <2>1, <2>2 DEF Shapes
  <2>4. /\ q.pc = "apply" /\ q.obj = [o EXCEPT !.fin = TRUE] /\ q.clean = pass[c].clean /\ PassRecord(q)
    BY <1>1, <2>2 DEF PassRecord
  <2>5. pass'[c] = q
    BY <1>1, <2>1 DEF Go, Shapes
  <2>6. q.obj \in Object /\ q.obj.deleting = o.deleting /\ q.obj.fin
    BY <2>2, <2>4 DEF Object
  <2> HIDE DEF q
  <2>7. q.obj # None /\ ~q.clean /\ cached'[c] = o
    BY <1>1, <2>1, <2>4, <2>6, InputAssumption DEF CopiesFit
  <2>8. /\ o.deleting => api'[c] = None \/ api'[c].deleting
        /\ (o.deleting /\ api'[c] = None) \/ (api'[c] # None /\ api'[c].fin)
    <3>1. CASE o.fin
      BY <1>1, <2>1, <2>3, <3>1 DEF CopiesFit
    <3>2. CASE ~o.fin
      <4>1. api'[c] = q.obj
        BY <2>3, <2>4, <3>2
      <4> QED
        BY <2>6, <2>7, <4>1
    <3> QED
      BY <3>1, <3>2
  <2>9. CopiesFit(c)'
    BY <2>4, <2>5, <2>6, <2>7, <2>8 DEF CopiesFit
  <2>10. /\ lb' = [k \in LB |-> lb'[k]] /\ \A k \in LB : ALBRecord(lb[k])'
         /\ \A d \in AlbConfig : Listed(d)' = Listed(d)
    BY <1>1, <2>1 DEF Shapes, ALBRecord, Listed
  <2>11. ListingFits(c)'
    <3>1. Listed(c) # {} => api'[c] # None /\ api'[c].fin
      BY <1>1, <2>1, <2>3, <2>6, <2>4, <2>7 DEF ListingFits
    <3> QED
      BY <1>1, <2>4, <2>5, <2>10, <3>1 DEF ListingFits
  <2> QED
    BY <1>1, <2>1, <2>3, <2>4, <2>9, <2>10, <2>11, PassStep DEF Shapes
<1>4. CASE Conflict(c)
  BY <1>4, EndStep DEF Conflict, Fail
<1> QED
  BY <1>2, <1>3, <1>4

\* One ALB is found by its tags, or none is.
LEMMA ApplyGuard ==
  ASSUME GuardInv, NEW c \in AlbConfig, Apply(c) \/ ApplyRefused(c)
  PROVE  GuardInv'
<1> DEFINE p == pass[c]
           s == BuildSpec(c, p.obj.spec)
<1>1. Shapes /\ CopiesFit(c) /\ ListingFits(c) /\ PassRecord(p)
  BY DEF GuardInv, Shapes
<1>2. UNCHANGED <<api, cached, lb>> /\ p.pc = "apply"
  BY DEF Apply, ApplyRefused
<1>3. p.obj \in Object /\ p.obj # None
  BY <1>1, <1>2 DEF CopiesFit, PassRecord
<1>4. ASSUME NEW l, NEW q, Go(c, [p EXCEPT !.pc = "calls", !.lb = l, !.calls = q]),
             l \in LB \cup {None}, q # <<>> => l \in LB, FitSeq(c, q), Listed(c) \subseteq {l},
             p.obj.deleting => q \in ReleaseSeqs /\ (q = <<>> => Listed(c) = {})
      PROVE  GuardInv'
  <2> DEFINE r == [p EXCEPT !.pc = "calls", !.lb = l, !.calls = q]
  <2>1. /\ PassRecord(r) /\ r.pc = "calls" /\ r.lb = l /\ r.calls = q
        /\ r.obj = p.obj /\ r.clean = p.clean
    BY <1>1, <1>4 DEF PassRecord
  <2> HIDE DEF r, p
  <2>2. /\ pass'[c] = r /\ Listed(c)' = Listed(c)
        /\ CopiesFit(c)' /\ ListingFits(c)' => GuardInv'
    BY <1>2, <1>4, <2>1, MoveStep DEF r
  <2>3. CopiesFit(c)'
    BY <1>1, <1>2, <1>3, <2>1, <2>2 DEF CopiesFit, p
  <2>4. CallsFit(c)'
    BY <1>4, <2>1, <2>2 DEF CallsFit, FitSeq
  <2>5. ListingFits(c)'
    BY <1>1, <1>2, <2>1, <2>2, <2>4 DEF ListingFits
  <2> QED
    BY <2>2, <2>3, <2>5
<1>5. FitSeq(c, <<>>)
  BY ReleaseFits DEF ReleaseSeqs
<1>6. ASSUME NEW l \in Listed(c)
      PROVE  l \in LB /\ Listed(c) \subseteq {l} /\ lb[l].tag # None
  BY <1>1, AlbAssumption DEF Listed, ListingFits
<1>7. CASE ApplyRefused(c)
  BY <1>2, <1>7, EndStep DEF ApplyRefused, Fail
<1>8. ASSUME NEW l \in Listed(c), p.obj.deleting,
             Go(c, [p EXCEPT !.pc = "calls", !.lb = l, !.calls = ReleaseCalls(p, lb[l])])
      PROVE  GuardInv'
  <2>1. /\ ReleaseCalls(p, lb[l]) \in ReleaseSeqs /\ ReleaseCalls(p, lb[l]) # <<>>
        /\ FitSeq(c, ReleaseCalls(p, lb[l]))
    BY <1>6, ReleaseCallsFit, ReleaseFits
  <2> HIDE DEF p
  <2> QED
    BY <1>4, <1>6, <1>8, <2>1
<1>9. ASSUME Listed(c) = {}, Go(c, [p EXCEPT !.pc = "calls", !.lb = None, !.calls = <<>>])
      PROVE  GuardInv'
  <2>1. <<>> \in ReleaseSeqs
    BY DEF ReleaseSeqs
  <2> HIDE DEF p
  <2> QED
    BY <1>4, <1>5, <1>9, <2>1
<1>10. ASSUME NEW l \in Listed(c), ~p.obj.deleting,
              Go(c, [p EXCEPT !.pc = "calls", !.lb = l,
                              !.calls = IF CommonReuse(p) THEN <<>> ELSE UpdateALB(s, lb[l])])
       PROVE  GuardInv'
  <2>1. FitSeq(c, IF CommonReuse(p) THEN <<>> ELSE UpdateALB(s, lb[l]))
    BY <1>5, UpdateCallsFit
  <2> HIDE DEF p, s
  <2> QED
    BY <1>4, <1>6, <1>10, <2>1
<1>11. ASSUME ~p.obj.deleting, Listed(c) = {}, s.id # None,
              Go(c, [p EXCEPT !.pc = "calls", !.lb = s.id, !.calls = ReuseCalls(c, s, lb[s.id])])
       PROVE  GuardInv'
  <2>1. s.id \in LB
    <3>1. p.obj.spec \in Specs
      BY <1>3 DEF Object
    <3>2. s.id = p.obj.spec.id
      BY <3>1, InputAssumption DEF BuildSpec
    <3> QED
      BY <1>11, <3>1, <3>2, InputAssumption
  <2>2. FitSeq(c, ReuseCalls(c, s, lb[s.id]))
    BY ReuseCallsFit
  <2> HIDE DEF p, s
  <2> QED
    BY <1>4, <1>11, <2>1, <2>2
<1>12. ASSUME ~p.obj.deleting, Listed(c) = {}, Go(c, [p EXCEPT !.pc = "create"])
       PROVE  GuardInv'
  <2> DEFINE r == [p EXCEPT !.pc = "create"]
  <2>1. PassRecord(r) /\ r.pc = "create" /\ r.obj = p.obj /\ r.clean = p.clean
    BY <1>1 DEF PassRecord
  <2> HIDE DEF r, p
  <2>2. /\ pass'[c] = r /\ Listed(c)' = Listed(c)
        /\ CopiesFit(c)' /\ ListingFits(c)' => GuardInv'
    BY <1>2, <1>12, <2>1, MoveStep DEF r
  <2>3. CopiesFit(c)'
    BY <1>1, <1>2, <1>3, <2>1, <2>2 DEF CopiesFit, p
  <2>4. ListingFits(c)'
    BY <1>1, <1>2, <1>12, <2>1, <2>2 DEF ListingFits
  <2> QED
    BY <2>2, <2>3, <2>4
<1> QED
  BY <1>7, <1>8, <1>9, <1>10, <1>11, <1>12 DEF Apply

\* Creating an ALB and waiting for it.
LEMMA CreateGuard ==
  ASSUME GuardInv, NEW c \in AlbConfig, CreateLoadBalancer(c) \/ WaitActive(c)
  PROVE  GuardInv'
<1> DEFINE p == pass[c]
<1>1. Shapes /\ CopiesFit(c) /\ ListingFits(c) /\ PassRecord(p)
  BY DEF GuardInv, Shapes
<1>2. CASE CreateLoadBalancer(c)
  <2>1. PICK l \in Unused : /\ lb' = [lb EXCEPT ![l] = Created(c, BuildSpec(c, pass[c].obj.spec))]
                            /\ Go(c, [pass[c] EXCEPT !.pc = "wait", !.lb = l])
    BY <1>2 DEF CreateLoadBalancer
  <2> DEFINE q == [p EXCEPT !.pc = "wait", !.lb = l]
  <2>2. /\ l \in LB /\ p.pc = "create" /\ UNCHANGED <<api, cached>>
    BY <1>2 DEF CreateLoadBalancer, Unused
  <2>3. PassRecord(q) /\ q.pc = "wait" /\ q.lb = l /\ q.obj = p.obj /\ q.clean = p.clean
    BY <1>1, <2>2 DEF PassRecord
  <2>4. pass'[c] = q
    BY <1>1, <2>1 DEF Go, Shapes
  <2> HIDE DEF q
  <2>5. /\ lb' = [k \in LB |-> lb'[k]] /\ \A k \in LB : ALBRecord(lb[k])'
        /\ \A d \in AlbConfig : Listed(d)' \subseteq Listed(d)
    BY <1>1, <2>1, <2>2, CreateStep
  <2>6. CopiesFit(c)'
    BY <1>1, <2>2, <2>3, <2>4 DEF CopiesFit
  <2>7. Listed(c)' = {} /\ ~p.obj.deleting
    BY <1>1, <2>2, <2>5 DEF ListingFits
  <2>8. ListingFits(c)'
    BY <2>2, <2>3, <2>4, <2>7 DEF ListingFits
  <2> QED
    BY <1>1, <2>1, <2>2, <2>3, <2>5, <2>6, <2>8, PassStep DEF Shapes, q
<1>3. CASE WaitActive(c)
  <2> DEFINE k == CreateCalls(c, BuildSpec(c, p.obj.spec), lb[p.lb])
             q == [p EXCEPT !.pc = "calls", !.calls = k]
  <2>1. UNCHANGED <<api, cached, lb>> /\ p.pc = "wait" /\ Go(c, q)
    BY <1>3 DEF WaitActive
  <2>2. FitSeq(c, k)
    BY CreateCallsFit
  <2> HIDE DEF k
  <2>3. /\ PassRecord(q) /\ q.pc = "calls" /\ q.lb = p.lb /\ q.obj = p.obj /\ q.clean = p.clean
        /\ q.calls = k
    BY <1>1 DEF PassRecord
  <2> HIDE DEF q
  <2>4. /\ pass'[c] = q /\ Listed(c)' = Listed(c)
        /\ CopiesFit(c)' /\ ListingFits(c)' => GuardInv'
    BY <2>1, <2>3, MoveStep
  <2>5. CopiesFit(c)'
    BY <1>1, <2>1, <2>3, <2>4 DEF CopiesFit
  <2>6. ~p.obj.deleting /\ Listed(c) = {} /\ p.lb \in LB
    BY <1>1, <2>1 DEF ListingFits
  <2>7. CallsFit(c)'
    BY <2>2, <2>3, <2>4, <2>6 DEF CallsFit, FitSeq
  <2>8. ListingFits(c)'
    BY <1>1, <2>1, <2>3, <2>4, <2>6, <2>7 DEF ListingFits
  <2> QED
    BY <2>4, <2>5, <2>8
<1> QED
  BY <1>2, <1>3

\* A call that the cloud carries out, or not: at most the ALB of the pass gains
\* the tags, and only while the finalizer is there.
LEMMA CallMoves ==
  ASSUME GuardInv, NEW c \in AlbConfig, pass[c].pc = "calls", pass[c].calls # <<>>,
         \/ lb' = lb
         \/ lb' = [lb EXCEPT ![pass[c].lb] = Done(Head(pass[c].calls), @)]
  PROVE  /\ lb' = [k \in LB |-> lb'[k]] /\ \A k \in LB : ALBRecord(lb[k])'
         /\ \A d \in AlbConfig \ {c} : Listed(d)' \subseteq Listed(d)
         /\ Listed(c)' \subseteq {pass[c].lb}
         /\ Listed(c)' # {} => api[c] # None /\ api[c].fin
<1> DEFINE p == pass[c]
           x == Head(p.calls)
<1>1. Shapes /\ CopiesFit(c) /\ ListingFits(c) /\ CallsFit(c)
  BY DEF GuardInv, ListingFits
<1>2. p.lb \in LB /\ x \in CallsOf(p.calls) /\ CallFits(c, x) /\ Listed(c) \subseteq {p.lb}
  BY <1>1, HeadTail DEF CallsFit
<1>3. CASE lb' = lb
  BY <1>1, <1>2, <1>3 DEF Shapes, ALBRecord, Listed, ListingFits
<1>4. CASE lb' = [lb EXCEPT ![p.lb] = Done(x, @)]
  <2> HIDE DEF x, p
  <2>1. /\ lb' = [k \in LB |-> lb'[k]] /\ \A k \in LB : ALBRecord(lb[k])'
        /\ \A d \in AlbConfig \ {c} : Listed(d)' \subseteq Listed(d)
        /\ Listed(c)' \subseteq Listed(c) \cup {p.lb}
        /\ "tag" \notin DOMAIN x \/ x.tag # c => Listed(c)' \subseteq Listed(c)
    BY <1>1, <1>2, <1>4, CallStep
  <2>2. CASE p.obj.deleting
    <3>1. "tag" \notin DOMAIN x \/ x.tag # c
      <4>1. x \in {DeleteLoadBalancer, DisableDeletionProtection, Untag}
        BY <1>1, <2>2 DEF CallsFit, ReleaseSeqs, p, x
      <4>2. c # None
        BY AlbAssumption
      <4> QED
        BY <4>1, <4>2 DEF DeleteLoadBalancer, DisableDeletionProtection, Untag
    <3> QED
      BY <1>1, <1>2, <2>1, <3>1 DEF ListingFits, p
  <2>3. CASE ~p.obj.deleting
    <3>1. api[c] # None /\ api[c].fin
      BY <1>1, <2>3 DEF CopiesFit, p
    <3> QED
      BY <1>2, <2>1, <3>1 DEF p
  <2> QED
    BY <2>2, <2>3
<1> QED
  BY <1>3, <1>4

\* The next call of a pass.
LEMMA CallGuard ==
  ASSUME GuardInv, NEW c \in AlbConfig, Call(c)
  PROVE  GuardInv'
<1> DEFINE p == pass[c]
           x == Head(p.calls)
           q == [p EXCEPT !.calls = Tail(@)]
<1>1. /\ Shapes /\ CopiesFit(c) /\ ListingFits(c) /\ PassRecord(p)
      /\ p.pc = "calls" /\ p.calls # <<>> /\ CallsFit(c)
  BY DEF GuardInv, Shapes, Call, ListingFits
<1>2. /\ lb' = [lb EXCEPT ![p.lb] = Done(x, @)] /\ Go(c, q) /\ UNCHANGED <<api, cached>>
  BY DEF Call
<1>3. /\ lb' = [k \in LB |-> lb'[k]] /\ \A k \in LB : ALBRecord(lb[k])'
      /\ \A d \in AlbConfig \ {c} : Listed(d)' \subseteq Listed(d)
      /\ Listed(c)' \subseteq {p.lb}
      /\ Listed(c)' # {} => api[c] # None /\ api[c].fin
  BY <1>1, <1>2, CallMoves
<1>4. /\ PassRecord(q) /\ q.pc = "calls" /\ q.lb = p.lb /\ q.obj = p.obj /\ q.clean = p.clean
      /\ q.calls = Tail(p.calls)
  BY <1>1 DEF PassRecord
<1>5. pass'[c] = q
  BY <1>1, <1>2 DEF Go, Shapes
<1>6. /\ x \in CallsOf(p.calls) /\ CallsOf(q.calls) \subseteq CallsOf(p.calls)
      /\ q.calls \in Seq(CallsOf(q.calls))
  BY <1>1, <1>4, HeadTail DEF CallsFit
<1> HIDE DEF q
<1>7. ASSUME p.obj.deleting
      PROVE  q.calls \in ReleaseSeqs /\ (q.calls = <<>> => Listed(c)' = {})
  <2>1. \/ p.calls = <<DisableDeletionProtection, DeleteLoadBalancer>>
        \/ p.calls = <<DeleteLoadBalancer>>
        \/ p.calls = <<Untag>>
    BY <1>1, <1>7 DEF CallsFit, ReleaseSeqs
  <2>2. CASE p.calls = <<DisableDeletionProtection, DeleteLoadBalancer>>
    <3>1. q.calls = <<DeleteLoadBalancer>> /\ q.calls # <<>>
      BY <1>4, <2>2
    <3> QED
      BY <3>1 DEF ReleaseSeqs
  <2>3. CASE p.calls = <<DeleteLoadBalancer>> \/ p.calls = <<Untag>>
    <3>1. q.calls = <<>> /\ x \in {DeleteLoadBalancer, Untag}
      <4>1. ASSUME NEW a PROVE Head(<<a>>) = a /\ Tail(<<a>>) = <<>>
        <5>1. <<a>> \in Seq({a}) /\ Len(<<a>>) = 1 /\ <<a>> # <<>>
          OBVIOUS
        <5>2. Tail(<<a>>) \in Seq({a}) /\ Len(Tail(<<a>>)) = 0
          BY <5>1
        <5>3. Tail(<<a>>) = <<>>
          BY <5>2, EmptySeq
        <5> QED
          BY <5>3
      <4> QED
        BY <1>4, <2>3, <4>1
    <3>2. p.lb \in LB /\ CallFits(c, x)
      BY <1>1, <1>6 DEF CallsFit
    <3> HIDE DEF x, p
    <3>3. p.lb \notin Listed(c)'
      BY <1>1, <1>2, <3>1, <3>2, CallStep
    <3> QED
      BY <1>3, <3>1, <3>3 DEF ReleaseSeqs
  <2> QED
    BY <2>1, <2>2, <2>3
<1>8. CallsFit(c)'
  BY <1>1, <1>3, <1>4, <1>5, <1>6, <1>7 DEF CallsFit
<1>9. CopiesFit(c)'
  BY <1>1, <1>2, <1>4, <1>5 DEF CopiesFit
<1>10. ListingFits(c)'
  BY <1>2, <1>3, <1>4, <1>5, <1>8 DEF ListingFits
<1> QED
  BY <1>1, <1>2, <1>3, <1>4, <1>9, <1>10, PassStep DEF Shapes, q

\* An error of a call: the pass fails, or deletes again what it could not tag.
LEMMA ErrorGuard ==
  ASSUME GuardInv, NEW c \in AlbConfig, pass[c].pc = "calls", pass[c].calls # <<>>, CallError(c),
         UNCHANGED <<api, cached>>,
         \/ lb' = lb
         \/ lb' = [lb EXCEPT ![pass[c].lb] = Done(Head(pass[c].calls), @)]
  PROVE  GuardInv'
<1> DEFINE p == pass[c]
           x == Head(p.calls)
           q == [p EXCEPT !.calls = DeleteCalls(lb[p.lb]), !.doomed = TRUE]
<1>1. /\ Shapes /\ CopiesFit(c) /\ ListingFits(c) /\ PassRecord(p) /\ CallsFit(c)
  BY DEF GuardInv, Shapes, ListingFits
<1>2. /\ lb' = [k \in LB |-> lb'[k]] /\ \A k \in LB : ALBRecord(lb[k])'
      /\ \A d \in AlbConfig \ {c} : Listed(d)' \subseteq Listed(d)
      /\ Listed(c)' \subseteq {p.lb}
      /\ Listed(c)' # {} => api[c] # None /\ api[c].fin
  BY CallMoves
<1>3. CASE Tagging(p) /\ Go(c, q)
  <2>1. ~p.obj.deleting
    <3>1. x \notin {DeleteLoadBalancer, DisableDeletionProtection, Untag}
      <4>1. "tag" \in DOMAIN x /\ x.tag # None
        BY <1>3 DEF Tagging
      <4> HIDE DEF x
      <4> QED
        BY <4>1 DEF DeleteLoadBalancer, DisableDeletionProtection, Untag
    <3>2. p.calls \notin ReleaseSeqs
      <4>1. \A r \in ReleaseSeqs : r = <<>> \/ Head(r) \in {DeleteLoadBalancer, DisableDeletionProtection, Untag}
        BY DEF ReleaseSeqs
      <4> QED
        BY <3>1, <4>1
    <3> QED
      BY <1>1, <3>2 DEF CallsFit
  <2>2. FitSeq(c, DeleteCalls(lb[p.lb]))
    BY ReleaseCallsFit, ReleaseFits
  <2>3. /\ PassRecord(q) /\ q.pc = "calls" /\ q.lb = p.lb /\ q.obj = p.obj /\ q.clean = p.clean
        /\ q.calls = DeleteCalls(lb[p.lb])
    BY <1>1 DEF PassRecord
  <2>4. pass'[c] = q
    BY <1>1, <1>3 DEF Go, Shapes
  <2> HIDE DEF q
  <2>5. CallsFit(c)'
    BY <1>1, <1>2, <2>1, <2>2, <2>3, <2>4 DEF CallsFit, FitSeq
  <2>6. CopiesFit(c)'
    BY <1>1, <2>3, <2>4 DEF CopiesFit
  <2>7. ListingFits(c)'
    BY <1>2, <2>3, <2>4, <2>5 DEF ListingFits
  <2> QED
    BY <1>1, <1>2, <1>3, <2>3, <2>6, <2>7, PassStep DEF Shapes
<1>4. CASE Fail(c)
  <2>1. \A l, m \in Listed(c)' : l = m
    BY <1>2
  <2> QED
    BY <1>2, <1>4, <2>1, RestStep DEF Fail
<1> QED
  BY <1>3, <1>4 DEF CallError

\* The end of a pass: status and label, or the finalizer goes.
LEMMA FinishGuard ==
  ASSUME GuardInv, NEW c \in AlbConfig,
         Applied(c) \/ Panics(c) \/ UpdateStatus(c) \/ AddLabel(c) \/ RemoveFinalizers(c)
  PROVE  GuardInv'
<1> DEFINE p == pass[c]
<1>1. /\ Shapes /\ CopiesFit(c) /\ ListingFits(c) /\ PassRecord(p)
  BY DEF GuardInv, Shapes
<1>2. /\ lb' = lb /\ lb' = [k \in LB |-> lb'[k]] /\ \A k \in LB : ALBRecord(lb[k])'
      /\ \A d \in AlbConfig : Listed(d)' = Listed(d)
      /\ cached' = cached
  BY <1>1 DEF Applied, Panics, UpdateStatus, AddLabel, RemoveFinalizers, Shapes, ALBRecord, Listed
<1>3. CASE Applied(c)
  <2> DEFINE q == [p EXCEPT !.pc = IF p.clean THEN "unfinalize" ELSE "status"]
  <2>1. /\ p.pc = "calls" /\ p.calls = <<>> /\ UNCHANGED <<api, cached, lb>>
        /\ Go(c, Resting) \/ Go(c, q)
    BY <1>3 DEF Applied, Fail
  <2>2. CASE Go(c, q)
    <3>1. /\ PassRecord(q) /\ q.pc = (IF p.clean THEN "unfinalize" ELSE "status")
          /\ q.lb = p.lb /\ q.obj = p.obj /\ q.clean = p.clean
      BY <1>1 DEF PassRecord
    <3> HIDE DEF q
    <3>2. /\ pass'[c] = q /\ Listed(c)' = Listed(c)
          /\ CopiesFit(c)' /\ ListingFits(c)' => GuardInv'
      BY <2>1, <2>2, <3>1, MoveStep
    <3>3. CopiesFit(c)'
      BY <1>1, <2>1, <3>1, <3>2 DEF CopiesFit
    <3>4. p.clean => Listed(c) = {}
      BY <1>1, <2>1 DEF CopiesFit, ListingFits, CallsFit
    <3>5. ListingFits(c)'
      BY <1>1, <2>1, <3>1, <3>2, <3>4 DEF ListingFits
    <3> QED
      BY <3>2, <3>3, <3>5
  <2> QED
    BY <2>1, <2>2, EndStep
<1>4. CASE Panics(c)
  BY <1>4, EndStep DEF Panics
<1>5. CASE UpdateStatus(c)
  <2> DEFINE q == [p EXCEPT !.pc = "label", !.obj.status = p.lb]
  <2>1. /\ p.pc = "status" /\ p.obj = api[c] /\ api' = [api EXCEPT ![c].status = p.lb] /\ Go(c, q)
    BY <1>5 DEF UpdateStatus
  <2>2. api[c] \in Object /\ api[c] # None
    BY <1>1, <2>1 DEF CopiesFit, Shapes
  <2> DEFINE o == [api[c] EXCEPT !.status = p.lb]
  <2>3. o \in Object /\ o.deleting = api[c].deleting /\ o.fin = api[c].fin
    BY <1>1, <2>2 DEF Object, PassRecord
  <2>4. /\ api' \in [AlbConfig -> Object \cup {None}] /\ api'[c] = o
        /\ \A d \in AlbConfig \ {c} : api'[d] = api[d]
    BY <1>1, <2>1, <2>3 DEF Shapes
  <2>5. PassRecord(q) /\ q.pc = "label" /\ q.obj = o /\ q.clean = p.clean
    BY <1>1, <2>1, <2>3 DEF PassRecord
  <2>6. pass'[c] = q /\ o # None
    BY <1>1, <2>1, <2>3, InputAssumption DEF Go, Shapes
  <2> HIDE DEF q, o
  <2>7. CopiesFit(c)'
    BY <1>1, <1>2, <2>1, <2>2, <2>3, <2>4, <2>5, <2>6 DEF CopiesFit
  <2>8. ListingFits(c)'
    BY <1>1, <1>2, <2>2, <2>3, <2>4, <2>5, <2>6 DEF ListingFits
  <2> QED
    BY <1>1, <1>2, <2>1, <2>4, <2>5, <2>7, <2>8, PassStep DEF Shapes
<1>6. CASE AddLabel(c)
  <2>1. /\ p.pc = "label" /\ api[c] # None /\ api' = [api EXCEPT ![c].label = Hash(p.obj)]
        /\ Go(c, Resting)
    BY <1>6 DEF AddLabel
  <2> DEFINE o == [api[c] EXCEPT !.label = Hash(p.obj)]
  <2>2. api[c] \in Object /\ p.obj \in Object
    BY <1>1, <2>1 DEF CopiesFit, Shapes, PassRecord
  <2>3. Hash(p.obj) \in Specs \X BOOLEAN
    BY <2>2 DEF Hash, Object
  <2>4. o \in Object /\ o.deleting = api[c].deleting /\ o.fin = api[c].fin /\ o # None
    <3>1. o \in Object /\ o.deleting = api[c].deleting /\ o.fin = api[c].fin
      BY <2>2, <2>3 DEF Object
    <3> QED
      BY <3>1, InputAssumption
  <2>5. /\ api' \in [AlbConfig -> Object \cup {None}] /\ api'[c] = o
        /\ \A d \in AlbConfig \ {c} : api'[d] = api[d]
    BY <1>1, <2>1, <2>4 DEF Shapes
  <2>6. pass'[c] = Resting /\ PassRecord(Resting)
    BY <1>1, <2>1 DEF Go, Shapes, PassRecord, Resting
  <2> HIDE DEF o
  <2>7. CopiesFit(c)'
    BY <1>1, <1>2, <2>1, <2>4, <2>5, <2>6 DEF CopiesFit, Resting
  <2>8. ListingFits(c)'
    BY <1>1, <1>2, <2>4, <2>5, <2>6 DEF ListingFits, Resting
  <2> QED
    BY <1>1, <1>2, <2>1, <2>5, <2>6, <2>7, <2>8, PassStep DEF Shapes
<1>7. CASE RemoveFinalizers(c)
  <2>1. /\ p.pc = "unfinalize" /\ cached[c] = api[c] /\ api' = [api EXCEPT ![c] = None]
        /\ Go(c, Resting)
    BY <1>7 DEF RemoveFinalizers
  <2>2. /\ api' \in [AlbConfig -> Object \cup {None}] /\ api'[c] = None
        /\ \A d \in AlbConfig \ {c} : api'[d] = api[d]
    BY <1>1, <2>1 DEF Shapes
  <2>3. pass'[c] = Resting /\ PassRecord(Resting)
    BY <1>1, <2>1 DEF Go, Shapes, PassRecord, Resting
  <2>4. Listed(c) = {} /\ p.clean
    BY <1>1, <2>1 DEF ListingFits
  <2>5. cached[c] # None => cached[c].deleting
    BY <1>1, <2>1, <2>4 DEF CopiesFit
  <2>6. CopiesFit(c)'
    BY <1>2, <2>2, <2>3, <2>5 DEF CopiesFit, Resting
  <2>7. ListingFits(c)'
    BY <1>2, <2>2, <2>3, <2>4 DEF ListingFits, Resting
  <2> QED
    BY <1>1, <1>2, <2>1, <2>2, <2>3, <2>6, <2>7, PassStep DEF Shapes
<1> QED
  BY <1>3, <1>4, <1>5, <1>6, <1>7

\* A refused or failed call keeps the invariant.
LEMMA RefusedGuard ==
  ASSUME GuardInv, NEW c \in AlbConfig, Refused(c) \/ CallFails(c)
  PROVE  GuardInv'
<1>1. UNCHANGED <<api, cached, lb>>
  BY DEF Refused, CallFails
<1>2. CASE pass[c].pc = "calls" /\ pass[c].calls # <<>> /\ CallError(c)
  BY <1>1, <1>2, ErrorGuard
<1>3. CASE Fail(c)
  BY <1>1, <1>3, EndStep DEF Fail
<1> QED
  BY <1>2, <1>3 DEF Refused, CallFails

\* A call whose answer is lost keeps the invariant.
LEMMA LostGuard ==
  ASSUME GuardInv, NEW c \in AlbConfig, CallLost(c)
  PROVE  GuardInv'
<1> DEFINE p == pass[c]
<1>1. UNCHANGED <<api, cached>>
  BY DEF CallLost
<1>2. CASE /\ p.pc = "calls" /\ p.calls # <<>>
           /\ lb' = [lb EXCEPT ![p.lb] = Done(Head(p.calls), @)]
           /\ CallError(c)
  BY <1>1, <1>2, ErrorGuard
<1>3. ASSUME NEW l \in Unused, lb' = [lb EXCEPT ![l] = Created(c, BuildSpec(c, p.obj.spec))], Fail(c)
      PROVE  GuardInv'
  <2>1. l \in LB
    BY DEF Unused
  <2>2. /\ lb' = [k \in LB |-> lb'[k]] /\ \A k \in LB : ALBRecord(lb[k])'
        /\ \A d \in AlbConfig : Listed(d)' \subseteq Listed(d)
    BY <1>3, <2>1, CreateStep DEF GuardInv
  <2>3. /\ \A k, m \in Listed(c)' : k = m
        /\ Listed(c)' # {} => api[c] # None /\ api[c].fin
    <3>1. Listed(c)' \subseteq Listed(c)
      BY <2>2
    <3> QED
      BY <3>1 DEF GuardInv, ListingFits
  <2> QED
    BY <1>1, <1>3, <2>2, <2>3, RestStep DEF Fail
<1> QED
  BY <1>2, <1>3 DEF CallLost

\* A restart, a deletion in the console, and nothing at all.
LEMMA WorldGuard ==
  ASSUME GuardInv, Restart \/ (\E l \in LB : ConsoleDelete(l)) \/ UNCHANGED vars
  PROVE  GuardInv'
<1>1. CASE Restart
  <2>1. pass' = [c \in AlbConfig |-> Resting] /\ cached' = api /\ UNCHANGED <<api, lb>>
    BY <1>1 DEF Restart
  <2>2. \A c \in AlbConfig : pass'[c] = Resting /\ Listed(c)' = Listed(c)
    BY <2>1 DEF Listed
  <2>3. PassRecord(Resting)
    BY DEF PassRecord, Resting
  <2>4. \A c \in AlbConfig : PassRecord(pass[c])'
    BY <2>2, <2>3 DEF PassRecord
  <2>5. Shapes'
    BY <2>1, <2>2, <2>4 DEF GuardInv, Shapes, ALBRecord
  <2>6. ASSUME NEW c \in AlbConfig PROVE CopiesFit(c)' /\ ListingFits(c)'
    BY <2>1, <2>2 DEF GuardInv, CopiesFit, ListingFits, Resting
  <2> QED
    BY <2>5, <2>6 DEF GuardInv
<1>2. ASSUME NEW l \in LB, ConsoleDelete(l) PROVE GuardInv'
  <2>1. lb' = [lb EXCEPT ![l].state = "gone"] /\ UNCHANGED <<api, cached, pass>>
    BY <1>2 DEF ConsoleDelete
  <2>2. /\ lb' = [k \in LB |-> lb'[k]] /\ lb'[l] = [lb[l] EXCEPT !.state = "gone"]
        /\ \A k \in LB \ {l} : lb'[k] = lb[k]
    BY <2>1 DEF GuardInv, Shapes
  <2>3. ALBRecord(lb'[l]) /\ lb'[l].state = "gone"
    <3>1. ALBRecord(lb[l]) /\ "state" \in DOMAIN Free /\ "tag" \in DOMAIN Free
      BY DEF GuardInv, Shapes, Free
    <3>2. lb'[l] = [f \in DOMAIN Free |-> IF f = "state" THEN "gone" ELSE lb[l][f]]
      BY <2>2, <3>1 DEF ALBRecord
    <3> QED
      BY <3>1, <3>2 DEF ALBRecord
  <2>4. \A k \in LB : ALBRecord(lb[k])'
    <3>1. ASSUME NEW k \in LB \ {l} PROVE ALBRecord(lb'[k])
      BY <2>2 DEF GuardInv, Shapes
    <3>2. \A k \in LB : ALBRecord(lb'[k])
      BY <2>3, <3>1
    <3> QED
      BY <3>2 DEF ALBRecord
  <2>5. \A c \in AlbConfig : Listed(c)' \subseteq Listed(c)
    BY <2>2, <2>3 DEF Listed
  <2>6. Shapes'
    BY <2>1, <2>2, <2>4 DEF GuardInv, Shapes, PassRecord
  <2>7. \A c \in AlbConfig : CopiesFit(c)' /\ ListingFits(c)'
    BY <2>1, <2>5, Frame DEF GuardInv
  <2> QED
    BY <2>6, <2>7 DEF GuardInv
<1>3. CASE UNCHANGED vars
  <2>1. Shapes'
    BY <1>3 DEF vars, GuardInv, Shapes, PassRecord, ALBRecord
  <2>2. \A c \in AlbConfig : Listed(c)' = Listed(c)
    BY <1>3 DEF vars, Listed
  <2>3. \A c \in AlbConfig : CopiesFit(c)' /\ ListingFits(c)'
    BY <1>3, <2>2, Frame DEF vars, GuardInv
  <2> QED
    BY <2>1, <2>3 DEF GuardInv
<1> QED
  BY <1>1, <1>2, <1>3

\* Every step keeps the invariant.
LEMMA GuardNext == GuardInv /\ [Next]_vars => GuardInv'
<1> SUFFICES ASSUME GuardInv, [Next]_vars PROVE GuardInv'
  OBVIOUS
<1>1. ASSUME NEW c \in AlbConfig, Work(c) PROVE GuardInv'
  BY <1>1, StartGuard, ApplyGuard, CreateGuard, CallGuard, RefusedGuard, FinishGuard DEF Work
<1>2. ASSUME NEW c \in AlbConfig,
             \/ EditSpec(c) \/ DeleteAlbConfig(c) \/ CacheSync(c)
             \/ CallFails(c) \/ CallLost(c) \/ NoDNSName(c)
      PROVE  GuardInv'
  BY <1>2, ClusterGuard, RefusedGuard, LostGuard, UnnamedGuard
<1> QED
  BY <1>1, <1>2, WorldGuard DEF Next

\* The invariant always holds.
LEMMA GuardInvariance == Spec => []GuardInv
BY GuardInit, GuardNext, PTL DEF Spec

(***************************************************************************)
(* However passes fail, restart and read stale copies, and however many    *)
(* AlbConfigs there are: an ALB with the tags of an AlbConfig keeps its    *)
(* finalizer.                                                              *)
(***************************************************************************)
THEOREM FinalizerHolds == Spec => []FinalizerGuards
<1>1. GuardInv => FinalizerGuards
  <2> SUFFICES ASSUME GuardInv, NEW l \in LB, lb[l].state = "live", lb[l].tag # None
               PROVE  api[lb[l].tag] # None /\ api[lb[l].tag].fin
    BY DEF FinalizerGuards
  <2>1. lb[l].tag \in AlbConfig /\ l \in Listed(lb[l].tag)
    BY DEF GuardInv, Shapes, ALBRecord, Listed
  <2> QED
    BY <2>1 DEF GuardInv, ListingFits
<1> QED
  BY <1>1, GuardInvariance, PTL

(***************************************************************************)
(* No AlbConfig ever has two ALBs with its tags, whatever becomes of the   *)
(* calls that create and tag one.                                          *)
(***************************************************************************)
THEOREM OneALB == Spec => []AtMostOneALB
<1>1. GuardInv => AtMostOneALB
  <2> SUFFICES ASSUME GuardInv, NEW c \in AlbConfig PROVE Cardinality(Bearing(c)) <= 1
    BY DEF AtMostOneALB
  <2>1. \A l, m \in Bearing(c) : l = m
    BY DEF GuardInv, ListingFits, Listed, Bearing
  <2>2. CASE Bearing(c) = {}
    BY <2>2, FS_EmptySet
  <2>3. CASE Bearing(c) # {}
    <3>1. PICK l \in Bearing(c) : TRUE
      BY <2>3
    <3>2. Bearing(c) = {l}
      BY <2>1, <3>1
    <3>3. Cardinality({l}) = 1
      BY FS_Singleton
    <3> QED
      BY <3>2, <3>3
  <2> QED
    BY <2>2, <2>3
<1> QED
  BY <1>1, GuardInvariance, PTL

-----------------------------------------------------------------------------
(* The ALB of the user                                                     *)

\* buildAlbLoadBalancerSpec leaves the ALB to reuse and the override alone.
LEMMA BuiltSpec ==
  ASSUME NEW c, NEW s \in Specs
  PROVE  BuildSpec(c, s).id = s.id /\ BuildSpec(c, s).force = s.force
BY InputAssumption DEF BuildSpec

\* Copies that name ALBs which copies named before keep what they agree on.
LEMMA CopyStep ==
  ASSUME NEW c \in AlbConfig, UserFits(c),
         \A o \in Copies(c)' : \E q \in Copies(c) : o.spec.id = q.spec.id,
         \A l \in UserLB : lb'[l].tag = c =>
           lb[l].tag = c \/ \A o \in Copies(c) : o.spec.id = l
  PROVE  /\ \A o, q \in Copies(c)' : o.spec.id = q.spec.id
         /\ \A l \in UserLB : lb'[l].tag = c => \A o \in Copies(c)' : o.spec.id = l
<1>1. \A o, q \in Copies(c) : o.spec.id = q.spec.id
  BY DEF UserFits
<1>2. \A l \in UserLB : lb[l].tag = c => \A o \in Copies(c) : o.spec.id = l
  BY DEF UserFits
<1> DEFINE A == Copies(c)
           B == Copies(c)'
<1>3. \A o \in B : \E q \in A : o.spec.id = q.spec.id
  OBVIOUS
<1> HIDE DEF A, B
<1>4. \A o, q \in B : o.spec.id = q.spec.id
  BY <1>1, <1>3 DEF A
<1>5. \A l \in UserLB : lb'[l].tag = c => \A o \in B : o.spec.id = l
  BY <1>2, <1>3 DEF A
<1> QED
  BY <1>4, <1>5 DEF B

\* A step of the pass of c: what is left to show is about c.
LEMMA UserStep ==
  ASSUME UserInv, NEW c \in AlbConfig,
         \A d \in AlbConfig \ {c} :
           /\ api'[d] = api[d] /\ cached'[d] = cached[d] /\ pass'[d] = pass[d]
           /\ \A l \in UserLB : lb'[l].tag = d => lb[l].tag = d,
         UserFits(c)', UserALBKept'
  PROVE  UserInv'
<1>1. ASSUME NEW d \in AlbConfig \ {c} PROVE UserFits(d)'
  <2>1. UserFits(d) /\ Copies(d)' = Copies(d) /\ pass'[d] = pass[d]
    BY DEF UserInv, Copies
  <2>2. \A x : UserCall(pass[d], x)' <=> UserCall(pass[d], x)
    BY <2>1 DEF UserCall
  <2>3. \A l \in UserLB : lb'[l].tag = d => \A o \in Copies(d)' : o.spec.id = l
    BY <2>1 DEF UserFits
  <2> QED
    BY <2>1, <2>2, <2>3 DEF UserFits
<1> QED
  BY <1>1 DEF UserInv

\* A step that moves the pass of c on, or ends it, and leaves the ALBs alone.
LEMMA UserMove ==
  ASSUME UserInv, Shapes, NEW c \in AlbConfig, NEW q, Go(c, q),
         lb' = lb,
         \A d \in AlbConfig \ {c} : api'[d] = api[d] /\ cached'[d] = cached[d],
         \A o \in {api'[c], cached'[c], q.obj} \ {None} :
           \E r \in Copies(c) : o.spec.id = r.spec.id,
         q.pc # "idle" => q.reuse = (q.obj.spec.id # None),
         q.pc = "wait" => q.lb \notin UserLB,
         q.pc = "calls" /\ q.lb \in UserLB =>
           /\ q.reuse /\ q.obj.spec.id = q.lb
           /\ \A x \in CallsOf(q.calls) : UserCall(q, x)
  PROVE  UserInv'
<1>1. pass'[c] = q /\ \A d \in AlbConfig \ {c} : pass'[d] = pass[d]
  BY DEF Go, Shapes
<1>2. Copies(c)' = {api'[c], cached'[c], q.obj} \ {None}
  BY <1>1 DEF Copies
<1>3. UserFits(c)
  BY DEF UserInv
<1>4. /\ \A o, r \in Copies(c)' : o.spec.id = r.spec.id
      /\ \A l \in UserLB : lb'[l].tag = c => \A o \in Copies(c)' : o.spec.id = l
  BY <1>2, <1>3, CopyStep
<1>5. \A x : UserCall(pass[c], x)' <=> UserCall(q, x)
  BY <1>1 DEF UserCall
<1>6. UserFits(c)'
  BY <1>1, <1>4, <1>5 DEF UserFits
<1> QED
  BY <1>1, <1>6, UserStep DEF UserInv, UserALBKept

\* A pass that ends: nothing is to be shown but what becomes of the copies.
LEMMA UserEnd ==
  ASSUME UserInv, Shapes, NEW c \in AlbConfig, Go(c, Resting), UNCHANGED <<api, cached, lb>>
  PROVE  UserInv'
<1>1. /\ Resting.pc = "idle" /\ Resting.obj = None
  BY DEF Resting
<1>2. \A o \in {api'[c], cached'[c], Resting.obj} \ {None} : o \in Copies(c)
  BY <1>1 DEF Copies
<1> QED
  BY <1>1, <1>2, UserMove

\* The user's load balancers are as the user made them at first.
LEMMA UserInit == Init => UserInv
<1> SUFFICES ASSUME Init PROVE UserInv
  OBVIOUS
<1>1. GuardInv
  BY GuardInit
<1>2. /\ pass = [c \in AlbConfig |-> Resting] /\ cached = api
      /\ lb = [l \in LB |-> IF l \in UserLB THEN UserAttrs ELSE Free]
  BY DEF Init
<1>3. \A l \in UserLB : lb[l].state = "live" /\ lb[l].tag = None
  BY <1>2, AlbAssumption, InputAssumption
<1>4. ASSUME NEW c \in AlbConfig PROVE UserFits(c)
  <2>1. pass[c].pc = "idle" /\ pass[c].obj = None /\ c # None
    BY <1>2, AlbAssumption DEF Resting
  <2>2. Copies(c) \subseteq {api[c]}
    BY <1>2, <2>1 DEF Copies
  <2> QED
    BY <1>3, <2>1, <2>2 DEF UserFits
<1> QED
  BY <1>3, <1>4 DEF UserInv, UserALBKept

\* The user edits or deletes the AlbConfig, or the informer sees it.
LEMMA ClusterUser ==
  ASSUME IdsKept, GuardInv, UserInv, NEW c \in AlbConfig,
         EditSpec(c) \/ DeleteAlbConfig(c) \/ CacheSync(c)
  PROVE  UserInv'
<1>1. Shapes /\ UserFits(c)
  BY DEF GuardInv, UserInv
<1>2. pass' = pass /\ lb' = lb
  BY DEF EditSpec, DeleteAlbConfig, CacheSync
<1>3. Go(c, pass[c])
  BY <1>1, <1>2 DEF Go, Shapes
<1>4. /\ \A d \in AlbConfig \ {c} : api'[d] = api[d] /\ cached'[d] = cached[d]
      /\ \A o \in {api'[c], cached'[c], pass[c].obj} \ {None} :
           \E r \in Copies(c) : o.spec.id = r.spec.id
  <2>1. CASE EditSpec(c)
    <3>1. PICK e \in Edit : e[1] = api[c].spec /\ api' = [api EXCEPT ![c].spec = e[2]]
      BY <2>1 DEF EditSpec
    <3>2. api[c] \in Object /\ api[c] \in Copies(c) /\ cached' = cached
      BY <1>1, <2>1 DEF EditSpec, Shapes, Copies
    <3>3. /\ api'[c] = [api[c] EXCEPT !.spec = e[2]]
          /\ \A d \in AlbConfig \ {c} : api'[d] = api[d]
      BY <1>1, <3>1 DEF Shapes
    <3>4. api'[c].spec.id = api[c].spec.id
      BY <3>1, <3>2, <3>3 DEF IdsKept, Object
    <3>5. {cached[c], pass[c].obj} \ {None} \subseteq Copies(c)
      BY DEF Copies
    <3> QED
      BY <3>2, <3>3, <3>4, <3>5
  <2>2. CASE DeleteAlbConfig(c)
    <3>1. /\ api[c] \in Object /\ api[c] \in Copies(c) /\ cached' = cached
          /\ api' = [api EXCEPT ![c] = IF @.fin THEN [@ EXCEPT !.deleting = TRUE] ELSE None]
      BY <1>1, <2>2 DEF DeleteAlbConfig, Shapes, Copies
    <3>2. /\ \A d \in AlbConfig \ {c} : api'[d] = api[d]
          /\ api'[c] = None \/ api'[c] = [api[c] EXCEPT !.deleting = TRUE]
      BY <1>1, <3>1 DEF Shapes
    <3>3. api'[c] # None => api'[c].spec = api[c].spec
      BY <3>1, <3>2 DEF Object
    <3>4. {cached[c], pass[c].obj} \ {None} \subseteq Copies(c)
      BY DEF Copies
    <3> QED
      BY <3>1, <3>2, <3>3, <3>4
  <2>3. CASE CacheSync(c)
    <3>1. cached' = [cached EXCEPT ![c] = api[c]] /\ api' = api
      BY <2>3 DEF CacheSync
    <3>2. cached'[c] = api[c] /\ \A d \in AlbConfig \ {c} : cached'[d] = cached[d]
      BY <1>1, <3>1 DEF Shapes
    <3> QED
      BY <3>1, <3>2 DEF Copies
  <2> QED
    BY <2>1, <2>2, <2>3
<1> QED
  BY <1>1, <1>2, <1>3, <1>4, UserMove DEF UserFits

\* The start of a pass: the ALB is the user's if the AlbConfig names one.
LEMMA StartUser ==
  ASSUME GuardInv, UserInv, NEW c \in AlbConfig, Reconcile(c) \/ AddFinalizers(c) \/ Conflict(c)
  PROVE  UserInv'
<1>1. Shapes /\ UserFits(c) /\ PassRecord(pass[c]) /\ CopiesFit(c)
  BY DEF GuardInv, UserInv, Shapes
<1>2. CASE Reconcile(c)
  <2> DEFINE o == cached[c]
             q == [Resting EXCEPT !.pc = IF o.deleting THEN "apply" ELSE "finalizer",
                                  !.obj = o, !.reuse = (o.spec.id # None), !.clean = o.deleting]
  <2>1. UNCHANGED <<api, cached, lb>>
    BY <1>2 DEF Reconcile
  <2>2. CASE Go(c, Resting)
    BY <1>1, <2>1, <2>2, UserEnd
  <2>3. CASE Go(c, q)
    <3>1. q.pc \in {"apply", "finalizer"} /\ q.obj = o /\ q.reuse = (o.spec.id # None)
      BY DEF Resting
    <3> HIDE DEF q
    <3>2. \A r \in {api'[c], cached'[c], q.obj} \ {None} : r \in Copies(c)
      BY <2>1, <3>1 DEF Copies
    <3> QED
      BY <1>1, <2>1, <2>3, <3>1, <3>2, UserMove
  <2> QED
    BY <1>2, <2>2, <2>3 DEF Reconcile
<1>3. CASE AddFinalizers(c)
  <2> DEFINE o == cached[c]
             q == [pass[c] EXCEPT !.pc = "apply", !.obj = [o EXCEPT !.fin = TRUE]]
  <2>1. /\ pass[c].pc = "finalizer" /\ o # None /\ (o.fin \/ o = api[c])
        /\ api' = IF o.fin THEN api ELSE [api EXCEPT ![c].fin = TRUE]
        /\ Go(c, q) /\ UNCHANGED <<cached, lb>>
    BY <1>3 DEF AddFinalizers
  <2>2. o \in Object /\ o \in Copies(c) /\ pass[c].obj \in Copies(c)
    BY <1>1, <2>1 DEF Shapes, Copies, CopiesFit
  <2>3. /\ \A d \in AlbConfig \ {c} : api'[d] = api[d]
        /\ api'[c] = api[c] \/ api'[c] = [o EXCEPT !.fin = TRUE]
    BY <1>1, <2>1 DEF Shapes
  <2>4. [o EXCEPT !.fin = TRUE].spec = o.spec
    BY <2>2 DEF Object
  <2>5. /\ q.pc = "apply" /\ q.obj = [o EXCEPT !.fin = TRUE] /\ q.reuse = pass[c].reuse
    BY <1>1 DEF PassRecord
  <2>6. o.spec.id = pass[c].obj.spec.id
    BY <1>1, <2>2 DEF UserFits
  <2>7. pass[c].reuse = (pass[c].obj.spec.id # None)
    BY <1>1, <2>1 DEF UserFits
  <2> HIDE DEF q
  <2>8. ASSUME NEW r \in {api'[c], cached'[c], q.obj} \ {None}
        PROVE  \E k \in Copies(c) : r.spec.id = k.spec.id
    <3>1. r \in Copies(c) \/ r = [o EXCEPT !.fin = TRUE]
      BY <2>1, <2>3, <2>5 DEF Copies
    <3> QED
      BY <2>2, <2>4, <3>1
  <2>9. q.reuse = (q.obj.spec.id # None)
    BY <2>4, <2>5, <2>6, <2>7
  <2> QED
    BY <1>1, <2>1, <2>3, <2>5, <2>8, <2>9, UserMove
<1>4. CASE Conflict(c)
  BY <1>1, <1>4, UserEnd DEF Conflict, Fail
<1> QED
  BY <1>2, <1>3, <1>4

\* The calls for an ALB of the user set nothing but tags unless the AlbConfig
\* asked for the override, and never delete it.
LEMMA ApplyUser ==
  ASSUME GuardInv, UserInv, NEW c \in AlbConfig, Apply(c) \/ ApplyRefused(c)
  PROVE  UserInv'
<1> DEFINE p == pass[c]
           s == BuildSpec(c, p.obj.spec)
<1>1. Shapes /\ CopiesFit(c) /\ UserFits(c) /\ PassRecord(p)
  BY DEF GuardInv, UserInv, Shapes
<1>2. UNCHANGED <<api, cached, lb>> /\ p.pc = "apply"
  BY DEF Apply, ApplyRefused
<1>3. p.obj \in Object /\ p.obj \in Copies(c) /\ p.reuse = (p.obj.spec.id # None)
  BY <1>1, <1>2 DEF CopiesFit, PassRecord, Copies, UserFits
<1>4. s.id = p.obj.spec.id /\ s.force = p.obj.spec.force
  BY <1>3, BuiltSpec DEF Object
<1>5. ASSUME NEW l, NEW q, Go(c, [p EXCEPT !.pc = "calls", !.lb = l, !.calls = q]),
             l \in UserLB => /\ p.reuse /\ p.obj.spec.id = l
                             /\ \A x \in CallsOf(q) : UserCall(p, x)
      PROVE  UserInv'
  <2> DEFINE r == [p EXCEPT !.pc = "calls", !.lb = l, !.calls = q]
  <2>1. r.pc = "calls" /\ r.lb = l /\ r.calls = q /\ r.obj = p.obj /\ r.reuse = p.reuse
    BY <1>1 DEF PassRecord
  <2> HIDE DEF r, p
  <2>2. \A o \in {api'[c], cached'[c], r.obj} \ {None} : o \in Copies(c)
    BY <1>2, <1>3, <2>1 DEF Copies
  <2>3. \A x \in CallsOf(q) : UserCall(p, x) => UserCall(r, x)
    BY <2>1 DEF UserCall
  <2>4. Go(c, r)
    BY <1>5 DEF r
  <2> QED
    BY <1>1, <1>2, <1>3, <1>5, <2>1, <2>2, <2>3, <2>4, UserMove
<1>6. ASSUME NEW l \in Listed(c), l \in UserLB PROVE p.reuse /\ p.obj.spec.id = l
  <2>1. lb[l].tag = c
    BY <1>6 DEF Listed
  <2>2. p.obj.spec.id = l
    BY <1>1, <1>3, <1>6, <2>1 DEF UserFits
  <2> QED
    BY <1>3, <1>6, <2>2, AlbAssumption
<1>7. \A x : x \notin CallsOf(<<>>)
  BY DEF CallsOf
<1>8. CASE ApplyRefused(c)
  BY <1>1, <1>2, <1>8, UserEnd DEF ApplyRefused, Fail
<1>9. ASSUME NEW l \in Listed(c), p.obj.deleting,
             Go(c, [p EXCEPT !.pc = "calls", !.lb = l, !.calls = ReleaseCalls(p, lb[l])])
      PROVE  UserInv'
  <2>1. \A x \in CallsOf(UnReuseCalls(lb[l])) : x = Untag
    BY DEF CallsOf, UnReuseCalls, When, Untag
  <2>2. UserCall(p, Untag)
    BY DEF UserCall, Untag
  <2>3. l \in UserLB => ReleaseCalls(p, lb[l]) = UnReuseCalls(lb[l])
    BY <1>6 DEF ReleaseCalls
  <2> HIDE DEF p
  <2> QED
    BY <1>5, <1>6, <1>9, <2>1, <2>2, <2>3
<1>10. ASSUME Go(c, [p EXCEPT !.pc = "calls", !.lb = None, !.calls = <<>>])
       PROVE  UserInv'
  <2>1. None \notin UserLB
    BY AlbAssumption
  <2> HIDE DEF p
  <2> QED
    BY <1>5, <1>10, <2>1
<1>11. ASSUME NEW l \in Listed(c),
              Go(c, [p EXCEPT !.pc = "calls", !.lb = l,
                              !.calls = IF CommonReuse(p) THEN <<>> ELSE UpdateALB(s, lb[l])])
       PROVE  UserInv'
  <2> DEFINE q == IF CommonReuse(p) THEN <<>> ELSE UpdateALB(s, lb[l])
  <2>1. ASSUME l \in UserLB, NEW x \in CallsOf(q) PROVE UserCall(p, x)
    <3>1. ~CommonReuse(p) /\ q = UpdateALB(s, lb[l])
      BY <1>7, <2>1
    <3>2. p.obj.spec.force
      BY <1>6, <2>1, <3>1 DEF CommonReuse
    <3>3. CallsOf(q) \subseteq SettingCalls(s, lb[l])
      BY <3>1, UpdateALBSeq, CallsOfSeq
    <3>4. "state" \notin DOMAIN x
      BY <2>1, <3>3, SettingCallsFit
    <3> QED
      BY <3>2, <3>4 DEF UserCall
  <2>2. Go(c, [p EXCEPT !.pc = "calls", !.lb = l, !.calls = q])
    BY <1>11
  <2> HIDE DEF p, s, q
  <2> QED
    BY <1>5, <1>6, <2>1, <2>2
<1>12. ASSUME p.reuse, s.id # None,
              Go(c, [p EXCEPT !.pc = "calls", !.lb = s.id, !.calls = ReuseCalls(c, s, lb[s.id])])
       PROVE  UserInv'
  <2>1. \A x \in CallsOf(ReuseCalls(c, s, lb[s.id])) : UserCall(p, x)
    BY <1>4, ReuseCallsFit DEF UserCall
  <2> HIDE DEF p, s
  <2> QED
    BY <1>4, <1>5, <1>12, <2>1
<1>13. ASSUME Go(c, [p EXCEPT !.pc = "create"]) PROVE UserInv'
  <2> DEFINE r == [p EXCEPT !.pc = "create"]
  <2>1. r.pc = "create" /\ r.obj = p.obj /\ r.reuse = p.reuse
    BY <1>1 DEF PassRecord
  <2> HIDE DEF r, p
  <2>2. \A o \in {api'[c], cached'[c], r.obj} \ {None} : o \in Copies(c)
    BY <1>2, <1>3, <2>1 DEF Copies
  <2>3. Go(c, r)
    BY <1>13 DEF r
  <2> QED
    BY <1>1, <1>2, <1>3, <2>1, <2>2, <2>3, UserMove
<1> QED
  BY <1>8, <1>9, <1>10, <1>11, <1>12, <1>13 DEF Apply

\* A new ALB is none of the user's.
LEMMA CreateUser ==
  ASSUME GuardInv, UserInv, NEW c \in AlbConfig, NEW l \in Unused, NEW s,
         lb' = [lb EXCEPT ![l] = Created(c, s)]
  PROVE  /\ l \notin UserLB /\ \A k \in UserLB : lb'[k] = lb[k]
<1>1. l \notin UserLB
  BY DEF UserInv, UserALBKept, Unused
<1>2. \A k \in UserLB : k \in LB
  BY AlbAssumption
<1> QED
  BY <1>1, <1>2 DEF GuardInv, Shapes

\* A step that moves the pass on while the user's ALBs stay as they are.
LEMMA UserKept ==
  ASSUME UserInv, Shapes, NEW c \in AlbConfig, NEW q, Go(c, q), UNCHANGED <<api, cached>>,
         \A k \in UserLB : lb'[k] = lb[k],
         q.obj \in {pass[c].obj, None},
         q.pc # "idle" => q.reuse = (q.obj.spec.id # None),
         q.pc = "wait" => q.lb \notin UserLB,
         q.pc = "calls" /\ q.lb \in UserLB =>
           /\ q.reuse /\ q.obj.spec.id = q.lb
           /\ \A x \in CallsOf(q.calls) : UserCall(q, x)
  PROVE  UserInv'
<1>1. pass'[c] = q /\ \A d \in AlbConfig \ {c} : pass'[d] = pass[d]
  BY DEF Go, Shapes
<1>2. Copies(c)' \subseteq Copies(c)
  BY <1>1 DEF Copies
<1>3. UserFits(c)
  BY DEF UserInv
<1>4. /\ \A o, r \in Copies(c)' : o.spec.id = r.spec.id
      /\ \A l \in UserLB : lb'[l].tag = c => \A o \in Copies(c)' : o.spec.id = l
  BY <1>2, <1>3, CopyStep
<1>5. \A x : UserCall(pass[c], x)' <=> UserCall(q, x)
  BY <1>1 DEF UserCall
<1>6. UserFits(c)'
  BY <1>1, <1>4, <1>5 DEF UserFits
<1> QED
  BY <1>1, <1>6, UserStep DEF UserInv, UserALBKept

\* The creation of a load balancer leaves the user's alone.
LEMMA MakeUser ==
  ASSUME GuardInv, UserInv, NEW c \in AlbConfig, CreateLoadBalancer(c) \/ WaitActive(c)
  PROVE  UserInv'
<1> DEFINE p == pass[c]
<1>1. Shapes /\ CopiesFit(c) /\ UserFits(c) /\ PassRecord(p)
  BY DEF GuardInv, UserInv, Shapes
<1>2. CASE CreateLoadBalancer(c)
  <2>1. PICK l \in Unused : /\ lb' = [lb EXCEPT ![l] = Created(c, BuildSpec(c, pass[c].obj.spec))]
                            /\ Go(c, [pass[c] EXCEPT !.pc = "wait", !.lb = l])
    BY <1>2 DEF CreateLoadBalancer
  <2> DEFINE q == [p EXCEPT !.pc = "wait", !.lb = l]
  <2>2. p.pc = "create" /\ UNCHANGED <<api, cached>>
    BY <1>2 DEF CreateLoadBalancer
  <2>3. q.pc = "wait" /\ q.lb = l /\ q.obj = p.obj /\ q.reuse = p.reuse
    BY <1>1 DEF PassRecord
  <2>4. l \notin UserLB /\ \A k \in UserLB : lb'[k] = lb[k]
    BY <2>1, CreateUser
  <2>5. Go(c, q) /\ p.reuse = (p.obj.spec.id # None)
    BY <1>1, <2>1, <2>2 DEF UserFits
  <2> HIDE DEF q
  <2> QED
    BY <1>1, <2>2, <2>3, <2>4, <2>5, UserKept
<1>3. CASE WaitActive(c)
  <2> DEFINE k == CreateCalls(c, BuildSpec(c, p.obj.spec), lb[p.lb])
             q == [p EXCEPT !.pc = "calls", !.calls = k]
  <2>1. UNCHANGED <<api, cached, lb>> /\ p.pc = "wait" /\ Go(c, q)
    BY <1>3 DEF WaitActive
  <2> HIDE DEF k
  <2>2. q.pc = "calls" /\ q.lb = p.lb /\ q.obj = p.obj /\ q.reuse = p.reuse
    BY <1>1 DEF PassRecord
  <2>3. p.lb \notin UserLB /\ p.reuse = (p.obj.spec.id # None)
    BY <1>1, <2>1 DEF UserFits
  <2> HIDE DEF q
  <2> QED
    BY <1>1, <2>1, <2>2, <2>3, UserKept
<1> QED
  BY <1>2, <1>3

\* What the next call of a pass makes of an ALB of the user.
LEMMA CallOfUser ==
  ASSUME GuardInv, UserInv, NEW c \in AlbConfig, pass[c].pc = "calls", pass[c].calls # <<>>,
         lb' = [lb EXCEPT ![pass[c].lb] = Done(Head(pass[c].calls), @)]
  PROVE  /\ UserALBKept'
         /\ \A l \in UserLB \ {pass[c].lb} : lb'[l] = lb[l]
         /\ \A d \in AlbConfig \ {c} : \A l \in UserLB : lb'[l].tag = d => lb[l].tag = d
         /\ \A l \in UserLB : lb'[l].tag = c =>
              lb[l].tag = c \/ \A o \in Copies(c) : o.spec.id = l
         /\ pass[c].lb \in UserLB =>
              /\ pass[c].obj.spec.id = pass[c].lb
              /\ pass[c].obj.spec.force \/ Settings(lb'[pass[c].lb]) = Settings(lb[pass[c].lb])
<1> DEFINE p == pass[c]
           m == p.lb
           x == Head(p.calls)
<1>1. Shapes /\ CopiesFit(c) /\ UserFits(c) /\ CallsFit(c) /\ UserLB \subseteq LB
  BY AlbAssumption DEF GuardInv, UserInv, ListingFits
<1>2. m \in LB /\ x \in CallsOf(p.calls) /\ CallFits(c, x)
  BY <1>1, HeadTail DEF CallsFit
<1>3. lb'[m] = Done(x, lb[m]) /\ \A k \in LB \ {m} : lb'[k] = lb[k]
  BY <1>1, <1>2 DEF Shapes
<1>4. ASSUME m \in UserLB
      PROVE  UserCall(p, x) /\ p.obj.spec.id = m /\ \A o \in Copies(c) : o.spec.id = m
  <2>1. UserCall(p, x) /\ p.obj.spec.id = m
    BY <1>1, <1>2, <1>4 DEF UserFits
  <2>2. p.obj \in Copies(c)
    BY <1>1 DEF CopiesFit, Copies
  <2> QED
    BY <1>1, <2>1, <2>2 DEF UserFits
<1> HIDE DEF x, m
<1>5. /\ DOMAIN lb[m] = DOMAIN Free /\ "tag" \in DOMAIN Free /\ "state" \in DOMAIN Free
      /\ "refused" \notin DOMAIN Free
  BY <1>1, <1>2 DEF Shapes, ALBRecord, Free
<1>6. lb'[m] = [f \in DOMAIN Free |-> IF f \in DOMAIN x THEN x[f] ELSE lb[m][f]]
  BY <1>3, <1>5 DEF Done
<1>7. m \in UserLB => lb'[m].state = lb[m].state
  BY <1>4, <1>5, <1>6 DEF UserCall
<1>8. UserALBKept'
  BY <1>1, <1>3, <1>7 DEF UserInv, UserALBKept
<1>9. lb'[m].tag \in {lb[m].tag, c, None}
  BY <1>2, <1>5, <1>6 DEF CallFits
<1>10. ASSUME NEW d \in AlbConfig \ {c}, NEW l \in UserLB, lb'[l].tag = d PROVE lb[l].tag = d
  BY <1>1, <1>3, <1>9, <1>10, AlbAssumption
<1>11. \A l \in UserLB : lb'[l].tag = c => lb[l].tag = c \/ \A o \in Copies(c) : o.spec.id = l
  BY <1>1, <1>3, <1>4
<1>12. ASSUME m \in UserLB, ~p.obj.spec.force PROVE Settings(lb'[m]) = Settings(lb[m])
  <2>1. DOMAIN x \subseteq {"tag", "custom", "refused"}
    BY <1>4, <1>12 DEF UserCall
  <2>2. DOMAIN lb'[m] = DOMAIN Free
    BY <1>6
  <2>3. \A f \in DOMAIN Free \ {"tag", "custom"} : lb'[m][f] = lb[m][f]
    BY <1>5, <1>6, <2>1
  <2> QED
    BY <1>5, <2>2, <2>3 DEF Settings
<1>13. \A l \in UserLB \ {m} : lb'[l] = lb[l]
  BY <1>1, <1>3
<1> QED
  BY <1>4, <1>8, <1>10, <1>11, <1>12, <1>13 DEF m

\* After a call that was carried out the pass goes on with the others, or ends.
LEMMA CalledUser ==
  ASSUME GuardInv, UserInv, NEW c \in AlbConfig, pass[c].pc = "calls", pass[c].calls # <<>>,
         lb' = [lb EXCEPT ![pass[c].lb] = Done(Head(pass[c].calls), @)],
         UNCHANGED <<api, cached>>, NEW q, Go(c, q),
         q = Resting \/ /\ q.pc = "calls" /\ q.lb = pass[c].lb /\ q.obj = pass[c].obj
                        /\ q.reuse = pass[c].reuse
                        /\ pass[c].lb \in UserLB => CallsOf(q.calls) \subseteq CallsOf(pass[c].calls)
  PROVE  UserInv'
<1>1. Shapes /\ UserFits(c)
  BY DEF GuardInv, UserInv
<1>2. /\ UserALBKept'
      /\ \A d \in AlbConfig \ {c} : \A l \in UserLB : lb'[l].tag = d => lb[l].tag = d
      /\ \A l \in UserLB : lb'[l].tag = c =>
           lb[l].tag = c \/ \A o \in Copies(c) : o.spec.id = l
  BY CallOfUser
<1>3. pass'[c] = q /\ \A d \in AlbConfig \ {c} : pass'[d] = pass[d]
  BY <1>1 DEF Go, Shapes
<1>4. q.obj \in {pass[c].obj, None}
  BY DEF Resting
<1>5. Copies(c)' \subseteq Copies(c)
  BY <1>3, <1>4 DEF Copies
<1>6. /\ \A o, r \in Copies(c)' : o.spec.id = r.spec.id
      /\ \A l \in UserLB : lb'[l].tag = c => \A o \in Copies(c)' : o.spec.id = l
  BY <1>1, <1>2, <1>5, CopyStep
<1>7. UserFits(c)'
  <2>1. CASE q = Resting
    <3>1. pass'[c].pc = "idle"
      BY <1>3, <2>1 DEF Resting
    <3> QED
      BY <1>6, <3>1 DEF UserFits
  <2>2. CASE q # Resting
    <3>1. \A x : UserCall(pass[c], x)' <=> UserCall(pass[c], x)
      BY <1>3, <2>2 DEF UserCall
    <3> QED
      BY <1>1, <1>3, <1>6, <2>2, <3>1 DEF UserFits
  <2> QED
    BY <2>1, <2>2
<1> QED
  BY <1>2, <1>3, <1>7, UserStep

\* A call that failed is rolled back only for an ALB of the controller.
LEMMA ErrorUser ==
  ASSUME GuardInv, UserInv, NEW c \in AlbConfig, pass[c].pc = "calls", pass[c].calls # <<>>,
         CallError(c), UNCHANGED <<api, cached>>,
         \/ lb' = lb
         \/ lb' = [lb EXCEPT ![pass[c].lb] = Done(Head(pass[c].calls), @)]
  PROVE  UserInv'
<1> DEFINE p == pass[c]
           q == [p EXCEPT !.calls = DeleteCalls(lb[p.lb]), !.doomed = TRUE]
<1>1. Shapes /\ UserFits(c) /\ PassRecord(p)
  BY DEF GuardInv, UserInv, Shapes
<1>2. CASE Go(c, Resting)
  BY <1>1, <1>2, UserEnd, CalledUser
<1>3. CASE Tagging(p) /\ Go(c, q)
  <2>1. p.lb \notin UserLB /\ p.reuse = (p.obj.spec.id # None)
    BY <1>1, <1>3 DEF Tagging, UserFits
  <2>2. q.pc = "calls" /\ q.lb = p.lb /\ q.obj = p.obj /\ q.reuse = p.reuse
    BY <1>1 DEF PassRecord
  <2> HIDE DEF q
  <2>3. CASE lb' = lb
    BY <1>1, <1>3, <2>1, <2>2, <2>3, UserKept
  <2>4. CASE lb' = [lb EXCEPT ![p.lb] = Done(Head(p.calls), @)]
    BY <1>3, <2>1, <2>2, <2>4, CalledUser
  <2> QED
    BY <2>3, <2>4
<1> QED
  BY <1>2, <1>3 DEF CallError, Fail

\* No call of a pass ends a load balancer of the user's.
LEMMA CallUser ==
  ASSUME GuardInv, UserInv, NEW c \in AlbConfig, Call(c)
  PROVE  UserInv'
<1> DEFINE p == pass[c]
           q == [p EXCEPT !.calls = Tail(@)]
<1>1. Shapes /\ PassRecord(p) /\ p.pc = "calls" /\ p.calls # <<>> /\ CallsFit(c)
  BY DEF GuardInv, Shapes, Call, ListingFits
<1>2. lb' = [lb EXCEPT ![p.lb] = Done(Head(p.calls), @)] /\ Go(c, q) /\ UNCHANGED <<api, cached>>
  BY DEF Call
<1>3. /\ q.pc = "calls" /\ q.lb = p.lb /\ q.obj = p.obj /\ q.reuse = p.reuse
      /\ q.calls = Tail(p.calls)
  BY <1>1 DEF PassRecord
<1>4. CallsOf(Tail(p.calls)) \subseteq CallsOf(p.calls)
  BY <1>1, HeadTail DEF CallsFit
<1> HIDE DEF q
<1> QED
  BY <1>1, <1>2, <1>3, <1>4, CalledUser

\* Nor does a refused or failed one.
LEMMA RefusedUser ==
  ASSUME GuardInv, UserInv, NEW c \in AlbConfig, Refused(c) \/ CallFails(c)
  PROVE  UserInv'
<1>1. UNCHANGED <<api, cached, lb>> /\ Shapes
  BY DEF Refused, CallFails, GuardInv
<1>2. CASE pass[c].pc = "calls" /\ pass[c].calls # <<>> /\ CallError(c)
  BY <1>1, <1>2, ErrorUser
<1>3. CASE Fail(c)
  BY <1>1, <1>3, UserEnd DEF Fail
<1> QED
  BY <1>2, <1>3 DEF Refused, CallFails

\* Nor does one whose answer is lost.
LEMMA LostUser ==
  ASSUME GuardInv, UserInv, NEW c \in AlbConfig, CallLost(c)
  PROVE  UserInv'
<1> DEFINE p == pass[c]
<1>1. UNCHANGED <<api, cached>> /\ Shapes
  BY DEF CallLost, GuardInv
<1>2. CASE /\ p.pc = "calls" /\ p.calls # <<>>
           /\ lb' = [lb EXCEPT ![p.lb] = Done(Head(p.calls), @)]
           /\ CallError(c)
  BY <1>1, <1>2, ErrorUser
<1>3. ASSUME NEW l \in Unused, lb' = [lb EXCEPT ![l] = Created(c, BuildSpec(c, p.obj.spec))], Fail(c)
      PROVE  UserInv'
  <2>1. \A k \in UserLB : lb'[k] = lb[k]
    BY <1>3, CreateUser
  <2>2. Resting.pc = "idle" /\ Resting.obj = None /\ Go(c, Resting)
    BY <1>3 DEF Resting, Fail
  <2> QED
    BY <1>1, <2>1, <2>2, UserKept
<1> QED
  BY <1>2, <1>3 DEF CallLost

\* The end of a pass leaves the ALBs and the spec alone.
LEMMA FinishUser ==
  ASSUME GuardInv, UserInv, NEW c \in AlbConfig,
         Applied(c) \/ Panics(c) \/ UpdateStatus(c) \/ AddLabel(c) \/ RemoveFinalizers(c)
  PROVE  UserInv'
<1> DEFINE p == pass[c]
<1>1. Shapes /\ CopiesFit(c) /\ UserFits(c) /\ PassRecord(p)
  BY DEF GuardInv, UserInv, Shapes
<1>2. lb' = lb /\ cached' = cached
  BY DEF Applied, Panics, UpdateStatus, AddLabel, RemoveFinalizers
<1>3. Resting.pc = "idle" /\ Resting.obj = None
  BY DEF Resting
<1>4. CASE Applied(c)
  <2> DEFINE q == [p EXCEPT !.pc = IF p.clean THEN "unfinalize" ELSE "status"]
  <2>1. /\ p.pc = "calls" /\ UNCHANGED <<api, cached, lb>>
        /\ Go(c, Resting) \/ Go(c, q)
    BY <1>4 DEF Applied, Fail
  <2>2. CASE Go(c, q)
    <3>1. q.pc \in {"unfinalize", "status"} /\ q.obj = p.obj /\ q.reuse = p.reuse
      BY <1>1 DEF PassRecord
    <3>2. p.reuse = (p.obj.spec.id # None)
      BY <1>1, <2>1 DEF UserFits
    <3> HIDE DEF q
    <3> QED
      BY <1>1, <2>1, <2>2, <3>1, <3>2, UserKept
  <2> QED
    BY <1>1, <2>1, <2>2, UserEnd
<1>5. CASE Panics(c)
  BY <1>1, <1>5, UserEnd DEF Panics
<1>6. CASE UpdateStatus(c)
  <2> DEFINE q == [p EXCEPT !.pc = "label", !.obj.status = p.lb]
             o == [api[c] EXCEPT !.status = p.lb]
  <2>1. /\ p.pc = "status" /\ p.obj = api[c] /\ api' = [api EXCEPT ![c].status = p.lb] /\ Go(c, q)
    BY <1>6 DEF UpdateStatus
  <2>2. api[c] \in Object /\ api[c] \in Copies(c) /\ p.reuse = (api[c].spec.id # None)
    BY <1>1, <2>1 DEF CopiesFit, Shapes, Copies, UserFits
  <2>3. o.spec = api[c].spec
    BY <2>2 DEF Object
  <2>4. api'[c] = o /\ \A d \in AlbConfig \ {c} : api'[d] = api[d]
    BY <1>1, <2>1 DEF Shapes
  <2>5. q.pc = "label" /\ q.obj = o /\ q.reuse = p.reuse
    BY <1>1, <2>1 DEF PassRecord
  <2> HIDE DEF q, o
  <2>6. ASSUME NEW r \in {api'[c], cached'[c], q.obj} \ {None}
        PROVE  \E k \in Copies(c) : r.spec.id = k.spec.id
    <3>1. r = o \/ r \in Copies(c)
      BY <1>2, <2>4, <2>5 DEF Copies
    <3> QED
      BY <2>2, <2>3, <3>1
  <2> QED
    BY <1>1, <1>2, <2>1, <2>2, <2>3, <2>4, <2>5, <2>6, UserMove
<1>7. CASE AddLabel(c)
  <2> DEFINE o == [api[c] EXCEPT !.label = Hash(p.obj)]
  <2>1. /\ api[c] # None /\ api' = [api EXCEPT ![c].label = Hash(p.obj)] /\ Go(c, Resting)
    BY <1>7 DEF AddLabel
  <2>2. api[c] \in Object /\ api[c] \in Copies(c)
    BY <1>1, <2>1 DEF Shapes, Copies
  <2>3. o.spec = api[c].spec
    BY <2>2 DEF Object
  <2>4. api'[c] = o /\ \A d \in AlbConfig \ {c} : api'[d] = api[d]
    BY <1>1, <2>1 DEF Shapes
  <2> HIDE DEF o
  <2>5. ASSUME NEW r \in {api'[c], cached'[c], Resting.obj} \ {None}
        PROVE  \E k \in Copies(c) : r.spec.id = k.spec.id
    <3>1. r = o \/ r \in Copies(c)
      BY <1>2, <1>3, <2>4 DEF Copies
    <3> QED
      BY <2>2, <2>3, <3>1
  <2> QED
    BY <1>1, <1>2, <1>3, <2>1, <2>4, <2>5, UserMove
<1>8. CASE RemoveFinalizers(c)
  <2>1. api' = [api EXCEPT ![c] = None] /\ Go(c, Resting)
    BY <1>8 DEF RemoveFinalizers
  <2>2. api'[c] = None /\ \A d \in AlbConfig \ {c} : api'[d] = api[d]
    BY <1>1, <2>1 DEF Shapes
  <2>3. \A r \in {api'[c], cached'[c], Resting.obj} \ {None} : r \in Copies(c)
    BY <1>2, <1>3, <2>2 DEF Copies
  <2> QED
    BY <1>1, <1>2, <1>3, <2>1, <2>2, <2>3, UserMove
<1> QED
  BY <1>4, <1>5, <1>6, <1>7, <1>8

\* Nor does a pass that ends for want of a DNS name.
LEMMA UnnamedUser ==
  ASSUME GuardInv, UserInv, NEW c \in AlbConfig, NoDNSName(c)
  PROVE  UserInv'
<1> DEFINE q == [Resting EXCEPT !.unnamed = TRUE]
<1>1. Go(c, q) /\ UNCHANGED <<api, cached, lb>> /\ Shapes
  BY DEF NoDNSName, GuardInv
<1>2. q.pc = "idle" /\ q.obj = None
  BY DEF Resting
<1> HIDE DEF q
<1>3. \A o \in {api'[c], cached'[c], q.obj} \ {None} : o \in Copies(c)
  BY <1>1, <1>2 DEF Copies
<1> QED
  BY <1>1, <1>2, <1>3, UserMove

\* Nor does a restart; a deletion on the console is the user's own.
LEMMA WorldUser ==
  ASSUME GuardInv, UserInv, Restart \/ (\E l \in LB : ConsoleDelete(l)) \/ UNCHANGED vars
  PROVE  UserInv'
<1>1. CASE Restart
  <2>1. pass' = [c \in AlbConfig |-> Resting] /\ cached' = api /\ UNCHANGED <<api, lb>>
    BY <1>1 DEF Restart
  <2>2. ASSUME NEW c \in AlbConfig PROVE UserFits(c)'
    <3>1. pass'[c].pc = "idle" /\ pass'[c].obj = None
      BY <2>1 DEF Resting
    <3>2. Copies(c)' \subseteq Copies(c)
      BY <2>1, <3>1 DEF Copies
    <3>3. UserFits(c)
      BY DEF UserInv
    <3>4. /\ \A o, r \in Copies(c)' : o.spec.id = r.spec.id
          /\ \A l \in UserLB : lb'[l].tag = c => \A o \in Copies(c)' : o.spec.id = l
      BY <2>1, <3>2, <3>3, CopyStep
    <3> QED
      BY <3>1, <3>4 DEF UserFits
  <2> QED
    BY <2>1, <2>2 DEF UserInv, UserALBKept
<1>2. ASSUME UNCHANGED <<api, cached, pass>>, \A l \in UserLB : lb'[l] = lb[l]
      PROVE  UserInv'
  <2>1. ASSUME NEW c \in AlbConfig PROVE UserFits(c)'
    <3>1. UserFits(c) /\ Copies(c)' = Copies(c) /\ \A x : UserCall(pass[c], x)' <=> UserCall(pass[c], x)
      BY <1>2 DEF UserInv, Copies, UserCall
    <3> QED
      BY <1>2, <3>1 DEF UserFits
  <2> QED
    BY <1>2, <2>1 DEF UserInv, UserALBKept
<1>3. ASSUME NEW l \in LB, ConsoleDelete(l) PROVE UserInv'
  <2>1. /\ l \notin UserLB /\ lb' = [lb EXCEPT ![l].state = "gone"]
        /\ UNCHANGED <<api, cached, pass>>
    BY <1>3 DEF ConsoleDelete
  <2>2. \A k \in UserLB : lb'[k] = lb[k]
    BY <2>1, AlbAssumption DEF GuardInv, Shapes
  <2> QED
    BY <1>2, <2>1, <2>2
<1>4. CASE UNCHANGED vars
  BY <1>2, <1>4 DEF vars
<1> QED
  BY <1>1, <1>3, <1>4

\* Every step keeps what is known of the user's load balancers.
LEMMA UserNext ==
  ASSUME IdsKept
  PROVE  GuardInv /\ UserInv /\ [Next]_vars => UserInv'
<1> SUFFICES ASSUME GuardInv, UserInv, [Next]_vars PROVE UserInv'
  OBVIOUS
<1>1. ASSUME NEW c \in AlbConfig, Work(c) PROVE UserInv'
  BY <1>1, StartUser, ApplyUser, MakeUser, CallUser, RefusedUser, FinishUser DEF Work
<1>2. ASSUME NEW c \in AlbConfig,
             \/ EditSpec(c) \/ DeleteAlbConfig(c) \/ CacheSync(c)
             \/ CallFails(c) \/ CallLost(c) \/ NoDNSName(c)
      PROVE  UserInv'
  BY <1>2, ClusterUser, RefusedUser, LostUser, UnnamedUser
<1> QED
  BY <1>1, <1>2, WorldUser DEF Next

\* Both invariants always hold.
LEMMA UserInvariance ==
  ASSUME IdsKept
  PROVE  Spec => [](GuardInv /\ UserInv)
<1>1. GuardInv /\ UserInv /\ [Next]_vars => UserInv'
  BY UserNext
<1> QED
  BY <1>1, UserInit, GuardInit, GuardNext, PTL DEF Spec

(***************************************************************************)
(* As long as edits leave the ALB alone that an AlbConfig names, the       *)
(* controller never deletes an ALB the user brought along: not when the    *)
(* AlbConfig is deleted, not when a call fails and is rolled back, and not *)
(* after a restart between any two calls.                                  *)
(***************************************************************************)
THEOREM UserALBSafe ==
  ASSUME IdsKept
  PROVE  Spec => []UserALBKept
<1>1. GuardInv /\ UserInv => UserALBKept
  BY DEF UserInv
<1> QED
  BY <1>1, UserInvariance, PTL

(***************************************************************************)
(* Nor does it change a setting of that ALB other than tags, unless the    *)
(* AlbConfig that names it asked for forceOverride.                        *)
(***************************************************************************)
THEOREM OverrideSafe ==
  ASSUME IdsKept
  PROVE  Spec => OverrideRespected
<1> DEFINE A == \A l \in UserLB : Settings(lb'[l]) # Settings(lb[l]) =>
                  \E c \in AlbConfig : /\ pass[c].lb = l
                                       /\ pass[c].obj.spec.id = l
                                       /\ pass[c].obj.spec.force
<1>1. ASSUME GuardInv, UserInv, [Next]_vars PROVE [A]_lb
  <2>1. ASSUME NEW c \in AlbConfig, Call(c) \/ CallLost(c) \/ CreateLoadBalancer(c) PROVE A
    <3>1. CASE /\ pass[c].pc = "calls" /\ pass[c].calls # <<>>
               /\ lb' = [lb EXCEPT ![pass[c].lb] = Done(Head(pass[c].calls), @)]
      <4>1. /\ \A l \in UserLB \ {pass[c].lb} : lb'[l] = lb[l]
            /\ pass[c].lb \in UserLB =>
                 /\ pass[c].obj.spec.id = pass[c].lb
                 /\ pass[c].obj.spec.force \/ Settings(lb'[pass[c].lb]) = Settings(lb[pass[c].lb])
        BY <1>1, <3>1, CallOfUser
      <4> QED
        BY <4>1
    <3>2. ASSUME NEW l \in Unused, NEW s, lb' = [lb EXCEPT ![l] = Created(c, s)] PROVE A
      BY <1>1, <3>2, CreateUser
    <3> QED
      BY <2>1, <3>1, <3>2 DEF Call, CallLost, CreateLoadBalancer
  <2>2. ASSUME NEW l \in LB, ConsoleDelete(l) PROVE A
    <3>1. l \notin UserLB /\ lb' = [lb EXCEPT ![l].state = "gone"]
      BY <2>2 DEF ConsoleDelete
    <3>2. \A k \in UserLB : lb'[k] = lb[k]
      BY <1>1, <3>1, AlbAssumption DEF GuardInv, Shapes
    <3> QED
      BY <3>2
  <2>3. \/ \E c \in AlbConfig : Call(c) \/ CallLost(c) \/ CreateLoadBalancer(c)
        \/ \E l \in LB : ConsoleDelete(l)
        \/ lb' = lb
    BY <1>1 DEF Next, Work, EditSpec, DeleteAlbConfig, CacheSync, Reconcile, AddFinalizers, Conflict,
       Apply, ApplyRefused, WaitActive, Refused, Applied, Panics, UpdateStatus, AddLabel,
       RemoveFinalizers, CallFails, NoDNSName, Restart, vars
  <2> HIDE DEF A
  <2> QED
    BY <2>1, <2>2, <2>3
<1>2. GuardInv /\ UserInv /\ [Next]_vars => [A]_lb
  BY <1>1
<1> QED
  BY <1>2, UserInvariance, PTL DEF Spec, OverrideRespected

-----------------------------------------------------------------------------
(* An ALB at rest agrees with its AlbConfig                                *)

\* What an ALB with the tags of c has, for the spec.
Agrees(c, sp, b) ==
  LET s == BuildSpec(c, sp)
      own == s.id = None
  IN  own \/ s.force =>
        /\ b.name = s.name /\ b.mod /\ b.prot /\ b.log = s.log
        /\ own => b.edition = s.edition /\ b.ipv6 \in {None, s.ipv6}
        /\ s.bw # None => b.bw = s.bw
        /\ (\E k \in Key : s.tags[k] # None) => b.custom = s.tags
        /\ s.group # None => b.group = s.group

Served(c, sp, b) == b.state = "live" /\ b.tag = c /\ Agrees(c, sp, b)

\* The fields that the calls set.
Touches(q) == UNION {DOMAIN x : x \in CallsOf(q)}

\* The last call that sets field f sets it to v.
Sets(q, f, v) ==
  \E i \in 1..Len(q) :
    /\ f \in DOMAIN q[i] /\ q[i][f] = v
    /\ \A j \in 1..Len(q) : j > i => f \notin DOMAIN q[j]

\* Once the calls q are made, field f of the ALB b is v.
WillBe(q, b, f, v) == Sets(q, f, v) \/ (f \notin Touches(q) /\ b[f] = v)

\* The calls bring the ALB in line with the spec, or one of them is refused.
Aims(c, sp, q, b) ==
  LET s == BuildSpec(c, sp)
      own == s.id = None
  IN  Refusal \notin CallsOf(q) =>
        /\ WillBe(q, b, "state", "live") /\ WillBe(q, b, "tag", c)
        /\ own \/ s.force =>
             /\ WillBe(q, b, "name", s.name) /\ WillBe(q, b, "mod", TRUE)
             /\ WillBe(q, b, "prot", TRUE) /\ WillBe(q, b, "log", s.log)
             /\ own => /\ WillBe(q, b, "edition", s.edition)
                       /\ WillBe(q, b, "ipv6", None) \/ WillBe(q, b, "ipv6", s.ipv6)
             /\ s.bw # None => WillBe(q, b, "bw", s.bw)
             /\ (\E k \in Key : s.tags[k] # None) => WillBe(q, b, "custom", s.tags)
             /\ s.group # None => WillBe(q, b, "group", s.group)

\* Every edit leads onwards: no spec comes back once it was replaced.
Onwards(R) ==
  /\ \A s \in Specs : <<s, s>> \in R
  /\ \A s, t, u \in Specs : <<s, t>> \in R /\ <<t, u>> \in R => <<s, u>> \in R
  /\ \A s, t \in Specs : <<s, t>> \in R /\ <<t, s>> \in R => s = t
  /\ \A e \in Edit : <<e[1], e[2]>> \in R

NeverBack == \E R \in SUBSET (Specs \X Specs) : Onwards(R)

Older(R, s, t) == <<s, t>> \in R

\* The copies of an AlbConfig follow each other: what the label stands for,
\* what the pass works with, what the cache has, what the API server has.  A
\* deletion that a pass sees too late has a pass of its own due.
OrderFits(R, c) ==
  LET p == pass[c]
      o == api[c]
      d == cached[c]
  IN  /\ d # None /\ d.deleting => d.fin
      /\ p.pc = "finalizer" /\ d # None /\ d.deleting => c \in queue
      /\ p.pc # "idle" /\ ~p.clean /\ p.obj.deleting => c \in queue
      /\ p.pc \in {"status", "label"} => ~p.obj.deleting
      /\ o # None =>
           /\ d # None
           /\ o.deleting => o.fin
           /\ Older(R, d.spec, o.spec)
           /\ p.pc # "idle" => Older(R, p.obj.spec, d.spec)
           /\ o.label # None =>
                /\ ~o.label[2]
                /\ Older(R, o.label[1], d.spec)
                /\ p.pc \notin {"idle", "finalizer"} => Older(R, o.label[1], p.obj.spec)

\* The last pass ended for want of a DNS name: the ALB agrees with what the API
\* server has, or it has been deleted since.
RestsUnnamed(c) ==
  /\ pass[c].pc = "idle" /\ pass[c].unnamed /\ ~api[c].deleting
  /\ GoneUnnamed(c) \/ \E l \in LB : Served(c, api[c].spec, lb[l])

\* An AlbConfig whose label is not up to date is queued, about to be, in a pass
\* that works with what the API server has, or rests without a name.
Account(c) ==
  api[c] # None /\ HashChanged(api[c]) =>
    \/ c \in queue
    \/ Hash(cached[c]) # Hash(api[c])
    \/ pass[c].pc = "finalizer"
    \/ pass[c].pc \notin {"idle", "finalizer"} /\ Hash(pass[c].obj) = Hash(api[c])
    \/ RestsUnnamed(c)

\* The ALBs of an AlbConfig: the one of the user that it names, or those made
\* for it.
Mine(c, l) ==
  IF l \in UserLB THEN api[c] # None /\ api[c].spec.id = l
                  ELSE lb[l].by = c /\ lb[l].state # "free"

OwnFits(c) ==
  LET p == pass[c]
  IN  /\ p.pc \in {"idle", "finalizer", "apply", "create"} => p.lb = None
      /\ p.lb # None => api[c] # None /\ Mine(c, p.lb)
      /\ \A l \in Listed(c) : Mine(c, l)
      /\ api[c] # None /\ api[c].status # None => Mine(c, api[c].status)

\* The calls of a pass bring its ALB in line with the spec, unless they take
\* back a new one that got no tags.  An ALB that the status names is neither
\* new nor taken back, and one whose label is up to date is left as it is.
CallsAim(c) ==
  LET p == pass[c]
      o == api[c]
  IN  /\ ~p.obj.deleting =>
           /\ p.lb \in LB
           /\ p.doomed \/ /\ Aims(c, p.obj.spec, p.calls, lb[p.lb])
                          /\ "state" \notin Touches(p.calls)
      /\ o # None /\ p.doomed => o.status # p.lb
      /\ o # None /\ ~p.reuse /\ (\E x \in CallsOf(p.calls) : "tag" \in DOMAIN x /\ x.tag # None)
           => o.status # p.lb
      /\ o # None /\ ~HashChanged(o) =>
           /\ Touches(p.calls) \subseteq {"ipv6"}
           /\ p.calls # <<>> => p.obj.spec.id # None

\* What a pass knows of its ALB.
PassFits(c) ==
  LET p == pass[c]
      o == api[c]
  IN  /\ p.pc \in {"idle", "finalizer", "apply", "create", "wait"} => ~p.doomed
      /\ p.pc \in {"create", "wait"} => ~p.reuse /\ (o # None => HashChanged(o))
      /\ p.pc = "wait" => /\ lb[p.lb] = Created(c, BuildSpec(c, p.obj.spec))
                          /\ o # None => o.status # p.lb
      /\ p.pc = "calls" => CallsAim(c)
      /\ p.pc \in {"status", "label"} => p.lb \in LB /\ Served(c, p.obj.spec, lb[p.lb])
      /\ p.pc = "label" /\ o # None => o.status = p.lb

\* What an up to date label stands for.
LabelFits(c) ==
  api[c] # None /\ ~HashChanged(api[c]) =>
    Orphaned(c) \/ (api[c].status \in LB /\ Served(c, api[c].spec, lb[api[c].status]))

\* An AlbConfig whose ALB was deleted in the console gets no other one.
OrphanFits(c) ==
  api[c] # None /\ ~api[c].deleting /\ Orphaned(c) =>
    /\ cached[c].status = api[c].status
    /\ pass[c].pc \in {"idle", "finalizer", "apply"}
    /\ pass[c].pc # "idle" => pass[c].obj.status # None
    /\ Listed(c) = {}

SyncFits(R, c) ==
  /\ OrderFits(R, c) /\ Account(c) /\ OwnFits(c)
  /\ PassFits(c) /\ LabelFits(c) /\ OrphanFits(c)

SyncInv(R) == \A c \in AlbConfig : SyncFits(R, c)

\* Two AlbConfigs that are there name different ALBs.
Unshared ==
  \A c, d \in AlbConfig :
    c # d /\ api[c] # None /\ api[d] # None /\ api[c].spec.id # None =>
      api[c].spec.id # api[d].spec.id

\* The ALBs that specs name are ALBs of the user.
UsersNamed == \A s \in Specs : s.id \in UserLB \cup {None}

-----------------------------------------------------------------------------
(* What sequences of calls come to                                         *)

Calls(q) == q \in Seq(CallsOf(q))

\* The calls of two sequences, and the fields they set.
LEMMA CatCalls ==
  ASSUME NEW q, NEW r, Calls(q), Calls(r)
  PROVE  /\ Calls(q \o r)
         /\ CallsOf(q \o r) = CallsOf(q) \cup CallsOf(r)
         /\ Touches(q \o r) = Touches(q) \cup Touches(r)
<1> DEFINE S == CallsOf(q) \cup CallsOf(r)
           t == q \o r
<1>1. q \in Seq(S) /\ r \in Seq(S)
  BY DEF Calls
<1> HIDE DEF S
<1>2. /\ Len(t) = Len(q) + Len(r) /\ Len(q) \in Nat /\ Len(r) \in Nat
      /\ \A i \in 1..Len(q) : t[i] = q[i]
      /\ \A i \in 1..Len(r) : t[Len(q) + i] = r[i]
  BY <1>1
<1>9. t \in Seq(S)
  BY <1>1
<1> HIDE DEF t
<1>3. Calls(t)
  BY <1>9, CallsOfSeq DEF Calls
<1>4. CallsOf(q) \subseteq CallsOf(t)
  BY <1>2 DEF CallsOf
<1>5. CallsOf(r) \subseteq CallsOf(t)
  <2> SUFFICES ASSUME NEW i \in 1..Len(r) PROVE r[i] \in CallsOf(t)
    BY DEF CallsOf
  <2>1. Len(q) + i \in 1..Len(t) /\ t[Len(q) + i] = r[i]
    BY <1>2
  <2> QED
    BY <2>1 DEF CallsOf
<1>6. CallsOf(t) \subseteq S
  BY <1>9, CallsOfSeq
<1>7. CallsOf(t) = CallsOf(q) \cup CallsOf(r)
  BY <1>4, <1>5, <1>6 DEF S
<1>8. Touches(t) = Touches(q) \cup Touches(r)
  BY <1>7 DEF Touches
<1> QED
  BY <1>3, <1>7, <1>8 DEF t

\* A field that only one of two sequences sets comes out as that one leaves it;
\* one that the second sets comes out as the second leaves it.
LEMMA CatWillBe ==
  ASSUME NEW q, NEW r, Calls(q), Calls(r), NEW b, NEW f, NEW v
  PROVE  /\ WillBe(q, b, f, v) /\ f \notin Touches(r) => WillBe(q \o r, b, f, v)
         /\ f \notin Touches(q) /\ WillBe(r, b, f, v) => WillBe(q \o r, b, f, v)
         /\ Sets(r, f, v) => Sets(q \o r, f, v)
<1> DEFINE S == CallsOf(q) \cup CallsOf(r)
           t == q \o r
<1>1. q \in Seq(S) /\ r \in Seq(S)
  BY DEF Calls
<1>2. Touches(t) = Touches(q) \cup Touches(r)
  BY CatCalls
<1> HIDE DEF S
<1>3. /\ Len(t) = Len(q) + Len(r) /\ Len(q) \in Nat /\ Len(r) \in Nat
      /\ \A i \in 1..Len(q) : t[i] = q[i]
      /\ \A i \in 1..Len(r) : t[Len(q) + i] = r[i]
      /\ \A i \in 1..Len(t) : i \notin 1..Len(q) => i - Len(q) \in 1..Len(r) /\ t[i] = r[i - Len(q)]
  BY <1>1
<1> HIDE DEF t
<1>4. \A i \in 1..Len(r) : f \notin Touches(r) => f \notin DOMAIN r[i]
  BY DEF Touches, CallsOf
<1>5. ASSUME Sets(q, f, v), f \notin Touches(r) PROVE Sets(t, f, v)
  <2>1. PICK i \in 1..Len(q) : /\ f \in DOMAIN q[i] /\ q[i][f] = v
                               /\ \A j \in 1..Len(q) : j > i => f \notin DOMAIN q[j]
    BY <1>5 DEF Sets
  <2>2. i \in 1..Len(t) /\ t[i] = q[i]
    BY <1>3
  <2>3. \A j \in 1..Len(t) : j > i => f \notin DOMAIN t[j]
    BY <1>3, <1>4, <1>5, <2>1
  <2> QED
    BY <2>1, <2>2, <2>3 DEF Sets
<1>6. ASSUME Sets(r, f, v) PROVE Sets(t, f, v)
  <2>1. PICK i \in 1..Len(r) : /\ f \in DOMAIN r[i] /\ r[i][f] = v
                               /\ \A j \in 1..Len(r) : j > i => f \notin DOMAIN r[j]
    BY <1>6 DEF Sets
  <2> DEFINE m == Len(q) + i
  <2>2. m \in 1..Len(t) /\ t[m] = r[i]
    BY <1>3
  <2>3. ASSUME NEW j \in 1..Len(t), j > m PROVE f \notin DOMAIN t[j]
    <3>1. j - Len(q) \in 1..Len(r) /\ t[j] = r[j - Len(q)] /\ j - Len(q) > i
      BY <1>3, <2>3
    <3> QED
      BY <2>1, <3>1
  <2> HIDE DEF m
  <2> QED
    BY <2>1, <2>2, <2>3 DEF Sets
<1> QED
  BY <1>2, <1>5, <1>6 DEF WillBe, t

\* No calls.
LEMMA NoCalls ==
  /\ Calls(<<>>) /\ CallsOf(<<>>) = {} /\ Touches(<<>>) = {}
  /\ \A f, v : ~Sets(<<>>, f, v)
  /\ \A b, f, v : WillBe(<<>>, b, f, v) <=> b[f] = v
<1>1. Len(<<>>) = 0
  OBVIOUS
<1>2. CallsOf(<<>>) = {}
  BY <1>1 DEF CallsOf
<1>3. Touches(<<>>) = {}
  BY <1>2 DEF Touches
<1>4. Calls(<<>>)
  BY <1>2 DEF Calls
<1>5. \A f, v : ~Sets(<<>>, f, v)
  BY <1>1 DEF Sets
<1> QED
  BY <1>2, <1>3, <1>4, <1>5 DEF WillBe

\* One call.
LEMMA OneCall ==
  ASSUME NEW x
  PROVE  /\ Calls(<<x>>) /\ CallsOf(<<x>>) = {x} /\ Touches(<<x>>) = DOMAIN x
         /\ \A f \in DOMAIN x : Sets(<<x>>, f, x[f])
<1>1. Len(<<x>>) = 1 /\ <<x>>[1] = x
  OBVIOUS
<1>2. CallsOf(<<x>>) = {x}
  BY <1>1 DEF CallsOf
<1>3. Touches(<<x>>) = DOMAIN x
  BY <1>2 DEF Touches
<1>4. Calls(<<x>>)
  BY <1>2 DEF Calls
<1>5. \A f \in DOMAIN x : Sets(<<x>>, f, x[f])
  BY <1>1 DEF Sets
<1> QED
  BY <1>2, <1>3, <1>4, <1>5

\* After the first call the others bring about the rest.
LEMMA TailWillBe ==
  ASSUME NEW q, Calls(q), q # <<>>, NEW b, NEW f \in DOMAIN b, NEW v, WillBe(q, b, f, v)
  PROVE  WillBe(Tail(q), Done(Head(q), b), f, v)
<1> DEFINE x == Head(q)
           r == Tail(q)
           d == Done(x, b)
<1>1. /\ Len(q) \in Nat /\ Len(q) >= 1 /\ x = q[1] /\ Len(r) = Len(q) - 1
      /\ \A i \in 1..Len(r) : r[i] = q[i + 1]
  <2>1. PICK S : q \in Seq(S)
    BY DEF Calls
  <2> QED
    BY <2>1
<1>2. d[f] = IF f \in DOMAIN x THEN x[f] ELSE b[f]
  BY DEF Done
<1> HIDE DEF x, r, d
<1>3. f \in Touches(r) => \E j \in 1..Len(q) : j > 1 /\ f \in DOMAIN q[j]
  <2> SUFFICES ASSUME NEW i \in 1..Len(r), f \in DOMAIN r[i]
               PROVE  \E j \in 1..Len(q) : j > 1 /\ f \in DOMAIN q[j]
    BY DEF Touches, CallsOf
  <2>1. i + 1 \in 1..Len(q) /\ i + 1 > 1 /\ r[i] = q[i + 1]
    BY <1>1
  <2> QED
    BY <2>1
<1>4. CASE f \notin Touches(q) /\ b[f] = v
  <2>1. \A j \in 1..Len(q) : f \notin DOMAIN q[j]
    BY <1>4 DEF Touches, CallsOf
  <2>2. f \notin Touches(r) /\ f \notin DOMAIN x
    BY <1>1, <1>3, <2>1
  <2> QED
    BY <1>2, <1>4, <2>2 DEF WillBe, x, r, d
<1>5. CASE Sets(q, f, v)
  <2>1. PICK i \in 1..Len(q) : /\ f \in DOMAIN q[i] /\ q[i][f] = v
                               /\ \A j \in 1..Len(q) : j > i => f \notin DOMAIN q[j]
    BY <1>5 DEF Sets
  <2>2. CASE i = 1
    <3>1. f \notin Touches(r)
      BY <1>3, <2>1, <2>2
    <3>2. d[f] = v
      BY <1>1, <1>2, <2>1, <2>2
    <3> QED
      BY <3>1, <3>2 DEF WillBe, x, r, d
  <2>3. CASE i # 1
    <3> DEFINE m == i - 1
    <3>1. m \in 1..Len(r) /\ r[m] = q[i]
      BY <1>1, <2>3
    <3>2. ASSUME NEW j \in 1..Len(r), j > m PROVE f \notin DOMAIN r[j]
      <4>1. j + 1 \in 1..Len(q) /\ j + 1 > i /\ r[j] = q[j + 1]
        BY <1>1, <3>2
      <4> QED
        BY <2>1, <4>1
    <3> HIDE DEF m
    <3>3. Sets(r, f, v)
      BY <2>1, <3>1, <3>2 DEF Sets
    <3> QED
      BY <3>3 DEF WillBe, x, r, d
  <2> QED
    BY <2>2, <2>3
<1> QED
  BY <1>4, <1>5 DEF WillBe

\* What a built spec has whatever the AlbConfig leaves out.
LEMMA BuiltFields ==
  ASSUME NEW c, NEW sp \in Specs
  PROVE  LET s == BuildSpec(c, sp)
         IN  /\ s.id = sp.id /\ s.force = sp.force
             /\ s.ipv6 \in {"Internet", "Intranet"}
             /\ s.tags = [k \in Key |-> s.tags[k]]
BY InputAssumption DEF BuildSpec

\* An optional call.
LEMMA WhenCalls ==
  ASSUME NEW cond, NEW x
  PROVE  LET q == When(cond, x)
         IN  /\ Calls(q) /\ CallsOf(q) \subseteq {x} /\ Touches(q) \subseteq DOMAIN x
             /\ cond => /\ CallsOf(q) = {x}
                        /\ \A f \in DOMAIN x : Sets(q, f, x[f])
             /\ ~cond => q = <<>>
BY NoCalls, OneCall DEF When

\* updateAlbLoadBalancerAttribute
LEMMA AttributeSegment ==
  ASSUME NEW s, NEW b
  PROVE  LET q == AttributeCalls(s, b)
         IN  /\ Calls(q) /\ Touches(q) \subseteq {"name", "mod"}
             /\ WillBe(q, b, "name", s.name) /\ WillBe(q, b, "mod", TRUE)
<1> DEFINE x == [name |-> s.name, mod |-> TRUE]
           cond == s.name # b.name \/ ~b.mod
           q == When(cond, x)
<1>1. DOMAIN x = {"name", "mod"} /\ x["name"] = s.name /\ x["mod"] = TRUE
  OBVIOUS
<1>2. q = AttributeCalls(s, b)
  BY DEF AttributeCalls
<1>3. /\ Calls(q) /\ Touches(q) \subseteq {"name", "mod"}
      /\ cond => Sets(q, "name", s.name) /\ Sets(q, "mod", TRUE)
      /\ ~cond => q = <<>>
  <2> HIDE DEF x, cond
  <2> QED
    BY <1>1, WhenCalls
<1> HIDE DEF q
<1>4. CASE cond
  BY <1>2, <1>3, <1>4 DEF WillBe, q
<1>5. CASE ~cond
  <2>1. b.name = s.name /\ b.mod = TRUE
    BY <1>5
  <2>2. AttributeCalls(s, b) = <<>>
    BY <1>2, <1>3, <1>5
  <2>3. WillBe(<<>>, b, "name", s.name) /\ WillBe(<<>>, b, "mod", TRUE)
    BY <2>1, NoCalls
  <2> QED
    BY <2>2, <2>3, NoCalls
<1> QED
  BY <1>4, <1>5

\* updateAlbLoadBalancerDeletionProtection
LEMMA ProtectionSegment ==
  ASSUME NEW b
  PROVE  LET q == DeletionProtectionCalls(b)
         IN  Calls(q) /\ Touches(q) \subseteq {"prot"} /\ WillBe(q, b, "prot", TRUE)
<1> DEFINE x == EnableDeletionProtection
           cond == ~b.prot
           q == When(cond, x)
<1>1. DOMAIN x = {"prot"} /\ x["prot"] = TRUE
  BY DEF EnableDeletionProtection
<1>2. q = DeletionProtectionCalls(b)
  BY DEF DeletionProtectionCalls
<1>3. /\ Calls(q) /\ Touches(q) \subseteq {"prot"}
      /\ cond => Sets(q, "prot", TRUE)
      /\ ~cond => q = <<>>
  <2> HIDE DEF x, cond
  <2> QED
    BY <1>1, WhenCalls
<1> HIDE DEF q
<1>4. CASE cond
  BY <1>2, <1>3, <1>4 DEF WillBe, q
<1>5. CASE ~cond
  <2>1. b.prot = TRUE
    BY <1>5
  <2>2. q = <<>>
    BY <1>3, <1>5
  <2> HIDE DEF cond
  <2> QED
    BY <1>2, <1>3, <2>1, <2>2, NoCalls DEF q
<1> QED
  BY <1>4, <1>5

\* updateAlbLoadBalancerIpv6AddressType
LEMMA Ipv6Segment ==
  ASSUME NEW s, NEW b, s.ipv6 \in {"Internet", "Intranet"}
  PROVE  LET q == Ipv6Calls(s, b)
         IN  /\ Calls(q) /\ Touches(q) \subseteq {"ipv6"}
             /\ WillBe(q, b, "ipv6", None) \/ WillBe(q, b, "ipv6", s.ipv6)
<1> DEFINE x == IF s.ipv6 = "Internet" THEN EnableIpv6Internet ELSE DisableIpv6Internet
           cond == b.ipv6 # None /\ s.ipv6 # b.ipv6
           q == When(cond, x)
<1>1. DOMAIN x = {"ipv6"} /\ x["ipv6"] = s.ipv6
  BY DEF EnableIpv6Internet, DisableIpv6Internet
<1>2. q = Ipv6Calls(s, b)
  BY DEF Ipv6Calls
<1>3. /\ Calls(q) /\ Touches(q) \subseteq {"ipv6"}
      /\ cond => Sets(q, "ipv6", s.ipv6)
      /\ ~cond => q = <<>>
  <2> HIDE DEF x, cond
  <2> QED
    BY <1>1, WhenCalls
<1> HIDE DEF q
<1>4. CASE cond
  BY <1>2, <1>3, <1>4 DEF WillBe, q
<1>5. CASE ~cond
  BY <1>2, <1>3, <1>5, NoCalls
<1> QED
  BY <1>4, <1>5

\* The access log, the edition and the bandwidth package.
LEMMA MiddleSegments ==
  ASSUME NEW s, NEW b
  PROVE  /\ LET q == AccessLogCalls(s, b)
            IN  /\ Calls(q) /\ Touches(q) \subseteq {"log", "refused"}
                /\ Refusal \notin CallsOf(q) => WillBe(q, b, "log", s.log)
         /\ LET q == EditionCalls(s, b)
            IN  /\ Calls(q) /\ Touches(q) \subseteq {"edition", "refused"}
                /\ Refusal \notin CallsOf(q) /\ s.id = None => WillBe(q, b, "edition", s.edition)
         /\ LET q == BandWidthPackageCalls(s, b)
            IN  /\ Calls(q) /\ Touches(q) \subseteq {"bw", "refused"}
                /\ Refusal \notin CallsOf(q) /\ s.bw # None => WillBe(q, b, "bw", s.bw)
<1>1. DOMAIN Refusal = {"refused"}
  BY DEF Refusal
<1>2. LET q == AccessLogCalls(s, b)
      IN  /\ Calls(q) /\ Touches(q) \subseteq {"log", "refused"}
          /\ Refusal \notin CallsOf(q) => WillBe(q, b, "log", s.log)
  <2> DEFINE x == DissociateAccessLog
             y == AssociateAccessLog(s)
             k == When(b.log # None, x)
             m == When(s.log # None, y)
             q == AccessLogCalls(s, b)
  <2>1. DOMAIN x = {"log"} /\ x["log"] = None
    BY DEF DissociateAccessLog
  <2>2. y = Refusal \/ (DOMAIN y = {"log"} /\ y["log"] = s.log)
    BY DEF AssociateAccessLog
  <2>3. q = IF s.log = b.log THEN <<>> ELSE k \o m
    BY DEF AccessLogCalls
  <2> HIDE DEF x, y, q
  <2>4. /\ Calls(k) /\ Touches(k) \subseteq {"log"}
        /\ b.log # None => Sets(k, "log", None)
        /\ b.log = None => k = <<>>
    BY <2>1, WhenCalls
  <2>5. /\ Calls(m) /\ Touches(m) \subseteq {"log", "refused"}
        /\ s.log # None => CallsOf(m) = {y} /\ (y # Refusal => Sets(m, "log", s.log))
        /\ s.log = None => m = <<>>
    BY <1>1, <2>2, WhenCalls
  <2> HIDE DEF k, m
  <2>6. CASE s.log = b.log
    BY <2>3, <2>6, NoCalls DEF q
  <2>7. CASE s.log # b.log /\ s.log # None
    <3>1. /\ Calls(q) /\ Touches(q) \subseteq {"log", "refused"} /\ CallsOf(m) \subseteq CallsOf(q)
      BY <2>3, <2>4, <2>5, <2>7, CatCalls
    <3>2. Refusal \notin CallsOf(q) => Sets(q, "log", s.log)
      BY <2>3, <2>4, <2>5, <2>7, <3>1, CatWillBe
    <3> QED
      BY <3>1, <3>2 DEF WillBe, q
  <2>8. CASE s.log # b.log /\ s.log = None
    <3>1. /\ Calls(q) /\ Touches(q) \subseteq {"log", "refused"}
      BY <2>3, <2>4, <2>5, <2>8, CatCalls
    <3>2. WillBe(k, b, "log", s.log) /\ "log" \notin Touches(m)
      BY <2>4, <2>5, <2>8, NoCalls, OneCall DEF WillBe
    <3>3. WillBe(q, b, "log", s.log)
      BY <2>3, <2>4, <2>5, <2>8, <3>2, CatWillBe
    <3> QED
      BY <3>1, <3>3 DEF q
  <2> QED
    BY <2>6, <2>7, <2>8
<1>3. LET q == EditionCalls(s, b)
      IN  /\ Calls(q) /\ Touches(q) \subseteq {"edition", "refused"}
          /\ Refusal \notin CallsOf(q) /\ s.id = None => WillBe(q, b, "edition", s.edition)
  <2> DEFINE x == IF s.edition = "Basic" THEN Refusal ELSE [edition |-> s.edition]
             q == EditionCalls(s, b)
  <2>1. x = Refusal \/ (DOMAIN x = {"edition"} /\ x["edition"] = s.edition)
    OBVIOUS
  <2>2. q = IF s.id # None \/ s.edition = b.edition THEN <<>> ELSE <<x>>
    BY DEF EditionCalls
  <2> HIDE DEF x, q
  <2>3. CASE s.id # None \/ s.edition = b.edition
    BY <2>2, <2>3, NoCalls, OneCall DEF q
  <2>4. CASE ~(s.id # None \/ s.edition = b.edition)
    <3>1. q = <<x>>
      BY <2>2, <2>4
    <3>2. Calls(q) /\ CallsOf(q) = {x} /\ Touches(q) \subseteq {"edition", "refused"}
      BY <1>1, <2>1, <3>1, NoCalls, OneCall
    <3>3. x # Refusal => Sets(q, "edition", s.edition)
      BY <2>1, <3>1, NoCalls, OneCall
    <3> QED
      BY <3>2, <3>3 DEF WillBe, q
  <2> QED
    BY <2>3, <2>4
<1>4. LET q == BandWidthPackageCalls(s, b)
      IN  /\ Calls(q) /\ Touches(q) \subseteq {"bw", "refused"}
          /\ Refusal \notin CallsOf(q) /\ s.bw # None => WillBe(q, b, "bw", s.bw)
  <2> DEFINE x == DetachBandwidthPackage
             y == AttachBandwidthPackage(s)
             k == When(b.bw # None, x)
             q == BandWidthPackageCalls(s, b)
  <2>1. DOMAIN x = {"bw"} /\ DOMAIN y = {"bw"} /\ y["bw"] = s.bw
    BY DEF DetachBandwidthPackage, AttachBandwidthPackage
  <2>2. q = IF s.bw = None \/ s.bw = b.bw THEN <<>>
            ELSE IF s.addr # "Internet" THEN <<Refusal>> ELSE k \o <<y>>
    BY DEF BandWidthPackageCalls
  <2> HIDE DEF x, y, q
  <2>3. Calls(k) /\ Touches(k) \subseteq {"bw"}
    BY <2>1, WhenCalls
  <2> HIDE DEF k
  <2>4. CASE s.bw = None \/ s.bw = b.bw
    BY <2>2, <2>4, NoCalls, OneCall DEF q
  <2>5. CASE ~(s.bw = None \/ s.bw = b.bw) /\ s.addr # "Internet"
    BY <1>1, <2>2, <2>5, NoCalls, OneCall DEF q
  <2>6. CASE ~(s.bw = None \/ s.bw = b.bw) /\ s.addr = "Internet"
    <3>1. Calls(<<y>>) /\ Touches(<<y>>) = {"bw"} /\ Sets(<<y>>, "bw", s.bw)
      BY <2>1, NoCalls, OneCall
    <3>2. Calls(q) /\ Touches(q) \subseteq {"bw", "refused"} /\ Sets(q, "bw", s.bw)
      BY <2>2, <2>3, <2>6, <3>1, CatCalls, CatWillBe
    <3> QED
      BY <3>2 DEF WillBe, q
  <2> QED
    BY <2>4, <2>5, <2>6
<1> QED
  BY <1>2, <1>3, <1>4

\* The tags and the resource group.
LEMMA LastSegments ==
  ASSUME NEW s, NEW b, s.tags = [k \in Key |-> s.tags[k]]
  PROVE  /\ LET q == TagCalls(s, b)
            IN  /\ Calls(q) /\ Touches(q) \subseteq {"custom"}
                /\ (\E k \in Key : s.tags[k] # None) => WillBe(q, b, "custom", s.tags)
         /\ LET q == ResourceGroupCalls(s, b)
            IN  /\ Calls(q) /\ Touches(q) \subseteq {"group"}
                /\ s.group # None => WillBe(q, b, "group", s.group)
<1>1. LET q == TagCalls(s, b)
      IN  /\ Calls(q) /\ Touches(q) \subseteq {"custom"}
          /\ (\E k \in Key : s.tags[k] # None) => WillBe(q, b, "custom", s.tags)
  <2> DEFINE keep == [k \in Key |-> IF s.tags[k] = None THEN None ELSE b.custom[k]]
             x == UnTag(keep)
             y == TagWithoutResourceTags(s, keep)
             k1 == When(keep # b.custom, x)
             k2 == When(s.tags # keep, y)
             q == TagCalls(s, b)
  <2>1. Tagged(keep, s.tags) = s.tags
    BY DEF Tagged
  <2>2. /\ DOMAIN x = {"custom"} /\ x["custom"] = keep
        /\ DOMAIN y = {"custom"} /\ y["custom"] = s.tags
    BY <2>1 DEF UnTag, TagWithoutResourceTags
  <2>3. q = IF \A k \in Key : s.tags[k] = None THEN <<>> ELSE k1 \o k2
    BY DEF TagCalls
  <2> HIDE DEF x, y, q, keep
  <2>4. /\ Calls(k1) /\ Touches(k1) \subseteq {"custom"}
        /\ keep # b.custom => Sets(k1, "custom", keep)
        /\ keep = b.custom => k1 = <<>>
    BY <2>2, WhenCalls
  <2>5. /\ Calls(k2) /\ Touches(k2) \subseteq {"custom"}
        /\ s.tags # keep => Sets(k2, "custom", s.tags)
        /\ s.tags = keep => k2 = <<>>
    BY <2>2, WhenCalls
  <2> HIDE DEF k1, k2
  <2>6. CASE \A k \in Key : s.tags[k] = None
    BY <2>3, <2>6, NoCalls DEF q
  <2>7. CASE ~(\A k \in Key : s.tags[k] = None)
    <3>1. q = k1 \o k2
      BY <2>3, <2>7
    <3>2. Calls(q) /\ Touches(q) \subseteq {"custom"}
      BY <2>4, <2>5, <3>1, CatCalls
    <3>3. CASE s.tags # keep
      <4>1. Sets(k2, "custom", s.tags)
        BY <2>5, <3>3
      <4>2. Sets(q, "custom", s.tags)
        BY <2>4, <2>5, <3>1, <4>1, CatWillBe
      <4> QED
        BY <3>2, <4>2 DEF WillBe, q
    <3>4. CASE s.tags = keep
      <4>1. WillBe(k1, b, "custom", s.tags)
        BY <2>4, <3>4, NoCalls DEF WillBe
      <4>2. "custom" \notin Touches(k2)
        BY <2>5, <3>4, NoCalls
      <4> QED
        BY <2>4, <2>5, <3>1, <3>2, <4>1, <4>2, CatWillBe DEF q
    <3> QED
      BY <3>3, <3>4
  <2> QED
    BY <2>6, <2>7
<1>2. LET q == ResourceGroupCalls(s, b)
      IN  /\ Calls(q) /\ Touches(q) \subseteq {"group"}
          /\ s.group # None => WillBe(q, b, "group", s.group)
  <2> DEFINE x == MoveResourceGroup(s)
             cond == s.group # None /\ s.group # b.group
             q == When(cond, x)
  <2>1. DOMAIN x = {"group"} /\ x["group"] = s.group
    BY DEF MoveResourceGroup
  <2>2. q = ResourceGroupCalls(s, b)
    BY DEF ResourceGroupCalls
  <2>3. /\ Calls(q) /\ Touches(q) \subseteq {"group"}
        /\ cond => Sets(q, "group", s.group)
        /\ ~cond => q = <<>>
    <3> HIDE DEF x, cond
    <3> QED
      BY <2>1, WhenCalls
  <2> HIDE DEF q
  <2>4. CASE cond
    BY <2>2, <2>3, <2>4 DEF WillBe
  <2>5. CASE ~cond
    BY <2>2, <2>3, <2>5, NoCalls
  <2> QED
    BY <2>4, <2>5
<1> QED
  BY <1>1, <1>2

\* What UpdateALB comes to for the ALB it was worked out for.
UpdateFits(q, s, b) ==
  /\ Calls(q)
  /\ Touches(q) \subseteq {"name", "mod", "prot", "ipv6", "log", "edition", "bw",
                           "custom", "group", "refused"}
  /\ Refusal \notin CallsOf(q) =>
       /\ WillBe(q, b, "name", s.name) /\ WillBe(q, b, "mod", TRUE)
       /\ WillBe(q, b, "prot", TRUE) /\ WillBe(q, b, "log", s.log)
       /\ s.id = None => WillBe(q, b, "edition", s.edition)
       /\ WillBe(q, b, "ipv6", None) \/ WillBe(q, b, "ipv6", s.ipv6)
       /\ s.bw # None => WillBe(q, b, "bw", s.bw)
       /\ (\E k \in Key : s.tags[k] # None) => WillBe(q, b, "custom", s.tags)
       /\ s.group # None => WillBe(q, b, "group", s.group)

\* UpdateALB brings the ALB in line with the spec, as far as no call is refused.
LEMMA UpdateWillBe ==
  ASSUME NEW s, NEW b, s.ipv6 \in {"Internet", "Intranet"}, s.tags = [k \in Key |-> s.tags[k]]
  PROVE  UpdateFits(UpdateALB(s, b), s, b)
<1> DEFINE A == AttributeCalls(s, b)
           D == DeletionProtectionCalls(b)
           I == Ipv6Calls(s, b)
           L == AccessLogCalls(s, b)
           E == EditionCalls(s, b)
           B == BandWidthPackageCalls(s, b)
           T == TagCalls(s, b)
           G == ResourceGroupCalls(s, b)
           P2 == A \o D
           P3 == P2 \o I
           P4 == P3 \o L
           P5 == P4 \o E
           P6 == P5 \o B
           P7 == P6 \o T
           q == P7 \o G
           tagged == \E k \in Key : s.tags[k] # None
<1>1. q = UpdateALB(s, b)
  BY DEF UpdateALB
<1>2. /\ Calls(A) /\ Touches(A) \subseteq {"name", "mod"}
      /\ WillBe(A, b, "name", s.name) /\ WillBe(A, b, "mod", TRUE)
      /\ Calls(D) /\ Touches(D) \subseteq {"prot"} /\ WillBe(D, b, "prot", TRUE)
      /\ Calls(I) /\ Touches(I) \subseteq {"ipv6"}
      /\ WillBe(I, b, "ipv6", None) \/ WillBe(I, b, "ipv6", s.ipv6)
  <2>1. /\ Calls(A) /\ Touches(A) \subseteq {"name", "mod"}
        /\ WillBe(A, b, "name", s.name) /\ WillBe(A, b, "mod", TRUE)
    BY AttributeSegment
  <2>2. Calls(D) /\ Touches(D) \subseteq {"prot"} /\ WillBe(D, b, "prot", TRUE)
    BY ProtectionSegment
  <2>3. /\ Calls(I) /\ Touches(I) \subseteq {"ipv6"}
        /\ WillBe(I, b, "ipv6", None) \/ WillBe(I, b, "ipv6", s.ipv6)
    BY Ipv6Segment
  <2> HIDE DEF A, D, I
  <2> QED
    BY <2>1, <2>2, <2>3
<1>3. /\ Calls(L) /\ Touches(L) \subseteq {"log", "refused"}
      /\ Refusal \notin CallsOf(L) => WillBe(L, b, "log", s.log)
      /\ Calls(E) /\ Touches(E) \subseteq {"edition", "refused"}
      /\ Refusal \notin CallsOf(E) /\ s.id = None => WillBe(E, b, "edition", s.edition)
      /\ Calls(B) /\ Touches(B) \subseteq {"bw", "refused"}
      /\ Refusal \notin CallsOf(B) /\ s.bw # None => WillBe(B, b, "bw", s.bw)
  BY MiddleSegments
<1>4. /\ Calls(T) /\ Touches(T) \subseteq {"custom"}
      /\ tagged => WillBe(T, b, "custom", s.tags)
      /\ Calls(G) /\ Touches(G) \subseteq {"group"}
      /\ s.group # None => WillBe(G, b, "group", s.group)
  BY LastSegments
<1> HIDE DEF A, D, I, L, E, B, T, G, tagged
<1>5. /\ Calls(P2) /\ Touches(P2) \subseteq {"name", "mod", "prot"}
      /\ WillBe(P2, b, "name", s.name) /\ WillBe(P2, b, "mod", TRUE) /\ WillBe(P2, b, "prot", TRUE)
  <2>1. Calls(P2) /\ Touches(P2) = Touches(A) \cup Touches(D)
    BY <1>2, CatCalls
  <2>2. WillBe(P2, b, "name", s.name) /\ WillBe(P2, b, "mod", TRUE)
    BY <1>2, CatWillBe
  <2>3. WillBe(P2, b, "prot", TRUE)
    BY <1>2, CatWillBe
  <2> QED
    BY <1>2, <2>1, <2>2, <2>3
<1> HIDE DEF P2
<1>6. /\ Calls(P3) /\ Touches(P3) \subseteq {"name", "mod", "prot", "ipv6"}
      /\ WillBe(P3, b, "name", s.name) /\ WillBe(P3, b, "mod", TRUE) /\ WillBe(P3, b, "prot", TRUE)
      /\ WillBe(P3, b, "ipv6", None) \/ WillBe(P3, b, "ipv6", s.ipv6)
  <2>1. Calls(P3) /\ Touches(P3) = Touches(P2) \cup Touches(I)
    BY <1>2, <1>5, CatCalls
  <2>2. WillBe(P3, b, "name", s.name) /\ WillBe(P3, b, "mod", TRUE) /\ WillBe(P3, b, "prot", TRUE)
    BY <1>2, <1>5, CatWillBe
  <2>3. WillBe(P3, b, "ipv6", None) \/ WillBe(P3, b, "ipv6", s.ipv6)
    BY <1>2, <1>5, CatWillBe
  <2> QED
    BY <1>2, <1>5, <2>1, <2>2, <2>3
<1> HIDE DEF P3
<1> DEFINE Kept(P) == /\ WillBe(P, b, "name", s.name) /\ WillBe(P, b, "mod", TRUE)
                      /\ WillBe(P, b, "prot", TRUE)
                      /\ WillBe(P, b, "ipv6", None) \/ WillBe(P, b, "ipv6", s.ipv6)
<1>7. ASSUME NEW P, NEW Q, Calls(P), Calls(Q), Kept(P),
             \A f \in {"name", "mod", "prot", "ipv6"} : f \notin Touches(Q)
      PROVE  Kept(P \o Q)
  BY <1>7, CatWillBe
<1>8. Kept(P3)
  BY <1>6
<1> HIDE DEF Kept
<1>9. /\ Calls(P4) /\ Touches(P4) \subseteq {"name", "mod", "prot", "ipv6", "log", "refused"}
      /\ CallsOf(L) \subseteq CallsOf(P4)
      /\ Kept(P4)
      /\ Refusal \notin CallsOf(P4) => WillBe(P4, b, "log", s.log)
  <2>1. /\ Calls(P4) /\ Touches(P4) = Touches(P3) \cup Touches(L)
        /\ CallsOf(P4) = CallsOf(P3) \cup CallsOf(L)
    BY <1>3, <1>6, CatCalls
  <2>2. Kept(P4)
    BY <1>3, <1>6, <1>7, <1>8
  <2>3. WillBe(L, b, "log", s.log) => WillBe(P4, b, "log", s.log)
    BY <1>3, <1>6, CatWillBe
  <2> QED
    BY <1>3, <1>6, <2>1, <2>2, <2>3
<1> HIDE DEF P4
<1>10. /\ Calls(P5)
       /\ Touches(P5) \subseteq {"name", "mod", "prot", "ipv6", "log", "edition", "refused"}
       /\ Kept(P5)
       /\ Refusal \notin CallsOf(P5) =>
            /\ WillBe(P5, b, "log", s.log)
            /\ s.id = None => WillBe(P5, b, "edition", s.edition)
  <2>1. /\ Calls(P5) /\ Touches(P5) = Touches(P4) \cup Touches(E)
        /\ CallsOf(P5) = CallsOf(P4) \cup CallsOf(E)
    BY <1>3, <1>9, CatCalls
  <2>2. Kept(P5)
    BY <1>3, <1>7, <1>9
  <2>3. /\ WillBe(P4, b, "log", s.log) => WillBe(P5, b, "log", s.log)
        /\ WillBe(E, b, "edition", s.edition) => WillBe(P5, b, "edition", s.edition)
    BY <1>3, <1>9, CatWillBe
  <2> QED
    BY <1>3, <1>9, <2>1, <2>2, <2>3
<1> HIDE DEF P5
<1>11. /\ Calls(P6)
       /\ Touches(P6) \subseteq {"name", "mod", "prot", "ipv6", "log", "edition", "bw", "refused"}
       /\ Kept(P6)
       /\ Refusal \notin CallsOf(P6) =>
            /\ WillBe(P6, b, "log", s.log)
            /\ s.id = None => WillBe(P6, b, "edition", s.edition)
            /\ s.bw # None => WillBe(P6, b, "bw", s.bw)
  <2>1. /\ Calls(P6) /\ Touches(P6) = Touches(P5) \cup Touches(B)
        /\ CallsOf(P6) = CallsOf(P5) \cup CallsOf(B)
    BY <1>3, <1>10, CatCalls
  <2>2. Kept(P6)
    BY <1>3, <1>7, <1>10
  <2>3. /\ WillBe(P5, b, "log", s.log) => WillBe(P6, b, "log", s.log)
        /\ WillBe(P5, b, "edition", s.edition) => WillBe(P6, b, "edition", s.edition)
        /\ WillBe(B, b, "bw", s.bw) => WillBe(P6, b, "bw", s.bw)
    BY <1>3, <1>10, CatWillBe
  <2> QED
    BY <1>3, <1>10, <2>1, <2>2, <2>3
<1> HIDE DEF P6
<1>12. /\ Calls(P7)
       /\ Touches(P7) \subseteq {"name", "mod", "prot", "ipv6", "log", "edition", "bw", "custom",
                                 "refused"}
       /\ Kept(P7)
       /\ Refusal \notin CallsOf(P7) =>
            /\ WillBe(P7, b, "log", s.log)
            /\ s.id = None => WillBe(P7, b, "edition", s.edition)
            /\ s.bw # None => WillBe(P7, b, "bw", s.bw)
       /\ tagged => WillBe(P7, b, "custom", s.tags)
  <2>1. /\ Calls(P7) /\ Touches(P7) = Touches(P6) \cup Touches(T)
        /\ CallsOf(P7) = CallsOf(P6) \cup CallsOf(T)
    BY <1>4, <1>11, CatCalls
  <2>2. Kept(P7)
    BY <1>4, <1>7, <1>11
  <2>3. /\ WillBe(P6, b, "log", s.log) => WillBe(P7, b, "log", s.log)
        /\ WillBe(P6, b, "edition", s.edition) => WillBe(P7, b, "edition", s.edition)
        /\ WillBe(P6, b, "bw", s.bw) => WillBe(P7, b, "bw", s.bw)
        /\ WillBe(T, b, "custom", s.tags) => WillBe(P7, b, "custom", s.tags)
    BY <1>4, <1>11, CatWillBe
  <2> QED
    BY <1>4, <1>11, <2>1, <2>2, <2>3
<1> HIDE DEF P7
<1>13. /\ Calls(q)
       /\ Touches(q) \subseteq {"name", "mod", "prot", "ipv6", "log", "edition", "bw", "custom",
                                "group", "refused"}
       /\ Kept(q)
       /\ Refusal \notin CallsOf(q) =>
            /\ WillBe(q, b, "log", s.log)
            /\ s.id = None => WillBe(q, b, "edition", s.edition)
            /\ s.bw # None => WillBe(q, b, "bw", s.bw)
       /\ tagged => WillBe(q, b, "custom", s.tags)
       /\ s.group # None => WillBe(q, b, "group", s.group)
  <2>1. /\ Calls(q) /\ Touches(q) = Touches(P7) \cup Touches(G)
        /\ CallsOf(q) = CallsOf(P7) \cup CallsOf(G)
    BY <1>4, <1>12, CatCalls
  <2>2. Kept(q)
    BY <1>4, <1>7, <1>12
  <2>3. /\ WillBe(P7, b, "log", s.log) => WillBe(q, b, "log", s.log)
        /\ WillBe(P7, b, "edition", s.edition) => WillBe(q, b, "edition", s.edition)
        /\ WillBe(P7, b, "bw", s.bw) => WillBe(q, b, "bw", s.bw)
        /\ WillBe(P7, b, "custom", s.tags) => WillBe(q, b, "custom", s.tags)
        /\ WillBe(G, b, "group", s.group) => WillBe(q, b, "group", s.group)
    BY <1>4, <1>12, CatWillBe
  <2> QED
    BY <1>4, <1>12, <2>1, <2>2, <2>3
<1> HIDE DEF q
<1>14. Kept(q) => /\ WillBe(q, b, "name", s.name) /\ WillBe(q, b, "mod", TRUE)
                  /\ WillBe(q, b, "prot", TRUE)
                  /\ WillBe(q, b, "ipv6", None) \/ WillBe(q, b, "ipv6", s.ipv6)
  BY DEF Kept
<1> QED
  BY <1>1, <1>13, <1>14 DEF tagged, UpdateFits

\* A pass that finds its ALB.
LEMMA UpdateAims ==
  ASSUME NEW c, NEW sp \in Specs, NEW b, b.state = "live", b.tag = c
  PROVE  LET q == UpdateALB(BuildSpec(c, sp), b)
         IN  /\ Calls(q) /\ Aims(c, sp, q, b)
             /\ "state" \notin Touches(q) /\ "tag" \notin Touches(q)
<1> DEFINE s == BuildSpec(c, sp)
           q == UpdateALB(s, b)
<1>1. s.ipv6 \in {"Internet", "Intranet"} /\ s.tags = [k \in Key |-> s.tags[k]]
  BY BuiltFields
<1> HIDE DEF s
<1>7. UpdateFits(q, s, b)
  BY <1>1, UpdateWillBe
<1> HIDE DEF q
<1>2. /\ Calls(q)
      /\ Touches(q) \subseteq {"name", "mod", "prot", "ipv6", "log", "edition", "bw",
                               "custom", "group", "refused"}
  BY <1>7 DEF UpdateFits
<1>3. Refusal \notin CallsOf(q) =>
        /\ WillBe(q, b, "name", s.name) /\ WillBe(q, b, "mod", TRUE)
        /\ WillBe(q, b, "prot", TRUE) /\ WillBe(q, b, "log", s.log)
        /\ s.id = None => WillBe(q, b, "edition", s.edition)
        /\ WillBe(q, b, "ipv6", None) \/ WillBe(q, b, "ipv6", s.ipv6)
        /\ s.bw # None => WillBe(q, b, "bw", s.bw)
        /\ (\E k \in Key : s.tags[k] # None) => WillBe(q, b, "custom", s.tags)
        /\ s.group # None => WillBe(q, b, "group", s.group)
  BY <1>7 DEF UpdateFits
<1>4. "state" \notin Touches(q) /\ "tag" \notin Touches(q)
  BY <1>2
<1>5. WillBe(q, b, "state", "live") /\ WillBe(q, b, "tag", c)
  BY <1>4 DEF WillBe
<1>6. Aims(c, sp, q, b)
  BY <1>3, <1>5 DEF Aims, s
<1> QED
  BY <1>2, <1>4, <1>6 DEF q, s

\* A pass that takes over the ALB of the user.
LEMMA ReuseAims ==
  ASSUME NEW c, NEW sp \in Specs, sp.id # None, NEW b, ALBRecord(b), b.state = "live"
  PROVE  LET q == ReuseCalls(c, BuildSpec(c, sp), b)
         IN  Calls(q) /\ Aims(c, sp, q, b) /\ "state" \notin Touches(q)
<1> DEFINE s == BuildSpec(c, sp)
           q == ReuseCalls(c, s, b)
           x == Tag(c, s, b)
           d == ReuseDescription(b)
           u == UpdateALB(s, d)
<1>1. /\ s.id = sp.id /\ s.id # None
      /\ s.ipv6 \in {"Internet", "Intranet"} /\ s.tags = [k \in Key |-> s.tags[k]]
  BY BuiltFields
<1>2. /\ DOMAIN x = {"tag", "custom"} /\ x["tag"] = c /\ x["custom"] = Tagged(b.custom, s.tags)
  BY DEF Tag
<1>3. DOMAIN Refusal = {"refused"}
  BY DEF Refusal
<1>4. q = IF b.edition = "Basic" \/ TagConflict(c, b) THEN <<Refusal>>
          ELSE <<x>> \o (IF s.force THEN u ELSE <<>>)
  BY DEF ReuseCalls
<1>5. \A f \in {"name", "mod", "prot", "log", "edition", "bw", "custom", "group"} : d[f] = b[f]
  <2>1. \A f \in {"name", "mod", "prot", "log", "edition", "bw", "custom", "group"} :
          f \in DOMAIN Free /\ f # "ipv6"
    BY DEF Free
  <2>2. DOMAIN b = DOMAIN Free
    BY DEF ALBRecord
  <2> QED
    BY <2>1, <2>2 DEF ReuseDescription
<1> HIDE DEF s, q, x, d
<1>13. UpdateFits(u, s, d)
  BY <1>1, UpdateWillBe
<1> HIDE DEF u
<1>6. /\ Calls(u)
      /\ Touches(u) \subseteq {"name", "mod", "prot", "ipv6", "log", "edition", "bw",
                               "custom", "group", "refused"}
  BY <1>13 DEF UpdateFits
<1>7. Refusal \notin CallsOf(u) =>
        /\ WillBe(u, d, "name", s.name) /\ WillBe(u, d, "mod", TRUE)
        /\ WillBe(u, d, "prot", TRUE) /\ WillBe(u, d, "log", s.log)
        /\ s.bw # None => WillBe(u, d, "bw", s.bw)
        /\ (\E k \in Key : s.tags[k] # None) => WillBe(u, d, "custom", s.tags)
        /\ s.group # None => WillBe(u, d, "group", s.group)
  BY <1>13 DEF UpdateFits
<1>8. \A f \in {"name", "mod", "prot", "log", "bw", "custom", "group"} : \A v :
        WillBe(u, d, f, v) <=> WillBe(u, b, f, v)
  BY <1>5 DEF WillBe
<1>9. /\ Calls(<<x>>) /\ Touches(<<x>>) = {"tag", "custom"} /\ CallsOf(<<x>>) = {x}
      /\ Sets(<<x>>, "tag", c) /\ Sets(<<x>>, "custom", Tagged(b.custom, s.tags))
  BY <1>2, OneCall
<1>10. CASE b.edition = "Basic" \/ TagConflict(c, b)
  <2>1. q = <<Refusal>>
    BY <1>4, <1>10
  <2>2. Calls(q) /\ CallsOf(q) = {Refusal} /\ "state" \notin Touches(q)
    BY <1>3, <2>1, OneCall
  <2>3. Aims(c, sp, q, b)
    BY <2>2 DEF Aims
  <2> QED
    BY <2>2, <2>3 DEF q, s
<1>11. CASE ~(b.edition = "Basic" \/ TagConflict(c, b)) /\ ~s.force
  <2>1. q = <<x>> \o <<>>
    BY <1>4, <1>11
  <2>2. Calls(q) /\ Touches(q) = {"tag", "custom"}
    BY <1>9, <2>1, NoCalls, CatCalls
  <2>3. WillBe(<<x>>, b, "tag", c) /\ "tag" \notin Touches(<<>>)
    BY <1>9, NoCalls DEF WillBe
  <2>4. WillBe(q, b, "tag", c)
    BY <1>9, <2>1, <2>3, NoCalls, CatWillBe
  <2>5. WillBe(q, b, "state", "live")
    BY <2>2 DEF WillBe
  <2>6. Aims(c, sp, q, b)
    BY <1>1, <1>11, <2>4, <2>5 DEF Aims, s
  <2> QED
    BY <2>2, <2>6 DEF q, s
<1>12. CASE ~(b.edition = "Basic" \/ TagConflict(c, b)) /\ s.force
  <2>1. q = <<x>> \o u
    BY <1>4, <1>12
  <2>2. /\ Calls(q) /\ Touches(q) = Touches(<<x>>) \cup Touches(u)
        /\ CallsOf(q) = CallsOf(<<x>>) \cup CallsOf(u)
    BY <1>6, <1>9, <2>1, CatCalls
  <2>3. "state" \notin Touches(q)
    BY <1>6, <1>9, <2>2
  <2>4. SUFFICES ASSUME Refusal \notin CallsOf(q) PROVE Aims(c, sp, q, b)
    BY <2>2, <2>3 DEF Aims, q, s
  <2>5. WillBe(q, b, "state", "live")
    BY <2>3 DEF WillBe
  <2>6. WillBe(q, b, "tag", c)
    <3>1. WillBe(<<x>>, b, "tag", c) /\ "tag" \notin Touches(u)
      BY <1>6, <1>9 DEF WillBe
    <3> QED
      BY <1>6, <1>9, <2>1, <3>1, CatWillBe
  <2>7. \A f \in {"name", "mod", "prot", "log", "bw", "group"} : \A v :
          WillBe(u, b, f, v) => WillBe(q, b, f, v)
    <3>1. \A f \in {"name", "mod", "prot", "log", "bw", "group"} : f \notin Touches(<<x>>)
      BY <1>9
    <3> QED
      BY <1>6, <1>9, <2>1, <3>1, CatWillBe
  <2>8. /\ WillBe(u, b, "name", s.name) /\ WillBe(u, b, "mod", TRUE)
        /\ WillBe(u, b, "prot", TRUE) /\ WillBe(u, b, "log", s.log)
        /\ s.bw # None => WillBe(u, b, "bw", s.bw)
        /\ (\E k \in Key : s.tags[k] # None) => WillBe(u, b, "custom", s.tags)
        /\ s.group # None => WillBe(u, b, "group", s.group)
    BY <1>7, <1>8, <2>2, <2>4
  <2>9. WillBe(u, b, "custom", s.tags) => WillBe(q, b, "custom", s.tags)
    <3>1. CASE Sets(u, "custom", s.tags)
      <4>1. Sets(q, "custom", s.tags)
        BY <1>6, <1>9, <2>1, <3>1, CatWillBe
      <4> QED
        BY <4>1 DEF WillBe
    <3>2. CASE "custom" \notin Touches(u) /\ b.custom = s.tags
      <4>1. Tagged(b.custom, s.tags) = s.tags
        BY <1>1, <3>2 DEF Tagged
      <4>2. WillBe(<<x>>, b, "custom", s.tags)
        BY <1>9, <4>1 DEF WillBe
      <4> QED
        BY <1>6, <1>9, <2>1, <3>2, <4>2, CatWillBe
    <3> QED
      BY <3>1, <3>2 DEF WillBe
  <2>10. /\ WillBe(q, b, "name", s.name) /\ WillBe(q, b, "mod", TRUE)
         /\ WillBe(q, b, "prot", TRUE) /\ WillBe(q, b, "log", s.log)
         /\ s.bw # None => WillBe(q, b, "bw", s.bw)
         /\ (\E k \in Key : s.tags[k] # None) => WillBe(q, b, "custom", s.tags)
         /\ s.group # None => WillBe(q, b, "group", s.group)
    BY <2>7, <2>8, <2>9
  <2> QED
    BY <1>1, <2>5, <2>6, <2>10 DEF Aims, s
<1> QED
  BY <1>10, <1>11, <1>12

\* A pass that has created an ALB.
LEMMA CreateAims ==
  ASSUME NEW c, NEW sp \in Specs
  PROVE  LET s == BuildSpec(c, sp)
             b == Created(c, s)
             q == CreateCalls(c, s, b)
         IN  Calls(q) /\ Aims(c, sp, q, b) /\ "state" \notin Touches(q)
<1> DEFINE s == BuildSpec(c, sp)
           b == Created(c, s)
           x == Tag(c, s, b)
           y == AssociateAccessLog(s)
           k1 == When(s.ipv6 = "Internet", EnableIpv6Internet)
           k2 == When(s.log # None, y)
           r == <<x>> \o k1
           q == CreateCalls(c, s, b)
<1>1. s.ipv6 \in {"Internet", "Intranet"} /\ s.tags = [k \in Key |-> s.tags[k]]
  BY BuiltFields
<1> HIDE DEF s
<1>2. /\ b.state = "live" /\ b.name = s.name /\ b.mod = TRUE /\ b.prot = TRUE
      /\ b.ipv6 \in {None, "Intranet"} /\ b.log = None /\ b.edition = s.edition /\ b.bw = s.bw
      /\ b.custom = [k \in Key |-> None] /\ b.group = s.group
  BY DEF Created
<1> HIDE DEF b
<1>3. Tagged(b.custom, s.tags) = s.tags
  BY <1>1, <1>2 DEF Tagged
<1>4. /\ DOMAIN x = {"tag", "custom"} /\ x["tag"] = c /\ x["custom"] = s.tags
  BY <1>3 DEF Tag
<1>5. y = Refusal \/ (DOMAIN y = {"log"} /\ y["log"] = s.log)
  BY DEF AssociateAccessLog
<1>6. DOMAIN Refusal = {"refused"} /\ DOMAIN EnableIpv6Internet = {"ipv6"}
      /\ EnableIpv6Internet["ipv6"] = "Internet"
  BY DEF Refusal, EnableIpv6Internet
<1>7. q = r \o k2
  BY DEF CreateCalls
<1> HIDE DEF x, y, q
<1>8. /\ Calls(<<x>>) /\ Touches(<<x>>) = {"tag", "custom"}
      /\ Sets(<<x>>, "tag", c) /\ Sets(<<x>>, "custom", s.tags)
  <2>1. /\ Calls(<<x>>) /\ Touches(<<x>>) = DOMAIN x
        /\ \A f \in DOMAIN x : Sets(<<x>>, f, x[f])
    BY OneCall
  <2> QED
    BY <1>4, <2>1
<1>9. /\ Calls(k1) /\ Touches(k1) \subseteq {"ipv6"}
      /\ s.ipv6 = "Internet" => Sets(k1, "ipv6", "Internet")
      /\ s.ipv6 # "Internet" => k1 = <<>>
  <2> DEFINE ext == s.ipv6 = "Internet"
             z == EnableIpv6Internet
  <2>1. k1 = When(ext, z) /\ DOMAIN z = {"ipv6"} /\ z["ipv6"] = "Internet"
    BY <1>6
  <2> HIDE DEF ext, z, k1
  <2>2. /\ Calls(k1) /\ Touches(k1) \subseteq {"ipv6"}
        /\ ext => Sets(k1, "ipv6", "Internet")
        /\ ~ext => k1 = <<>>
    BY <2>1, WhenCalls
  <2> QED
    BY <2>2 DEF ext
<1>10. /\ Calls(k2) /\ Touches(k2) \subseteq {"log", "refused"}
       /\ s.log # None => CallsOf(k2) = {y} /\ (y # Refusal => Sets(k2, "log", s.log))
       /\ s.log = None => k2 = <<>>
  BY <1>5, <1>6, WhenCalls
<1> HIDE DEF k1, k2
<1>11. Calls(r) /\ Touches(r) = {"tag", "custom"} \cup Touches(k1)
  BY <1>8, <1>9, CatCalls
<1>12. /\ WillBe(r, b, "tag", c) /\ WillBe(r, b, "custom", s.tags)
  <2>1. WillBe(<<x>>, b, "tag", c) /\ WillBe(<<x>>, b, "custom", s.tags)
    BY <1>8 DEF WillBe
  <2> QED
    BY <1>8, <1>9, <2>1, CatWillBe
<1>13. WillBe(r, b, "ipv6", None) \/ WillBe(r, b, "ipv6", s.ipv6)
  <2>1. CASE s.ipv6 = "Internet"
    <3>1. Sets(r, "ipv6", s.ipv6)
      BY <1>8, <1>9, <2>1, CatWillBe
    <3> QED
      BY <3>1 DEF WillBe
  <2>2. CASE s.ipv6 # "Internet"
    <3>1. "ipv6" \notin Touches(r)
      BY <1>9, <1>11, <2>2, NoCalls
    <3>2. b.ipv6 = None \/ b.ipv6 = s.ipv6
      BY <1>1, <1>2, <2>2
    <3> QED
      BY <3>1, <3>2 DEF WillBe
  <2> QED
    BY <2>1, <2>2
<1> HIDE DEF r
<1>14. /\ Calls(q) /\ Touches(q) \subseteq {"tag", "custom", "ipv6", "log", "refused"}
       /\ CallsOf(k2) \subseteq CallsOf(q)
  BY <1>7, <1>9, <1>10, <1>11, CatCalls
<1>15. /\ WillBe(q, b, "tag", c) /\ WillBe(q, b, "custom", s.tags)
       /\ WillBe(q, b, "ipv6", None) \/ WillBe(q, b, "ipv6", s.ipv6)
  BY <1>7, <1>10, <1>11, <1>12, <1>13, CatWillBe
<1>16. Refusal \notin CallsOf(q) => WillBe(q, b, "log", s.log)
  <2>1. CASE s.log # None
    <3>1. Refusal \notin CallsOf(q) => Sets(k2, "log", s.log)
      BY <1>10, <1>14, <2>1
    <3>2. Sets(k2, "log", s.log) => Sets(q, "log", s.log)
      BY <1>7, <1>10, <1>11, CatWillBe
    <3> QED
      BY <3>1, <3>2 DEF WillBe
  <2>2. CASE s.log = None
    <3>1. "log" \notin Touches(q)
      BY <1>7, <1>9, <1>10, <1>11, <2>2, NoCalls, CatCalls
    <3> QED
      BY <1>2, <2>2, <3>1 DEF WillBe
  <2> QED
    BY <2>1, <2>2
<1>17. /\ WillBe(q, b, "state", "live") /\ WillBe(q, b, "name", s.name)
       /\ WillBe(q, b, "mod", TRUE) /\ WillBe(q, b, "prot", TRUE)
       /\ WillBe(q, b, "edition", s.edition) /\ WillBe(q, b, "bw", s.bw)
       /\ WillBe(q, b, "group", s.group)
  <2>1. \A f \in {"state", "name", "mod", "prot", "edition", "bw", "group"} : f \notin Touches(q)
    BY <1>14
  <2> QED
    BY <1>2, <2>1 DEF WillBe
<1>18. Aims(c, sp, q, b)
  BY <1>15, <1>16, <1>17 DEF Aims, s
<1>19. "state" \notin Touches(q)
  BY <1>14
<1> QED
  BY <1>14, <1>18, <1>19 DEF q, b, s

\* All calls made: the ALB agrees with the spec.
LEMMA AimsReached ==
  ASSUME NEW c, NEW sp, NEW b, Aims(c, sp, <<>>, b)
  PROVE  Served(c, sp, b)
<1>1. \A f, v : WillBe(<<>>, b, f, v) => b[f] = v
  BY NoCalls
<1>2. Refusal \notin CallsOf(<<>>)
  BY NoCalls
<1> DEFINE s == BuildSpec(c, sp)
           q == <<>>
<1>3. /\ WillBe(q, b, "state", "live") /\ WillBe(q, b, "tag", c)
      /\ s.id = None \/ s.force =>
             /\ WillBe(q, b, "name", s.name) /\ WillBe(q, b, "mod", TRUE)
             /\ WillBe(q, b, "prot", TRUE) /\ WillBe(q, b, "log", s.log)
             /\ s.id = None => /\ WillBe(q, b, "edition", s.edition)
                               /\ WillBe(q, b, "ipv6", None) \/ WillBe(q, b, "ipv6", s.ipv6)
             /\ s.bw # None => WillBe(q, b, "bw", s.bw)
             /\ (\E k \in Key : s.tags[k] # None) => WillBe(q, b, "custom", s.tags)
             /\ s.group # None => WillBe(q, b, "group", s.group)
  BY <1>2 DEF Aims
<1> HIDE DEF s
<1>4. /\ b.state = "live" /\ b.tag = c
      /\ s.id = None \/ s.force =>
             /\ b.name = s.name /\ b.mod = TRUE /\ b.prot = TRUE /\ b.log = s.log
             /\ s.id = None => b.edition = s.edition /\ b.ipv6 \in {None, s.ipv6}
             /\ s.bw # None => b.bw = s.bw
             /\ (\E k \in Key : s.tags[k] # None) => b.custom = s.tags
             /\ s.group # None => b.group = s.group
  BY <1>1, <1>3
<1> QED
  BY <1>4 DEF Served, Agrees, s

\* The next call was made: the others aim at the same.
LEMMA TailAims ==
  ASSUME NEW c, NEW sp, NEW q, Calls(q), q # <<>>, NEW b, ALBRecord(b), Head(q) # Refusal,
         Aims(c, sp, q, b)
  PROVE  Aims(c, sp, Tail(q), Done(Head(q), b))
<1> DEFINE r == Tail(q)
           d == Done(Head(q), b)
           s == BuildSpec(c, sp)
<1>1. \A f \in DOMAIN Free : \A v : WillBe(q, b, f, v) => WillBe(r, d, f, v)
  BY TailWillBe DEF ALBRecord
<1>2. {"state", "tag", "name", "mod", "prot", "log", "edition", "ipv6", "bw", "custom", "group"}
        \subseteq DOMAIN Free
  BY DEF Free
<1>3. Refusal \in CallsOf(q) => Refusal \in CallsOf(r)
  <2> SUFFICES ASSUME NEW i \in 1..Len(q), q[i] = Refusal PROVE Refusal \in CallsOf(r)
    BY DEF CallsOf
  <2>1. PICK S : q \in Seq(S)
    BY DEF Calls
  <2>2. /\ Len(q) \in Nat /\ Head(q) = q[1] /\ Len(r) = Len(q) - 1
        /\ \A j \in 1..Len(r) : r[j] = q[j + 1]
    BY <2>1
  <2> HIDE DEF r
  <2>3. i # 1
    BY <2>2
  <2>4. i - 1 \in 1..Len(r) /\ r[i - 1] = q[i]
    BY <2>2, <2>3
  <2> QED
    BY <2>4 DEF CallsOf
<1> HIDE DEF r, d, s
<1>4. CASE Refusal \in CallsOf(q)
  BY <1>3, <1>4 DEF Aims, r, d
<1>5. CASE Refusal \notin CallsOf(q)
  <2>1. /\ WillBe(q, b, "state", "live") /\ WillBe(q, b, "tag", c)
        /\ s.id = None \/ s.force =>
             /\ WillBe(q, b, "name", s.name) /\ WillBe(q, b, "mod", TRUE)
             /\ WillBe(q, b, "prot", TRUE) /\ WillBe(q, b, "log", s.log)
             /\ s.id = None => /\ WillBe(q, b, "edition", s.edition)
                               /\ WillBe(q, b, "ipv6", None) \/ WillBe(q, b, "ipv6", s.ipv6)
             /\ s.bw # None => WillBe(q, b, "bw", s.bw)
             /\ (\E k \in Key : s.tags[k] # None) => WillBe(q, b, "custom", s.tags)
             /\ s.group # None => WillBe(q, b, "group", s.group)
    BY <1>5 DEF Aims, s
  <2>2. /\ WillBe(r, d, "state", "live") /\ WillBe(r, d, "tag", c)
        /\ s.id = None \/ s.force =>
             /\ WillBe(r, d, "name", s.name) /\ WillBe(r, d, "mod", TRUE)
             /\ WillBe(r, d, "prot", TRUE) /\ WillBe(r, d, "log", s.log)
             /\ s.id = None => /\ WillBe(r, d, "edition", s.edition)
                               /\ WillBe(r, d, "ipv6", None) \/ WillBe(r, d, "ipv6", s.ipv6)
             /\ s.bw # None => WillBe(r, d, "bw", s.bw)
             /\ (\E k \in Key : s.tags[k] # None) => WillBe(r, d, "custom", s.tags)
             /\ s.group # None => WillBe(r, d, "group", s.group)
    BY <1>1, <1>2, <2>1
  <2>3. Aims(c, sp, r, d)
    BY <2>2 DEF Aims, s
  <2> QED
    BY <2>3 DEF r, d
<1> QED
  BY <1>4, <1>5

\* An ALB that agrees with the spec is not updated, except that the IPv6 address
\* type of the user's ALB may be.
LEMMA AgreesNoUpdate ==
  ASSUME NEW c, NEW sp \in Specs, NEW b, Agrees(c, sp, b), sp.id = None \/ sp.force
  PROVE  LET q == UpdateALB(BuildSpec(c, sp), b)
         IN  Touches(q) \subseteq {"ipv6"} /\ (q # <<>> => sp.id # None)
<1> DEFINE s == BuildSpec(c, sp)
           q == UpdateALB(s, b)
           I == Ipv6Calls(s, b)
<1>1. /\ s.id = sp.id /\ s.force = sp.force
      /\ s.ipv6 \in {"Internet", "Intranet"} /\ s.tags = [k \in Key |-> s.tags[k]]
  BY BuiltFields
<1>2. /\ b.name = s.name /\ b.mod /\ b.prot /\ b.log = s.log
      /\ s.id = None => b.edition = s.edition /\ b.ipv6 \in {None, s.ipv6}
      /\ s.bw # None => b.bw = s.bw
      /\ (\E k \in Key : s.tags[k] # None) => b.custom = s.tags
      /\ s.group # None => b.group = s.group
  BY <1>1 DEF Agrees
<1> HIDE DEF s
<1>3. AttributeCalls(s, b) = <<>> /\ DeletionProtectionCalls(b) = <<>>
  BY <1>2 DEF AttributeCalls, DeletionProtectionCalls, When
<1>4. AccessLogCalls(s, b) = <<>> /\ EditionCalls(s, b) = <<>> /\ BandWidthPackageCalls(s, b) = <<>>
  BY <1>2 DEF AccessLogCalls, EditionCalls, BandWidthPackageCalls
<1>5. <<>> \o <<>> = <<>>
  OBVIOUS
<1>6. TagCalls(s, b) = <<>>
  <2> DEFINE keep == [k \in Key |-> IF s.tags[k] = None THEN None ELSE b.custom[k]]
  <2>1. TagCalls(s, b) = IF \A k \in Key : s.tags[k] = None THEN <<>>
                         ELSE When(keep # b.custom, UnTag(keep))
                              \o When(s.tags # keep, TagWithoutResourceTags(s, keep))
    BY DEF TagCalls
  <2>2. CASE \A k \in Key : s.tags[k] = None
    BY <2>1, <2>2
  <2>3. CASE \E k \in Key : s.tags[k] # None
    <3>1. keep = s.tags /\ keep = b.custom
      BY <1>1, <1>2, <2>3
    <3> HIDE DEF keep
    <3> QED
      BY <1>5, <2>1, <2>3, <3>1 DEF When
  <2> QED
    BY <2>2, <2>3
<1>7. ResourceGroupCalls(s, b) = <<>>
  BY <1>2 DEF ResourceGroupCalls, When
<1>8. Calls(I) /\ Touches(I) \subseteq {"ipv6"} /\ (s.id = None => I = <<>>)
  <2>1. Calls(I) /\ Touches(I) \subseteq {"ipv6"}
    BY <1>1, Ipv6Segment
  <2>2. s.id = None => I = <<>>
    BY <1>2 DEF Ipv6Calls, When
  <2> QED
    BY <2>1, <2>2
<1> HIDE DEF I
<1>9. q = <<>> \o <<>> \o I \o <<>> \o <<>> \o <<>> \o <<>> \o <<>>
  BY <1>3, <1>4, <1>6, <1>7 DEF UpdateALB, I
<1> HIDE DEF q
<1>10. /\ Calls(<<>> \o I) /\ Touches(<<>> \o I) = Touches(I)
       /\ \A r : Calls(r) => Calls(r \o <<>>) /\ Touches(r \o <<>>) = Touches(r)
  <2>1. ASSUME NEW r, Calls(r) PROVE Calls(r \o <<>>) /\ Touches(r \o <<>>) = Touches(r)
    BY <2>1, NoCalls, CatCalls
  <2>2. Calls(<<>> \o I) /\ Touches(<<>> \o I) = Touches(I)
    BY <1>8, NoCalls, CatCalls
  <2> QED
    BY <2>1, <2>2
<1>11. Touches(q) = Touches(I)
  BY <1>5, <1>9, <1>10
<1>12. s.id = None => q = <<>>
  BY <1>5, <1>8, <1>9
<1> QED
  BY <1>1, <1>8, <1>11, <1>12 DEF q, s

\* A call for the IPv6 address type leaves the user's ALB in line.
LEMMA Ipv6KeepsServed ==
  ASSUME NEW c, NEW sp \in Specs, sp.id # None, NEW b, ALBRecord(b), NEW x,
         DOMAIN x \subseteq {"ipv6"}, Served(c, sp, b)
  PROVE  Served(c, sp, Done(x, b))
<1> DEFINE d == Done(x, b)
<1>1. \A f \in DOMAIN Free \ {"ipv6"} : d[f] = b[f]
  BY DEF ALBRecord, Done
<1>2. {"state", "tag", "name", "mod", "prot", "log", "edition", "bw", "custom", "group"}
        \subseteq DOMAIN Free \ {"ipv6"}
  BY DEF Free
<1>3. BuildSpec(c, sp).id # None
  BY BuiltFields
<1> HIDE DEF d
<1>4. /\ d.state = b.state /\ d.tag = b.tag /\ d.name = b.name /\ d.mod = b.mod /\ d.prot = b.prot
      /\ d.log = b.log /\ d.bw = b.bw /\ d.custom = b.custom /\ d.group = b.group
  BY <1>1, <1>2
<1>5. Served(c, sp, d)
  BY <1>3, <1>4 DEF Served, Agrees
<1> QED
  BY <1>5 DEF d

-----------------------------------------------------------------------------
(* The account is kept: what concerns other AlbConfigs, and what an up to  *)
(* date label tells                                                        *)

\* No ALB is of two AlbConfigs.
LEMMA MineUnique ==
  ASSUME Unshared, NEW c \in AlbConfig, NEW d \in AlbConfig, NEW l \in LB, Mine(c, l), Mine(d, l)
  PROVE  c = d
<1>1. l # None
  BY AlbAssumption
<1> QED
  BY <1>1 DEF Mine, Unshared

\* The ALBs that the pass and the status name are the AlbConfig's own.
LEMMA NamedMine ==
  ASSUME NEW R, GuardInv, NEW c \in AlbConfig, SyncFits(R, c)
  PROVE  /\ pass[c].lb \in LB \cup {None}
         /\ pass[c].lb # None => pass[c].lb \in LB /\ Mine(c, pass[c].lb)
         /\ api[c] # None => /\ api[c] \in Object
                             /\ api[c].status \in LB \cup {None}
                             /\ api[c].status # None => api[c].status \in LB /\ Mine(c, api[c].status)
<1>1. PassRecord(pass[c]) /\ api[c] \in Object \cup {None} /\ OwnFits(c)
  BY DEF GuardInv, Shapes, SyncFits
<1>2. pass[c].lb \in LB \cup {None}
  BY <1>1 DEF PassRecord
<1>3. api[c] # None => api[c] \in Object /\ api[c].status \in LB \cup {None}
  BY <1>1 DEF Object
<1> QED
  BY <1>1, <1>2, <1>3 DEF OwnFits

\* An AlbConfig that a step does not concern stays accounted for.
LEMMA FrameSync ==
  ASSUME NEW R, GuardInv, NEW c \in AlbConfig, SyncFits(R, c),
         pass'[c] = pass[c], api'[c] = api[c], cached'[c] = cached[c],
         c \in queue => c \in queue',
         \A l \in LB : Mine(c, l) => lb'[l] = lb[l],
         Listed(c)' \subseteq Listed(c)
  PROVE  SyncFits(R, c)'
<1> DEFINE p == pass[c]
           o == api[c]
<1>1. /\ p.lb \in LB \cup {None}
      /\ p.lb # None => p.lb \in LB /\ Mine(c, p.lb)
      /\ o # None => o.status \in LB \cup {None}
      /\ o # None /\ o.status # None => o.status \in LB /\ Mine(c, o.status)
  BY NamedMine
<1>2. ListingFits(c)
  BY DEF GuardInv
<1>3. /\ p.lb # None => lb'[p.lb] = lb[p.lb]
      /\ o # None /\ o.status # None => lb'[o.status] = lb[o.status]
      /\ None \notin LB
  BY <1>1, AlbAssumption
<1>4. \A l \in LB : Mine(c, l) => Mine(c, l)'
  BY DEF Mine
<1>5. OrderFits(R, c)' /\ Account(c)'
  <2>1. \A l \in LB : Served(c, o.spec, lb[l]) => lb'[l] = lb[l]
    BY DEF Served, SyncFits, OwnFits, Listed
  <2>2. \A l \in LB \ UserLB : lb[l].by = c /\ lb[l].state = "gone" => lb'[l] = lb[l]
    BY DEF Mine
  <2>3. RestsUnnamed(c) => RestsUnnamed(c)'
    <3>1. (\E l \in LB : Served(c, o.spec, lb[l])) => \E l \in LB : Served(c, o.spec, lb'[l])
      BY <2>1
    <3>2. GoneUnnamed(c) => GoneUnnamed(c)'
      BY <2>2 DEF GoneUnnamed
    <3> QED
      BY <3>1, <3>2 DEF RestsUnnamed
  <2>4. OrderFits(R, c)'
    BY DEF SyncFits, OrderFits, Older
  <2>5. Account(c)'
    BY <2>3 DEF SyncFits, Account
  <2> QED
    BY <2>4, <2>5
<1>6. OwnFits(c)'
  <2>1. \A l \in Listed(c)' : Mine(c, l)'
    BY <1>4 DEF SyncFits, OwnFits, Listed
  <2> QED
    BY <1>1, <1>4, <2>1 DEF SyncFits, OwnFits
<1>7. CallsAim(c) /\ p.pc = "calls" => CallsAim(c)'
  BY <1>3 DEF CallsAim
<1>8. PassFits(c)'
  BY <1>2, <1>3, <1>7 DEF SyncFits, PassFits, ListingFits
<1>9. o # None => (Orphaned(c)' <=> Orphaned(c))
  BY <1>3 DEF Orphaned
<1>10. LabelFits(c)'
  BY <1>3, <1>9 DEF SyncFits, LabelFits
<1>11. OrphanFits(c)'
  BY <1>9 DEF SyncFits, OrphanFits
<1> QED
  BY <1>5, <1>6, <1>8, <1>10, <1>11 DEF SyncFits

\* A step of one AlbConfig that changes its own ALBs only.
LEMMA SyncStep ==
  ASSUME NEW R, GuardInv, SyncInv(R), NEW c \in AlbConfig,
         \A d \in AlbConfig \ {c} :
           /\ pass'[d] = pass[d] /\ api'[d] = api[d] /\ cached'[d] = cached[d]
           /\ d \in queue => d \in queue'
           /\ \A l \in LB : Mine(d, l) => lb'[l] = lb[l]
           /\ Listed(d)' \subseteq Listed(d),
         SyncFits(R, c)'
  PROVE  SyncInv(R)'
<1>1. ASSUME NEW d \in AlbConfig \ {c} PROVE SyncFits(R, d)'
  BY FrameSync DEF SyncInv
<1> QED
  BY <1>1 DEF SyncInv

\* A label that is up to date: the pass works with what the API server has, the
\* AlbConfig is not being deleted, and an ALB that the pass calls for agrees.
LEMMA UpToDate ==
  ASSUME NEW R, Onwards(R), GuardInv, NEW c \in AlbConfig, SyncFits(R, c),
         api[c] # None, ~HashChanged(api[c])
  PROVE  /\ api[c].label = <<api[c].spec, FALSE>> /\ ~api[c].deleting
         /\ cached[c] # None /\ cached[c].spec = api[c].spec
         /\ pass[c].pc \notin {"idle", "finalizer"} =>
              /\ pass[c].obj \in Object /\ ~pass[c].obj.deleting
              /\ pass[c].obj.spec = api[c].spec
         /\ pass[c].pc = "calls" => /\ pass[c].lb = api[c].status /\ pass[c].lb \in LB
                                    /\ Served(c, pass[c].obj.spec, lb[pass[c].lb])
<1> DEFINE p == pass[c]
           o == api[c]
           d == cached[c]
<1>1. /\ o \in Object /\ d \in Object \cup {None} /\ p.obj \in Object \cup {None} /\ p.lb \in LB \cup {None}
  BY DEF GuardInv, Shapes, PassRecord
<1>2. o.label = <<o.spec, o.deleting>> /\ o.spec \in Specs /\ o.deleting \in BOOLEAN
  BY <1>1 DEF HashChanged, Hash, Object
<1>3. o.label # None /\ o.label[1] = o.spec /\ o.label[2] = o.deleting
  BY <1>2, InputAssumption
<1>4. ~o.deleting /\ d # None /\ Older(R, o.spec, d.spec) /\ Older(R, d.spec, o.spec)
  BY <1>3 DEF SyncFits, OrderFits
<1>5. d.spec \in Specs
  BY <1>1, <1>4 DEF Object
<1>6. d.spec = o.spec
  BY <1>2, <1>4, <1>5 DEF Onwards, Older
<1>7. ASSUME p.pc \notin {"idle", "finalizer"}
      PROVE  p.obj \in Object /\ ~p.obj.deleting /\ p.obj.spec = o.spec
  <2>1. p.obj \in Object /\ ~p.obj.deleting
    BY <1>1, <1>4, <1>7 DEF GuardInv, CopiesFit
  <2>2. Older(R, o.spec, p.obj.spec) /\ Older(R, p.obj.spec, d.spec)
    BY <1>3, <1>7 DEF SyncFits, OrderFits
  <2>3. p.obj.spec \in Specs
    BY <2>1 DEF Object
  <2> QED
    BY <1>2, <1>6, <2>1, <2>2, <2>3 DEF Onwards, Older
<1>8. ASSUME p.pc = "calls"
      PROVE  p.lb = o.status /\ p.lb \in LB /\ Served(c, p.obj.spec, lb[p.lb])
  <2>1. ~Orphaned(c)
    BY <1>4, <1>8 DEF SyncFits, OrphanFits
  <2>2. o.status \in LB /\ Served(c, o.spec, lb[o.status])
    BY <2>1 DEF SyncFits, LabelFits
  <2>3. o.status \in Listed(c)
    BY <2>2 DEF Served, Listed
  <2>4. Listed(c) \subseteq {p.lb}
    BY <1>8 DEF GuardInv, ListingFits, CallsFit
  <2>5. p.lb = o.status
    BY <2>3, <2>4
  <2>6. p.obj.spec = o.spec
    BY <1>7, <1>8
  <2> QED
    BY <2>2, <2>5, <2>6
<1> QED
  BY <1>2, <1>4, <1>6, <1>7, <1>8

\* A pass ends with an error.
LEMMA EndSync ==
  ASSUME NEW R, GuardInv, NEW c \in AlbConfig, SyncFits(R, c),
         pass'[c] = Resting, api'[c] = api[c], cached'[c] = cached[c], lb' = lb, c \in queue'
  PROVE  SyncFits(R, c)'
<1>1. /\ Resting.pc = "idle" /\ Resting.lb = None /\ ~Resting.doomed
  BY DEF Resting
<1>2. \A l : Mine(c, l)' <=> Mine(c, l)
  BY DEF Mine
<1>3. Listed(c)' = Listed(c)
  BY DEF Listed
<1>4. api[c] # None => (Orphaned(c)' <=> Orphaned(c))
  BY DEF Orphaned
<1>5. OrderFits(R, c)' /\ Account(c)'
  BY <1>1 DEF SyncFits, OrderFits, Account, Older
<1>6. OwnFits(c)'
  BY <1>1, <1>2, <1>3 DEF SyncFits, OwnFits
<1>7. PassFits(c)'
  BY <1>1 DEF SyncFits, PassFits
<1>8. LabelFits(c)' /\ OrphanFits(c)'
  BY <1>1, <1>3, <1>4 DEF SyncFits, LabelFits, OrphanFits
<1> QED
  BY <1>5, <1>6, <1>7, <1>8 DEF SyncFits

-----------------------------------------------------------------------------
(* The account is kept: one lemma per group of actions                     *)

\* The account holds at first.
LEMMA SyncInit ==
  ASSUME NEW R, Onwards(R), Init
  PROVE  SyncInv(R)
<1>1. GuardInv
  BY GuardInit
<1>2. PICK s \in [AlbConfig -> InitSpec] :
        api = [c \in AlbConfig |-> [spec |-> s[c], deleting |-> FALSE, fin |-> FALSE,
                                    status |-> None, label |-> None]]
  BY DEF Init
<1>3. /\ cached = api /\ queue = AlbConfig /\ pass = [c \in AlbConfig |-> Resting]
      /\ lb = [l \in LB |-> IF l \in UserLB THEN UserAttrs ELSE Free]
  BY DEF Init
<1> SUFFICES ASSUME NEW c \in AlbConfig PROVE SyncFits(R, c)
  BY DEF SyncInv
<1>4. /\ pass[c].pc = "idle" /\ pass[c].lb = None /\ ~pass[c].doomed /\ c \in queue
  BY <1>3 DEF Resting
<1>5. /\ api[c].spec \in Specs /\ ~api[c].deleting /\ api[c].status = None /\ api[c].label = None
      /\ cached[c] = api[c]
  BY <1>2, <1>3 DEF Specs
<1>6. \A l \in LB : lb[l].tag = None
  BY <1>3, InputAssumption DEF Free
<1>7. Listed(c) = {}
  BY <1>6, AlbAssumption DEF Listed
<1>8. Older(R, api[c].spec, api[c].spec)
  BY <1>5 DEF Onwards, Older
<1>9. HashChanged(api[c])
  <2>1. api[c].deleting = FALSE
    BY <1>2
  <2>2. <<api[c].spec, api[c].deleting>> \in Specs \X BOOLEAN
    BY <1>5, <2>1
  <2> QED
    BY <1>5, <2>2, InputAssumption DEF HashChanged, Hash
<1>10. OrderFits(R, c)
  BY <1>4, <1>5, <1>8 DEF OrderFits
<1>11. Account(c) /\ OwnFits(c) /\ PassFits(c) /\ LabelFits(c)
  BY <1>4, <1>5, <1>7, <1>9 DEF Account, OwnFits, PassFits, LabelFits
<1>12. OrphanFits(c)
  BY <1>5 DEF OrphanFits, Orphaned
<1> QED
  BY <1>10, <1>11, <1>12 DEF SyncFits

\* A step that leaves the ALBs alone and concerns one AlbConfig.
LEMMA SyncMove ==
  ASSUME NEW R, GuardInv, SyncInv(R), NEW c \in AlbConfig, lb' = lb,
         \A d \in AlbConfig \ {c} :
           /\ pass'[d] = pass[d] /\ api'[d] = api[d] /\ cached'[d] = cached[d]
           /\ d \in queue => d \in queue',
         SyncFits(R, c)'
  PROVE  SyncInv(R)'
<1>1. \A d \in AlbConfig : Listed(d)' \subseteq Listed(d)
  BY DEF Listed
<1> QED
  BY <1>1, SyncStep

\* The user edits the spec: the label cannot be up to date by that.
LEMMA EditSync ==
  ASSUME NEW R, Onwards(R), IdsKept, GuardInv, SyncInv(R), NEW c \in AlbConfig, EditSpec(c)
  PROVE  SyncInv(R)'
<1> DEFINE o == api[c]
           n == api'[c]
<1>1. PICK e \in Edit : e[1] = o.spec /\ api' = [api EXCEPT ![c].spec = e[2]]
  BY DEF EditSpec
<1>2. /\ o # None /\ o \in Object /\ ~o.deleting /\ UNCHANGED <<cached, queue, pass, lb>>
      /\ SyncFits(R, c) /\ CopiesFit(c)
  BY DEF EditSpec, GuardInv, Shapes, SyncInv
<1>3. /\ n = [o EXCEPT !.spec = e[2]] /\ \A d \in AlbConfig \ {c} : api'[d] = api[d]
  BY <1>1, <1>2 DEF GuardInv, Shapes
<1>4. /\ n.spec = e[2] /\ n.deleting = o.deleting /\ n.fin = o.fin /\ n.status = o.status
      /\ n.label = o.label /\ n \in Object /\ e[2] \in Specs
  BY <1>2, <1>3 DEF Object, Specs
<1>5. n # None
  BY <1>4, InputAssumption
<1>6. Older(R, o.spec, n.spec) /\ n.spec.id = o.spec.id /\ o.spec \in Specs /\ n.spec \in Specs
  BY <1>1, <1>2, <1>4 DEF Onwards, Older, IdsKept, Object
<1>7. cached[c] # None /\ Older(R, cached[c].spec, o.spec) /\ cached[c].spec \in Specs
  BY <1>2 DEF SyncFits, OrderFits, GuardInv, Shapes, Object
<1>8. Older(R, cached[c].spec, n.spec)
  BY <1>6, <1>7 DEF Onwards, Older
<1>9. cached[c].spec = n.spec => n.spec = o.spec
  BY <1>6, <1>7 DEF Onwards, Older
<1>10. ~HashChanged(n) => n.spec = o.spec
  <2> SUFFICES ASSUME ~HashChanged(n) PROVE n.spec = o.spec
    OBVIOUS
  <2>1. o.label = <<n.spec, n.deleting>> /\ n.deleting \in BOOLEAN
    BY <1>4 DEF HashChanged, Hash, Object
  <2>2. o.label # None /\ o.label[1] = n.spec
    BY <1>6, <2>1, InputAssumption
  <2>3. Older(R, n.spec, cached[c].spec)
    BY <1>2, <2>2 DEF SyncFits, OrderFits
  <2> QED
    BY <1>6, <1>7, <1>8, <1>9, <2>3 DEF Onwards, Older
<1>11. ~HashChanged(n) => ~HashChanged(o)
  BY <1>4, <1>10 DEF HashChanged, Hash
<1> HIDE DEF n
<1>12. OrderFits(R, c)'
  BY <1>2, <1>4, <1>5, <1>8 DEF SyncFits, OrderFits, Older, n
<1>13. Account(c)'
  <2>1. CASE n.spec = o.spec
    BY <1>2, <1>4, <2>1 DEF SyncFits, Account, HashChanged, Hash, RestsUnnamed, GoneUnnamed, n
  <2>2. CASE n.spec # o.spec
    BY <1>2, <1>4, <1>9, <2>2 DEF Account, Hash, n
  <2> QED
    BY <2>1, <2>2
<1>14. OwnFits(c)'
  <2>1. \A l : Mine(c, l) => Mine(c, l)'
    BY <1>2, <1>5, <1>6 DEF Mine, n
  <2>2. Listed(c)' = Listed(c)
    BY <1>2 DEF Listed
  <2> QED
    BY <1>2, <1>4, <1>5, <2>1, <2>2 DEF SyncFits, OwnFits, n
<1>15. CallsAim(c) => CallsAim(c)'
  BY <1>2, <1>4, <1>11 DEF CallsAim, n
<1>16. PassFits(c)'
  BY <1>2, <1>4, <1>11, <1>15 DEF SyncFits, PassFits, n
<1>17. Orphaned(c)' <=> Orphaned(c)
  BY <1>2, <1>4 DEF Orphaned, n
<1>18. LabelFits(c)' /\ OrphanFits(c)'
  <2>1. Listed(c)' = Listed(c)
    BY <1>2 DEF Listed
  <2>2. LabelFits(c)'
    BY <1>2, <1>4, <1>10, <1>11, <1>17 DEF SyncFits, LabelFits, n
  <2>3. OrphanFits(c)'
    BY <1>2, <1>4, <1>17, <2>1 DEF SyncFits, OrphanFits, n
  <2> QED
    BY <2>2, <2>3
<1>19. SyncFits(R, c)'
  BY <1>12, <1>13, <1>14, <1>16, <1>18 DEF SyncFits
<1> QED
  BY <1>2, <1>3, <1>19, SyncMove

\* The user deletes the AlbConfig.
LEMMA DeleteSync ==
  ASSUME NEW R, GuardInv, SyncInv(R), NEW c \in AlbConfig, DeleteAlbConfig(c)
  PROVE  SyncInv(R)'
<1> DEFINE o == api[c]
           n == api'[c]
           p == pass[c]
<1>1. /\ o # None /\ o \in Object /\ ~o.deleting /\ UNCHANGED <<cached, queue, pass, lb>>
      /\ SyncFits(R, c) /\ CopiesFit(c) /\ ListingFits(c)
      /\ api' = [api EXCEPT ![c] = IF @.fin THEN [@ EXCEPT !.deleting = TRUE] ELSE None]
  BY DEF DeleteAlbConfig, GuardInv, Shapes, SyncInv
<1>2. /\ n = (IF o.fin THEN [o EXCEPT !.deleting = TRUE] ELSE None)
      /\ \A d \in AlbConfig \ {c} : api'[d] = api[d]
  BY <1>1 DEF GuardInv, Shapes
<1>3. Listed(c)' = Listed(c)
  BY <1>1 DEF Listed
<1> HIDE DEF n
<1>4. CASE ~o.fin
  <2>1. n = None
    BY <1>2, <1>4
  <2>2. p.pc \in {"idle", "finalizer"} /\ Listed(c) = {}
    BY <1>1, <1>4 DEF CopiesFit, ListingFits
  <2>3. p.lb = None /\ ~p.doomed
    BY <1>1, <2>2 DEF SyncFits, OwnFits, PassFits
  <2>4. OrderFits(R, c)' /\ Account(c)'
    BY <1>1, <2>1 DEF SyncFits, OrderFits, Account, n
  <2>5. OwnFits(c)' /\ PassFits(c)'
    BY <1>1, <1>3, <2>1, <2>2, <2>3 DEF OwnFits, PassFits, n
  <2>6. LabelFits(c)' /\ OrphanFits(c)'
    BY <2>1 DEF LabelFits, OrphanFits, n
  <2> QED
    BY <1>1, <1>2, <2>4, <2>5, <2>6, SyncMove DEF SyncFits
<1>5. CASE o.fin
  <2>1. /\ n.spec = o.spec /\ n.deleting = TRUE /\ n.fin = o.fin /\ n.status = o.status
        /\ n.label = o.label /\ n \in Object
    BY <1>1, <1>2, <1>5 DEF Object
  <2>2. n # None
    BY <2>1, InputAssumption
  <2>3. HashChanged(n)
    <3> SUFFICES ASSUME n.label = <<n.spec, TRUE>> PROVE FALSE
      BY <2>1 DEF HashChanged, Hash
    <3>1. <<n.spec, TRUE>> \in Specs \X BOOLEAN /\ <<n.spec, TRUE>>[2] = TRUE
      BY <2>1 DEF Object
    <3>2. o.label # None /\ o.label[2] = TRUE
      BY <2>1, <3>1, InputAssumption
    <3> QED
      BY <1>1, <3>2 DEF SyncFits, OrderFits
  <2>4. cached[c] # None /\ ~cached[c].deleting
    BY <1>1 DEF SyncFits, OrderFits, CopiesFit
  <2>5. OrderFits(R, c)'
    BY <1>1, <1>5, <2>1, <2>2 DEF SyncFits, OrderFits, Older, n
  <2>6. Account(c)'
    BY <1>1, <2>1, <2>4 DEF Account, Hash, n
  <2>7. OwnFits(c)'
    <3>1. \A l : Mine(c, l) => Mine(c, l)'
      BY <1>1, <2>1, <2>2 DEF Mine, n
    <3> QED
      BY <1>1, <1>3, <2>1, <2>2, <3>1 DEF SyncFits, OwnFits, n
  <2>8. CallsAim(c) => CallsAim(c)'
    BY <1>1, <2>1, <2>3 DEF CallsAim, n
  <2>9. PassFits(c)'
    BY <1>1, <2>1, <2>3, <2>8 DEF SyncFits, PassFits, n
  <2>10. LabelFits(c)' /\ OrphanFits(c)'
    BY <2>1, <2>3 DEF LabelFits, OrphanFits, n
  <2> QED
    BY <1>1, <1>2, <2>5, <2>6, <2>7, <2>9, <2>10, SyncMove DEF SyncFits
<1> QED
  BY <1>4, <1>5

\* The informer sees the AlbConfig as it is.
LEMMA CacheSyncs ==
  ASSUME NEW R, Onwards(R), GuardInv, SyncInv(R), NEW c \in AlbConfig, CacheSync(c)
  PROVE  SyncInv(R)'
<1> DEFINE o == api[c]
           d == cached[c]
           p == pass[c]
<1>1. /\ UNCHANGED <<api, pass, lb>> /\ cached' = [cached EXCEPT ![c] = o]
      /\ queue' = (IF Update(d, o) THEN queue \cup {c} ELSE queue)
      /\ SyncFits(R, c) /\ CopiesFit(c)
  BY DEF CacheSync, GuardInv, SyncInv
<1>2. /\ cached'[c] = o /\ \A e \in AlbConfig \ {c} : cached'[e] = cached[e]
      /\ queue \subseteq queue'
  BY <1>1 DEF GuardInv, Shapes
<1>3. Listed(c)' = Listed(c) /\ \A l : Mine(c, l)' <=> Mine(c, l)
  BY <1>1 DEF Listed, Mine
<1>4. /\ o \in Object \cup {None} /\ d \in Object \cup {None} /\ p.obj \in Object \cup {None}
  BY DEF GuardInv, Shapes, PassRecord
<1>5. OwnFits(c)'
  BY <1>1, <1>3 DEF SyncFits, OwnFits
<1>6. PassFits(c)'
  <2>1. CallsAim(c) => CallsAim(c)'
    BY <1>1 DEF CallsAim
  <2> QED
    BY <1>1, <2>1 DEF SyncFits, PassFits
<1>7. LabelFits(c)' /\ OrphanFits(c)'
  BY <1>1, <1>2, <1>3 DEF SyncFits, LabelFits, OrphanFits, Orphaned
<1>8. Account(c)'
  <2> SUFFICES ASSUME o # None, HashChanged(o), c \notin queue', p.pc # "finalizer"
               PROVE  \/ p.pc \notin {"idle", "finalizer"} /\ Hash(p.obj) = Hash(o)
                      \/ RestsUnnamed(c)
    BY <1>1 DEF Account, RestsUnnamed, GoneUnnamed
  <2>1. ~Update(d, o) /\ c \notin queue
    BY <1>1
  <2>2. Hash(d) = Hash(o)
    BY <2>1 DEF Update
  <2> QED
    BY <1>1, <2>1, <2>2 DEF SyncFits, Account
<1>9. OrderFits(R, c)'
  <2>1. CASE o = None
    BY <1>1, <1>2, <2>1 DEF SyncFits, OrderFits
  <2>2. CASE o # None
    <3>1. /\ d # None /\ o.spec \in Specs /\ d.spec \in Specs
      BY <1>1, <1>4, <2>2 DEF SyncFits, OrderFits, Object
    <3>2. Older(R, o.spec, o.spec) /\ Older(R, d.spec, o.spec)
      BY <1>1, <2>2, <3>1 DEF SyncFits, OrderFits, Onwards, Older
    <3>3. p.pc # "idle" => Older(R, p.obj.spec, o.spec)
      <4> SUFFICES ASSUME p.pc # "idle" PROVE Older(R, p.obj.spec, o.spec)
        OBVIOUS
      <4>1. p.obj.spec \in Specs
        BY <1>1, <1>4 DEF CopiesFit, Object
      <4>2. Older(R, p.obj.spec, d.spec)
        BY <1>1, <2>2 DEF SyncFits, OrderFits
      <4> QED
        BY <3>1, <3>2, <4>1, <4>2 DEF Onwards, Older
    <3>4. o.label # None => Older(R, o.label[1], o.spec)
      <4> SUFFICES ASSUME o.label # None PROVE Older(R, o.label[1], o.spec)
        OBVIOUS
      <4>1. o.label[1] \in Specs
        BY <1>4, <2>2 DEF Object
      <4>2. Older(R, o.label[1], d.spec)
        BY <1>1, <2>2 DEF SyncFits, OrderFits
      <4> QED
        BY <3>1, <3>2, <4>1, <4>2 DEF Onwards, Older
    <3>5. ASSUME p.pc = "finalizer", o.deleting PROVE c \in queue'
      <4>1. CASE d.deleting
        BY <1>1, <1>2, <3>1, <3>5, <4>1 DEF SyncFits, OrderFits
      <4>2. CASE ~d.deleting
        <5>1. Hash(d) # Hash(o)
          BY <3>5, <4>2 DEF Hash
        <5>2. HashChanged(o)
          <6> SUFFICES ASSUME o.label = <<o.spec, o.deleting>> PROVE FALSE
            BY DEF HashChanged, Hash
          <6>1. /\ <<o.spec, o.deleting>> \in Specs \X BOOLEAN
                /\ <<o.spec, o.deleting>>[2] = o.deleting
            BY <1>4, <2>2 DEF Object
          <6>2. o.label # None /\ o.label[2] = o.deleting
            BY <6>1, InputAssumption
          <6> QED
            BY <1>1, <2>2, <3>5, <6>2 DEF SyncFits, OrderFits
        <5> QED
          BY <1>1, <2>2, <5>1, <5>2 DEF Update
      <4> QED
        BY <4>1, <4>2
    <3> QED
      BY <1>1, <1>2, <2>2, <3>2, <3>3, <3>4, <3>5 DEF SyncFits, OrderFits, Older
  <2> QED
    BY <2>1, <2>2
<1> QED
  BY <1>1, <1>2, <1>5, <1>6, <1>7, <1>8, <1>9, SyncMove DEF SyncFits

\* A pass starts, or its turn comes to nothing.
LEMMA ReconcileSync ==
  ASSUME NEW R, Onwards(R), GuardInv, SyncInv(R), NEW c \in AlbConfig, Reconcile(c)
  PROVE  SyncInv(R)'
<1> DEFINE o == cached[c]
           p == pass[c]
           a == api[c]
           r == [Resting EXCEPT !.pc = IF o.deleting THEN "apply" ELSE "finalizer",
                                !.obj = o, !.reuse = (o.spec.id # None), !.clean = o.deleting]
<1>1. /\ UNCHANGED <<api, cached, lb>> /\ queue' = queue \ {c} /\ p.pc = "idle"
      /\ SyncFits(R, c) /\ CopiesFit(c) /\ o \in Object \cup {None}
  BY DEF Reconcile, GuardInv, Shapes, SyncInv
<1>2. /\ pass'[c] = (IF o = None \/ (o.deleting /\ ~o.fin) THEN Resting ELSE r)
      /\ \A d \in AlbConfig \ {c} : pass'[d] = pass[d]
  BY DEF Reconcile, Go, GuardInv, Shapes
<1>3. Listed(c)' = Listed(c) /\ \A l : Mine(c, l)' <=> Mine(c, l)
  BY <1>1 DEF Listed, Mine
<1>4. a # None => (Orphaned(c)' <=> Orphaned(c))
  BY <1>1 DEF Orphaned
<1>5. LabelFits(c)'
  BY <1>1, <1>4 DEF SyncFits, LabelFits
<1>6. CASE o = None
  <2>1. a = None
    BY <1>1, <1>6 DEF SyncFits, OrderFits
  <2>2. pass'[c].pc = "idle" /\ pass'[c].lb = None /\ ~pass'[c].doomed
    BY <1>2, <1>6 DEF Resting
  <2>3. OrderFits(R, c)' /\ Account(c)'
    BY <1>1, <1>6, <2>1, <2>2 DEF OrderFits, Account
  <2>4. OwnFits(c)' /\ PassFits(c)' /\ OrphanFits(c)'
    BY <1>1, <1>3, <2>1, <2>2 DEF SyncFits, OwnFits, PassFits, OrphanFits
  <2> QED
    BY <1>1, <1>2, <1>5, <2>3, <2>4, SyncMove DEF SyncFits
<1>7. CASE o # None
  <2>1. o \in Object /\ ~(o.deleting /\ ~o.fin) /\ o.spec \in Specs
    BY <1>1, <1>7 DEF SyncFits, OrderFits, Object
  <2>2. /\ pass'[c].pc = (IF o.deleting THEN "apply" ELSE "finalizer")
        /\ pass'[c].obj = o /\ pass'[c].clean = o.deleting
        /\ pass'[c].lb = None /\ ~pass'[c].doomed
    <3>1. pass'[c] = r
      BY <1>2, <1>7, <2>1
    <3> QED
      BY <3>1 DEF Resting
  <2>3. Older(R, o.spec, o.spec)
    BY <2>1 DEF Onwards, Older
  <2>4. OrderFits(R, c)'
    BY <1>1, <1>7, <2>2, <2>3 DEF SyncFits, OrderFits, Older
  <2>5. Account(c)'
    BY <1>1, <2>2 DEF Account
  <2>6. OwnFits(c)' /\ PassFits(c)'
    BY <1>1, <1>3, <2>2 DEF SyncFits, OwnFits, PassFits
  <2>7. OrphanFits(c)'
    BY <1>1, <1>3, <1>4, <2>2 DEF SyncFits, OrphanFits, Orphaned
  <2> QED
    BY <1>1, <1>2, <1>5, <2>4, <2>5, <2>6, <2>7, SyncMove DEF SyncFits
<1> QED
  BY <1>6, <1>7

\* The finalizer is there: the pass goes by the read that showed it.
LEMMA FinalizerSync ==
  ASSUME NEW R, Onwards(R), GuardInv, SyncInv(R), NEW c \in AlbConfig, AddFinalizers(c)
  PROVE  SyncInv(R)'
<1> DEFINE o == cached[c]
           p == pass[c]
           a == api[c]
           n == api'[c]
           r == pass'[c]
<1>1. /\ UNCHANGED <<cached, queue, lb>> /\ p.pc = "finalizer" /\ o # None /\ (o.fin \/ o = a)
      /\ api' = (IF o.fin THEN api ELSE [api EXCEPT ![c].fin = TRUE])
      /\ SyncFits(R, c) /\ CopiesFit(c) /\ o \in Object /\ a \in Object \cup {None}
      /\ PassRecord(p)
  BY DEF AddFinalizers, GuardInv, Shapes, SyncInv
<1>2. /\ r = [p EXCEPT !.pc = "apply", !.obj = [o EXCEPT !.fin = TRUE]]
      /\ \A d \in AlbConfig \ {c} : pass'[d] = pass[d] /\ api'[d] = api[d]
  BY DEF AddFinalizers, Go, GuardInv, Shapes
<1>3. /\ r.pc = "apply" /\ r.obj.spec = o.spec /\ r.obj.deleting = o.deleting
      /\ r.obj.status = o.status /\ r.lb = p.lb /\ r.doomed = p.doomed /\ r.clean = p.clean
  BY <1>1, <1>2 DEF PassRecord, Object
<1>4. n = (IF o.fin THEN a ELSE [a EXCEPT !.fin = TRUE])
  BY <1>1 DEF GuardInv, Shapes
<1> HIDE DEF n, r
<1>5. a = None => n = None
  BY <1>1, <1>4
<1>6. a # None => /\ n # None /\ n.spec = a.spec /\ n.deleting = a.deleting /\ n.status = a.status
                  /\ n.label = a.label /\ (a.fin => n.fin)
  <2> SUFFICES ASSUME a # None
               PROVE  /\ n # None /\ n.spec = a.spec /\ n.deleting = a.deleting
                      /\ n.status = a.status /\ n.label = a.label /\ (a.fin => n.fin)
    OBVIOUS
  <2>1. CASE o.fin
    BY <1>4, <2>1
  <2>2. CASE ~o.fin
    <3>1. a \in Object /\ n = [a EXCEPT !.fin = TRUE]
      BY <1>1, <1>4, <2>2
    <3>2. /\ n \in Object /\ n.spec = a.spec /\ n.deleting = a.deleting
          /\ n.status = a.status /\ n.label = a.label /\ n.fin = TRUE
      BY <3>1 DEF Object
    <3> QED
      BY <3>2, InputAssumption
  <2> QED
    BY <2>1, <2>2
<1>7. p.lb = None /\ ~p.doomed /\ ~p.clean
  BY <1>1 DEF SyncFits, OwnFits, PassFits, CopiesFit
<1>8. Listed(c)' = Listed(c) /\ \A l : Mine(c, l)' <=> Mine(c, l)
  BY <1>1, <1>5, <1>6 DEF Listed, Mine, n
<1>9. a # None => (Orphaned(c)' <=> Orphaned(c))
  BY <1>1, <1>6 DEF Orphaned, n
<1>10. a # None => (HashChanged(n) <=> HashChanged(a)) /\ Hash(n) = Hash(a)
  BY <1>6 DEF HashChanged, Hash
<1>11. LabelFits(c)'
  BY <1>1, <1>5, <1>6, <1>9, <1>10 DEF SyncFits, LabelFits, n
<1>12. Older(R, o.spec, o.spec)
  BY <1>1 DEF Onwards, Older, Object
<1>13. OrderFits(R, c)'
  BY <1>1, <1>3, <1>5, <1>6, <1>7, <1>12 DEF SyncFits, OrderFits, Older, n, r
<1>14. Account(c)'
  BY <1>1, <1>3 DEF Account, Hash, n, r
<1>15. OwnFits(c)' /\ PassFits(c)'
  BY <1>1, <1>3, <1>5, <1>6, <1>7, <1>8 DEF SyncFits, OwnFits, PassFits, n, r
<1>16. OrphanFits(c)'
  BY <1>1, <1>3, <1>5, <1>6, <1>8, <1>9 DEF SyncFits, OrphanFits, Orphaned, n, r
<1> QED
  BY <1>1, <1>2, <1>11, <1>13, <1>14, <1>15, <1>16, SyncMove DEF SyncFits

\* A pass fails and changed nothing.
LEMMA FailSync ==
  ASSUME NEW R, GuardInv, SyncInv(R), NEW c \in AlbConfig, Fail(c), UNCHANGED <<api, cached, lb>>
  PROVE  SyncInv(R)'
<1>1. /\ pass'[c] = Resting /\ c \in queue' /\ queue \subseteq queue' /\ SyncFits(R, c)
      /\ \A d \in AlbConfig \ {c} : pass'[d] = pass[d]
  BY DEF Fail, Go, GuardInv, Shapes, SyncInv
<1>2. SyncFits(R, c)'
  BY <1>1, EndSync
<1> QED
  BY <1>1, <1>2, SyncMove

\* Releasing an ALB sets no tags.
LEMMA ReleaseTags ==
  ASSUME NEW q \in ReleaseSeqs, NEW x \in CallsOf(q), "tag" \in DOMAIN x
  PROVE  x.tag = None
<1>1. \A y, z : CallsOf(<<>>) = {} /\ CallsOf(<<y>>) = {y} /\ CallsOf(<<y, z>>) \subseteq {y, z}
  BY DEF CallsOf
<1>2. x \in {DeleteLoadBalancer, DisableDeletionProtection, Untag}
  BY <1>1 DEF ReleaseSeqs
<1> QED
  BY <1>2 DEF DeleteLoadBalancer, DisableDeletionProtection, Untag

\* The pass goes on, and nothing else happens.
LEMMA GoesOn ==
  ASSUME NEW R, GuardInv, SyncInv(R), NEW c \in AlbConfig, NEW r, Go(c, r),
         UNCHANGED <<api, cached, queue, lb>>,
         pass[c].pc \notin {"idle", "finalizer"}, r.pc \notin {"idle", "finalizer"},
         r.obj = pass[c].obj, r.clean = pass[c].clean,
         r.pc \in {"status", "label"} => ~r.obj.deleting,
         r.pc \in {"apply", "create"} => r.lb = None,
         r.lb # None => api[c] # None /\ Mine(c, r.lb),
         api[c] # None /\ ~api[c].deleting => ~Orphaned(c),
         PassFits(c)'
  PROVE  SyncInv(R)'
<1>1. /\ pass'[c] = r /\ SyncFits(R, c) /\ \A d \in AlbConfig \ {c} : pass'[d] = pass[d]
  BY DEF Go, GuardInv, Shapes, SyncInv
<1>2. Listed(c)' = Listed(c) /\ \A l : Mine(c, l)' <=> Mine(c, l)
  BY DEF Listed, Mine
<1>3. api[c] # None => (Orphaned(c)' <=> Orphaned(c))
  BY DEF Orphaned
<1>4. OrderFits(R, c)' /\ Account(c)'
  BY <1>1 DEF SyncFits, OrderFits, Account, RestsUnnamed, Older
<1>5. OwnFits(c)'
  BY <1>1, <1>2 DEF SyncFits, OwnFits
<1>6. LabelFits(c)' /\ OrphanFits(c)'
  BY <1>1, <1>3 DEF SyncFits, LabelFits, OrphanFits
<1> QED
  BY <1>1, <1>4, <1>5, <1>6, SyncMove DEF SyncFits

\* The ALB is looked up and the calls are worked out.
LEMMA ApplySync ==
  ASSUME NEW R, Onwards(R), UsersNamed, GuardInv, UserInv, SyncInv(R), NEW c \in AlbConfig, Apply(c)
  PROVE  SyncInv(R)'
<1> DEFINE p == pass[c]
           a == api[c]
           sp == p.obj.spec
           s == BuildSpec(c, sp)
<1>1. /\ Shapes /\ CopiesFit(c) /\ ListingFits(c) /\ PassRecord(p) /\ SyncFits(R, c) /\ UserFits(c)
      /\ a \in Object \cup {None}
  BY DEF GuardInv, Shapes, SyncInv, UserInv
<1>2. UNCHANGED <<api, cached, queue, lb>> /\ p.pc = "apply"
  BY DEF Apply
<1>3. /\ p.obj \in Object /\ p.obj # None /\ sp \in Specs /\ p.reuse = (sp.id # None) /\ ~p.doomed
      /\ s.id = sp.id
  <2>1. p.obj \in Object /\ p.obj # None
    BY <1>1, <1>2 DEF CopiesFit, PassRecord
  <2>2. sp \in Specs
    BY <2>1 DEF Object
  <2>3. p.reuse = (sp.id # None) /\ ~p.doomed
    BY <1>1, <1>2 DEF UserFits, SyncFits, PassFits
  <2> HIDE DEF sp, p
  <2>4. s.id = sp.id
    BY <2>2, BuiltFields
  <2> QED
    BY <2>1, <2>2, <2>3, <2>4
<1>4. Listed(c) # {} \/ p.obj.status = None => (a # None /\ ~a.deleting => ~Orphaned(c))
  BY <1>1, <1>2 DEF SyncFits, OrphanFits
<1>5. p.obj.deleting => (a # None /\ ~a.deleting => ~Orphaned(c))
  BY <1>1, <1>3 DEF CopiesFit
<1>6. ASSUME a # None, ~HashChanged(a), Listed(c) # {} \/ p.obj.status = None
      PROVE  /\ ~p.obj.deleting /\ a.status \in Listed(c) /\ Agrees(c, sp, lb[a.status])
  <2>1. ~a.deleting /\ ~p.obj.deleting /\ sp = a.spec
    BY <1>1, <1>2, <1>6, UpToDate
  <2>2. ~Orphaned(c)
    BY <1>4, <1>6, <2>1
  <2>3. a.status \in LB /\ Served(c, a.spec, lb[a.status])
    BY <1>1, <1>6, <2>2 DEF SyncFits, LabelFits
  <2> QED
    BY <2>1, <2>3 DEF Served, Listed
<1>7. \A l \in Listed(c) : l \in LB /\ a # None /\ Mine(c, l) /\ lb[l].state = "live" /\ lb[l].tag = c
  BY <1>1 DEF ListingFits, SyncFits, OwnFits, Listed
<1>8. ASSUME NEW l, NEW q, Go(c, [p EXCEPT !.pc = "calls", !.lb = l, !.calls = q]),
             l # None => a # None /\ Mine(c, l),
             a # None /\ ~a.deleting => ~Orphaned(c),
             ~p.obj.deleting => l \in LB /\ Aims(c, sp, q, lb[l]) /\ "state" \notin Touches(q),
             ~p.reuse => \A x \in CallsOf(q) : "tag" \in DOMAIN x => x.tag = None,
             a # None /\ ~HashChanged(a) => Touches(q) \subseteq {"ipv6"} /\ (q # <<>> => sp.id # None)
      PROVE  SyncInv(R)'
  <2> DEFINE r == [p EXCEPT !.pc = "calls", !.lb = l, !.calls = q]
  <2>1. /\ r.pc = "calls" /\ r.lb = l /\ r.calls = q
        /\ r.obj = p.obj /\ r.clean = p.clean /\ r.reuse = p.reuse /\ r.doomed = p.doomed
    BY <1>1 DEF PassRecord
  <2> HIDE DEF r
  <2>2. pass'[c] = r
    BY <1>1, <1>8 DEF Go, Shapes, r
  <2>3. CallsAim(c)'
    BY <1>2, <1>3, <1>8, <2>1, <2>2 DEF CallsAim
  <2>4. PassFits(c)'
    BY <2>1, <2>2, <2>3 DEF PassFits
  <2>5. Go(c, r)
    BY <1>8 DEF r
  <2> QED
    BY <1>2, <1>8, <2>1, <2>4, <2>5, GoesOn
<1>9. ASSUME p.obj.deleting, NEW l \in Listed(c),
             Go(c, [p EXCEPT !.pc = "calls", !.lb = l, !.calls = ReleaseCalls(p, lb[l])])
      PROVE  SyncInv(R)'
  <2> DEFINE q == ReleaseCalls(p, lb[l])
  <2>1. q \in ReleaseSeqs
    BY ReleaseCallsFit
  <2>2. \A x \in CallsOf(q) : "tag" \in DOMAIN x => x.tag = None
    BY <2>1, ReleaseTags
  <2>3. ~(a # None /\ ~HashChanged(a))
    BY <1>6, <1>9
  <2> HIDE DEF q
  <2>4. Go(c, [p EXCEPT !.pc = "calls", !.lb = l, !.calls = q])
    BY <1>9 DEF q
  <2> QED
    BY <1>5, <1>7, <1>8, <1>9, <2>2, <2>3, <2>4
<1>10. ASSUME p.obj.deleting, Go(c, [p EXCEPT !.pc = "calls", !.lb = None, !.calls = <<>>])
       PROVE  SyncInv(R)'
  <2>1. ~(a # None /\ ~HashChanged(a))
    BY <1>1, <1>2, <1>10, UpToDate
  <2> QED
    BY <1>5, <1>8, <1>10, <2>1, NoCalls
<1>11. ASSUME ~p.obj.deleting, NEW l \in Listed(c),
              Go(c, [p EXCEPT !.pc = "calls", !.lb = l,
                              !.calls = IF CommonReuse(p) THEN <<>> ELSE UpdateALB(s, lb[l])])
       PROVE  SyncInv(R)'
  <2> DEFINE q == IF CommonReuse(p) THEN <<>> ELSE UpdateALB(s, lb[l])
  <2>1. s.force = sp.force
    BY <1>3, BuiltFields
  <2>2. /\ Aims(c, sp, q, lb[l]) /\ "state" \notin Touches(q) /\ "tag" \notin Touches(q)
    <3>1. CASE CommonReuse(p)
      <4>1. q = <<>> /\ sp.id # None /\ ~sp.force
        BY <1>3, <3>1 DEF CommonReuse
      <4>2. WillBe(<<>>, lb[l], "state", "live") /\ WillBe(<<>>, lb[l], "tag", c)
        BY <1>7, NoCalls
      <4>3. Aims(c, sp, <<>>, lb[l])
        BY <1>3, <2>1, <4>1, <4>2 DEF Aims
      <4> QED
        BY <4>1, <4>3, NoCalls
    <3>2. CASE ~CommonReuse(p)
      <4>1. q = UpdateALB(BuildSpec(c, sp), lb[l])
        BY <3>2
      <4> HIDE DEF q
      <4> QED
        BY <1>3, <1>7, <4>1, UpdateAims
    <3> QED
      BY <3>1, <3>2
  <2>3. ASSUME a # None, ~HashChanged(a)
        PROVE  Touches(q) \subseteq {"ipv6"} /\ (q # <<>> => sp.id # None)
    <3>1. CASE CommonReuse(p)
      BY <3>1, NoCalls
    <3>2. CASE ~CommonReuse(p)
      <4>1. q = UpdateALB(BuildSpec(c, sp), lb[l])
        BY <3>2
      <4>2. a.status = l /\ Agrees(c, sp, lb[l])
        BY <1>1, <1>6, <2>3 DEF ListingFits
      <4>3. sp.id = None \/ sp.force
        BY <1>3, <3>2 DEF CommonReuse
      <4> HIDE DEF q
      <4> QED
        BY <1>3, <4>1, <4>2, <4>3, AgreesNoUpdate
    <3> QED
      BY <3>1, <3>2
  <2>4. Go(c, [p EXCEPT !.pc = "calls", !.lb = l, !.calls = q])
    BY <1>11
  <2> HIDE DEF q
  <2>5. \A x \in CallsOf(q) : "tag" \notin DOMAIN x
    BY <2>2 DEF Touches
  <2> QED
    BY <1>4, <1>7, <1>8, <1>11, <2>2, <2>3, <2>4, <2>5
<1>12. ASSUME ~p.obj.deleting, Listed(c) = {}, MayCreate(p), p.reuse, lb[s.id].state = "live",
              Go(c, [p EXCEPT !.pc = "calls", !.lb = s.id, !.calls = ReuseCalls(c, s, lb[s.id])])
       PROVE  SyncInv(R)'
  <2> DEFINE l == s.id
             q == ReuseCalls(c, s, lb[l])
  <2>1. sp.id # None /\ l = sp.id /\ l \in UserLB /\ l \in LB
    BY <1>3, <1>12, AlbAssumption DEF UsersNamed
  <2>2. a # None /\ a \in Copies(c) /\ p.obj \in Copies(c)
    BY <1>1, <1>2, <1>3, <1>12 DEF CopiesFit, Copies
  <2>3. Mine(c, l)
    BY <1>1, <2>1, <2>2 DEF Mine, UserFits
  <2>4. ALBRecord(lb[l])
    BY <1>1, <2>1 DEF Shapes
  <2>5. Aims(c, sp, q, lb[l]) /\ "state" \notin Touches(q)
    <3>1. lb[l].state = "live" /\ q = ReuseCalls(c, BuildSpec(c, sp), lb[l])
      BY <1>12
    <3> HIDE DEF q, l
    <3> QED
      BY <1>3, <2>1, <2>4, <3>1, ReuseAims
  <2>6. p.obj.status = None
    BY <1>12 DEF MayCreate
  <2>7. ~Orphaned(c) \/ a.deleting
    BY <1>4, <1>6, <1>12, <2>2, <2>6
  <2>8. ~(a # None /\ ~HashChanged(a))
    BY <1>6, <1>12, <2>6
  <2>9. Go(c, [p EXCEPT !.pc = "calls", !.lb = l, !.calls = q])
    BY <1>12
  <2> HIDE DEF q, l
  <2> QED
    BY <1>8, <1>12, <2>1, <2>2, <2>3, <2>5, <2>7, <2>8, <2>9
<1>13. ASSUME ~p.obj.deleting, Listed(c) = {}, MayCreate(p), ~p.reuse, Go(c, [p EXCEPT !.pc = "create"])
       PROVE  SyncInv(R)'
  <2> DEFINE r == [p EXCEPT !.pc = "create"]
  <2>1. /\ r.pc = "create" /\ r.lb = p.lb
        /\ r.obj = p.obj /\ r.clean = p.clean /\ r.reuse = p.reuse /\ r.doomed = p.doomed
    BY <1>1 DEF PassRecord
  <2> HIDE DEF r
  <2>2. pass'[c] = r /\ Go(c, r)
    BY <1>1, <1>13 DEF Go, Shapes, r
  <2>3. p.obj.status = None
    BY <1>13 DEF MayCreate
  <2>4. ~(a # None /\ ~HashChanged(a))
    BY <1>6, <1>13, <2>3
  <2>5. p.lb = None
    BY <1>1, <1>2 DEF SyncFits, OwnFits
  <2>6. PassFits(c)'
    BY <1>2, <1>3, <1>13, <2>1, <2>2, <2>4 DEF PassFits
  <2> QED
    BY <1>2, <1>4, <2>1, <2>2, <2>3, <2>5, <2>6, GoesOn
<1> HIDE DEF p, s
<1> QED
  BY <1>9, <1>10, <1>11, <1>12, <1>13 DEF Apply, p, s

\* What a pass makes of the ALBs keeps the account: those of the other AlbConfigs
\* stay as they are, its own stay its own, and none is lost that the status names.
Effect(c) ==
  /\ \A d \in AlbConfig \ {c} : /\ \A k \in LB : Mine(d, k) => lb'[k] = lb[k]
                                /\ Listed(d)' \subseteq Listed(d)
  /\ \A k \in LB : Mine(c, k) => Mine(c, k)'
  /\ \A k \in Listed(c)' : Mine(c, k)'
  /\ LabelFits(c)'
  /\ api[c] # None /\ ~api[c].deleting => ~Orphaned(c)'

\* Nothing happens to the ALBs.
LEMMA NoEffect ==
  ASSUME NEW R, GuardInv, SyncInv(R), NEW c \in AlbConfig,
         pass[c].pc \notin {"idle", "finalizer", "apply"}, UNCHANGED <<api, lb>>
  PROVE  Effect(c)
<1>1. SyncFits(R, c)
  BY DEF SyncInv
<1>2. /\ \A d \in AlbConfig : Listed(d)' = Listed(d) /\ \A l : Mine(d, l)' <=> Mine(d, l)
      /\ api[c] # None => (Orphaned(c)' <=> Orphaned(c))
  BY DEF Listed, Mine, Orphaned
<1>3. LabelFits(c)'
  BY <1>1, <1>2 DEF SyncFits, LabelFits
<1>4. api[c] # None /\ ~api[c].deleting => ~Orphaned(c)'
  BY <1>1, <1>2 DEF SyncFits, OrphanFits
<1>5. \A k \in Listed(c)' : Mine(c, k)'
  BY <1>1, <1>2 DEF SyncFits, OwnFits
<1> QED
  BY <1>2, <1>3, <1>4, <1>5 DEF Effect

\* A new ALB is nobody else's.
LEMMA CreateEffect ==
  ASSUME NEW R, GuardInv, UserInv, SyncInv(R), NEW c \in AlbConfig, pass[c].pc = "create",
         NEW l \in Unused, NEW s, lb' = [lb EXCEPT ![l] = Created(c, s)], UNCHANGED api
  PROVE  /\ Effect(c) /\ l \in LB /\ lb'[l] = Created(c, s) /\ Mine(c, l)'
         /\ api[c] # None => api[c].status # l
<1>1. l \in LB /\ lb[l].state = "free" /\ l \notin UserLB /\ SyncFits(R, c)
  BY CreateUser DEF Unused, SyncInv
<1>2. lb'[l] = Created(c, s) /\ \A k \in LB \ {l} : lb'[k] = lb[k]
  BY <1>1 DEF GuardInv, Shapes
<1>3. \A d \in AlbConfig, k \in LB : Mine(d, k) => k # l /\ lb'[k] = lb[k] /\ Mine(d, k)'
  BY <1>1, <1>2 DEF Mine
<1>4. \A d \in AlbConfig : Listed(d)' \subseteq Listed(d)
  BY <1>1, CreateStep DEF GuardInv
<1>5. \A k \in Listed(c)' : Mine(c, k)'
  BY <1>1, <1>3, <1>4 DEF SyncFits, OwnFits, Listed
<1>6. api[c] # None => /\ api[c].status \in LB \cup {None}
                       /\ api[c].status # None => api[c].status # l /\ lb'[api[c].status] = lb[api[c].status]
  BY <1>1, <1>3, NamedMine
<1>7. api[c] # None => (Orphaned(c)' <=> Orphaned(c))
  BY <1>6 DEF Orphaned
<1>8. LabelFits(c)'
  BY <1>1, <1>6, <1>7, AlbAssumption DEF SyncFits, LabelFits
<1>9. api[c] # None /\ ~api[c].deleting => ~Orphaned(c)'
  BY <1>1, <1>7 DEF SyncFits, OrphanFits
<1>10. Mine(c, l)'
  BY <1>1, <1>2 DEF Mine, Created
<1>11. api[c] # None => api[c].status # l
  BY <1>1, <1>6, AlbAssumption
<1> QED
  BY <1>1, <1>2, <1>3, <1>4, <1>5, <1>8, <1>9, <1>10, <1>11 DEF Effect

\* The pass fails after what it made of the ALBs.
LEMMA EffectFail ==
  ASSUME NEW R, GuardInv, SyncInv(R), NEW c \in AlbConfig, Effect(c), Fail(c), UNCHANGED <<api, cached>>
  PROVE  SyncInv(R)'
<1>1. /\ pass'[c] = Resting /\ c \in queue' /\ queue \subseteq queue' /\ SyncFits(R, c)
      /\ \A d \in AlbConfig \ {c} : pass'[d] = pass[d]
  BY DEF Fail, Go, GuardInv, Shapes, SyncInv
<1>2. Resting.pc = "idle" /\ Resting.lb = None /\ ~Resting.doomed
  BY DEF Resting
<1>3. OrderFits(R, c)' /\ Account(c)'
  BY <1>1, <1>2 DEF SyncFits, OrderFits, Account, Older
<1>4. OwnFits(c)'
  <2>1. api[c] # None /\ api[c].status # None => Mine(c, api[c].status)'
    BY <1>1, NamedMine DEF Effect
  <2> QED
    BY <1>1, <1>2, <2>1 DEF OwnFits, Effect
<1>5. PassFits(c)'
  BY <1>1, <1>2 DEF PassFits
<1>6. LabelFits(c)' /\ OrphanFits(c)'
  BY DEF Effect, OrphanFits
<1>7. SyncFits(R, c)'
  BY <1>3, <1>4, <1>5, <1>6 DEF SyncFits
<1> QED
  BY <1>1, <1>7, SyncStep DEF Effect

\* The pass goes on after what it made of the ALBs.
LEMMA EffectGo ==
  ASSUME NEW R, GuardInv, SyncInv(R), NEW c \in AlbConfig, NEW r, Go(c, r), Effect(c),
         UNCHANGED <<api, cached, queue>>,
         pass[c].pc \notin {"idle", "finalizer"}, r.pc \in {"wait", "calls"},
         r.obj = pass[c].obj, r.clean = pass[c].clean,
         r.lb # None => api[c] # None /\ Mine(c, r.lb)',
         PassFits(c)'
  PROVE  SyncInv(R)'
<1>1. /\ pass'[c] = r /\ SyncFits(R, c) /\ \A d \in AlbConfig \ {c} : pass'[d] = pass[d]
  BY DEF Go, GuardInv, Shapes, SyncInv
<1>2. OrderFits(R, c)' /\ Account(c)'
  BY <1>1 DEF SyncFits, OrderFits, Account, RestsUnnamed, Older
<1>3. OwnFits(c)'
  <2>1. api[c] # None /\ api[c].status # None => Mine(c, api[c].status)'
    BY <1>1, NamedMine DEF Effect
  <2> QED
    BY <1>1, <2>1 DEF OwnFits, Effect
<1>4. LabelFits(c)' /\ OrphanFits(c)'
  BY DEF Effect, OrphanFits
<1>5. SyncFits(R, c)'
  BY <1>2, <1>3, <1>4 DEF SyncFits
<1> QED
  BY <1>1, <1>5, SyncStep DEF Effect

\* The ALB is created, and the pass waits for it.
LEMMA CreateSync ==
  ASSUME NEW R, Onwards(R), GuardInv, UserInv, SyncInv(R), NEW c \in AlbConfig,
         CreateLoadBalancer(c) \/ WaitActive(c)
  PROVE  SyncInv(R)'
<1> DEFINE p == pass[c]
           s == BuildSpec(c, p.obj.spec)
<1>1. /\ PassRecord(p) /\ SyncFits(R, c) /\ Shapes /\ CopiesFit(c) /\ ListingFits(c)
  BY DEF GuardInv, Shapes, SyncInv
<1>2. CASE CreateLoadBalancer(c)
  <2>1. PICK l \in Unused : lb' = [lb EXCEPT ![l] = Created(c, s)] /\ Go(c, [p EXCEPT !.pc = "wait", !.lb = l])
    BY <1>2 DEF CreateLoadBalancer
  <2>2. p.pc = "create" /\ UNCHANGED <<api, cached, queue>>
    BY <1>2 DEF CreateLoadBalancer
  <2> DEFINE r == [p EXCEPT !.pc = "wait", !.lb = l]
  <2>3. /\ r.pc = "wait" /\ r.lb = l /\ r.obj = p.obj /\ r.clean = p.clean /\ r.reuse = p.reuse
        /\ r.doomed = p.doomed
    BY <1>1 DEF PassRecord
  <2> HIDE DEF r, s
  <2>4. /\ Effect(c) /\ l \in LB /\ lb'[l] = Created(c, s) /\ Mine(c, l)'
        /\ api[c] # None => api[c].status # l
    BY <2>1, <2>2, CreateEffect
  <2>5. pass'[c] = r /\ Go(c, r)
    BY <1>1, <2>1 DEF Go, Shapes, r
  <2>6. ~p.doomed /\ ~p.reuse /\ (api[c] # None => HashChanged(api[c])) /\ api[c] # None
    BY <1>1, <2>2 DEF SyncFits, PassFits, CopiesFit, ListingFits
  <2>7. PassFits(c)'
    BY <2>2, <2>3, <2>4, <2>5, <2>6 DEF PassFits, s
  <2> QED
    BY <2>2, <2>3, <2>4, <2>5, <2>6, <2>7, EffectGo
<1>3. CASE WaitActive(c)
  <2> DEFINE k == CreateCalls(c, s, lb[p.lb])
             r == [p EXCEPT !.pc = "calls", !.calls = k]
  <2>1. UNCHANGED <<api, cached, queue, lb>> /\ p.pc = "wait" /\ Go(c, r)
    BY <1>3 DEF WaitActive
  <2>2. /\ lb[p.lb] = Created(c, s) /\ ~p.reuse /\ ~p.doomed /\ p.lb \in LB /\ p.lb # None
        /\ api[c] # None => HashChanged(api[c]) /\ api[c].status # p.lb
    BY <1>1, <2>1, AlbAssumption DEF SyncFits, PassFits, ListingFits
  <2>3. p.obj.spec \in Specs
    BY <1>1, <2>1 DEF CopiesFit, PassRecord, Object
  <2>4. Aims(c, p.obj.spec, k, lb[p.lb]) /\ "state" \notin Touches(k)
    <3> HIDE DEF p
    <3> QED
      BY <2>2, <2>3, CreateAims
  <2> HIDE DEF k
  <2>5. /\ r.pc = "calls" /\ r.lb = p.lb /\ r.calls = k /\ r.obj = p.obj /\ r.clean = p.clean
        /\ r.reuse = p.reuse /\ r.doomed = p.doomed
    BY <1>1 DEF PassRecord
  <2> HIDE DEF r
  <2>6. pass'[c] = r
    BY <1>1, <2>1 DEF Go, Shapes
  <2>7. CallsAim(c)'
    BY <2>1, <2>2, <2>4, <2>5, <2>6 DEF CallsAim
  <2>8. PassFits(c)'
    BY <2>5, <2>6, <2>7 DEF PassFits
  <2>9. Effect(c)
    BY <2>1, NoEffect
  <2>10. PICK l \in LB : l = p.lb
    BY <2>2
  <2>11. api[c] # None /\ Mine(c, l)'
    BY <1>1, <2>2, <2>9, <2>10 DEF SyncFits, OwnFits, Effect
  <2>12. PICK q : q = r
    OBVIOUS
  <2> HIDE DEF p
  <2> QED
    BY <2>1, <2>5, <2>8, <2>9, <2>10, <2>11, <2>12, EffectGo DEF p
<1> QED
  BY <1>2, <1>3

\* The next call of a pass concerns its own ALB.
LEMMA CallEffect ==
  ASSUME NEW R, Onwards(R), Unshared, GuardInv, SyncInv(R), NEW c \in AlbConfig,
         pass[c].pc = "calls", pass[c].calls # <<>>, NEW l, l = pass[c].lb,
         NEW x, x = Head(pass[c].calls), Accepted(x, lb[l]),
         lb' = [lb EXCEPT ![l] = Done(x, @)], UNCHANGED <<api, cached>>
  PROVE  /\ Effect(c) /\ l \in LB /\ ALBRecord(lb[l]) /\ lb'[l] = Done(x, lb[l]) /\ Mine(c, l)'
<1> DEFINE p == pass[c]
           o == api[c]
<1>1. /\ CopiesFit(c) /\ ListingFits(c) /\ CallsFit(c) /\ SyncFits(R, c) /\ Shapes /\ CallsAim(c)
  BY DEF GuardInv, ListingFits, SyncInv, SyncFits, PassFits
<1>2. l \in LB /\ p.calls \in Seq(CallsOf(p.calls)) /\ x \in CallsOf(p.calls)
  BY <1>1, HeadTail DEF CallsFit
<1>3. CallFits(c, x) /\ ALBRecord(lb[l]) /\ lb[l].state = "live"
  BY <1>1, <1>2 DEF CallsFit, Shapes, Accepted
<1>4. lb'[l] = Done(x, lb[l]) /\ \A k \in LB \ {l} : lb'[k] = lb[k]
  BY <1>1, <1>2 DEF Shapes
<1>5. /\ \A d \in AlbConfig \ {c} : Listed(d)' \subseteq Listed(d)
      /\ Listed(c)' \subseteq Listed(c) \cup {l}
  BY <1>1, <1>2, <1>3, CallStep
<1>6. /\ lb'[l].by = lb[l].by
      /\ lb'[l].state = IF "state" \in DOMAIN x THEN "gone" ELSE "live"
  <2>1. "by" \in DOMAIN lb[l] /\ "state" \in DOMAIN lb[l]
    BY <1>3 DEF ALBRecord, Free
  <2> QED
    BY <1>3, <1>4, <2>1 DEF Done, CallFits
<1>7. \A d \in AlbConfig, k \in LB : Mine(d, k) => Mine(d, k)'
  BY <1>3, <1>4, <1>6 DEF Mine
<1>8. Mine(c, l) /\ l # None
  BY <1>1, <1>2, AlbAssumption DEF SyncFits, OwnFits
<1>9. \A d \in AlbConfig \ {c}, k \in LB : Mine(d, k) => lb'[k] = lb[k]
  <2> SUFFICES ASSUME NEW d \in AlbConfig \ {c}, NEW k \in LB, Mine(d, k) PROVE k # l
    BY <1>4
  <2> QED
    BY <1>8, MineUnique
<1>10. \A k \in Listed(c)' : Mine(c, k)'
  BY <1>1, <1>2, <1>5, <1>7, <1>8 DEF SyncFits, OwnFits, Listed
<1>11. DOMAIN x \subseteq Touches(p.calls)
  BY <1>2 DEF Touches
<1>12. LabelFits(c)'
  <2> SUFFICES ASSUME o # None, ~HashChanged(o)
               PROVE  o.status \in LB /\ Served(c, o.spec, lb'[o.status])
    BY DEF LabelFits
  <2>1. l = o.status /\ Served(c, p.obj.spec, lb[l]) /\ p.obj.spec = o.spec /\ p.obj \in Object
    BY <1>1, UpToDate
  <2>2. DOMAIN x \subseteq {"ipv6"} /\ p.obj.spec.id # None
    BY <1>1, <1>11 DEF CallsAim
  <2>3. p.obj.spec \in Specs
    BY <2>1 DEF Object
  <2>4. Served(c, o.spec, Done(x, lb[l]))
    BY <1>3, <2>1, <2>2, <2>3, Ipv6KeepsServed
  <2> QED
    BY <1>2, <1>4, <2>1, <2>4
<1>13. ASSUME o # None, ~o.deleting PROVE ~Orphaned(c)'
  <2>1. ~Orphaned(c)
    BY <1>1, <1>13 DEF SyncFits, OrphanFits
  <2>2. o.status \in LB \cup {None}
    BY <1>1, <1>13, NamedMine
  <2>3. ~p.obj.deleting
    BY <1>1, <1>13 DEF CopiesFit
  <2>4. o.status = l => "state" \notin DOMAIN x
    BY <1>1, <1>11, <1>13, <2>3 DEF CallsAim
  <2> QED
    BY <1>4, <1>6, <2>1, <2>2, <2>4 DEF Orphaned
<1>14. Effect(c)
  BY <1>5, <1>7, <1>9, <1>10, <1>12, <1>13 DEF Effect
<1> QED
  BY <1>2, <1>3, <1>4, <1>7, <1>8, <1>14

\* The next call is made.
LEMMA CallSync ==
  ASSUME NEW R, Onwards(R), Unshared, GuardInv, SyncInv(R), NEW c \in AlbConfig, Call(c)
  PROVE  SyncInv(R)'
<1> DEFINE p == pass[c]
<1>1. /\ p.pc = "calls" /\ p.calls # <<>> /\ Accepted(Head(p.calls), lb[p.lb])
      /\ lb' = [lb EXCEPT ![p.lb] = Done(Head(p.calls), @)]
      /\ Go(c, [p EXCEPT !.calls = Tail(@)]) /\ UNCHANGED <<api, cached, queue>>
  BY DEF Call
<1>2. PICK l, x, q : l = p.lb /\ x = Head(p.calls) /\ q = p.calls
  OBVIOUS
<1>3. Effect(c) /\ l \in LB /\ ALBRecord(lb[l]) /\ lb'[l] = Done(x, lb[l]) /\ Mine(c, l)'
  BY <1>1, <1>2, CallEffect
<1>4. /\ CopiesFit(c) /\ CallsFit(c) /\ SyncFits(R, c) /\ Shapes /\ CallsAim(c) /\ PassRecord(p)
  BY <1>1 DEF GuardInv, ListingFits, SyncInv, SyncFits, PassFits, Shapes
<1> DEFINE r == [p EXCEPT !.calls = Tail(q)]
<1>5. /\ r.pc = "calls" /\ r.lb = l /\ r.calls = Tail(q) /\ r.obj = p.obj /\ r.clean = p.clean
      /\ r.reuse = p.reuse /\ r.doomed = p.doomed
  BY <1>1, <1>2, <1>4 DEF PassRecord
<1>6. Go(c, r)
  BY <1>1, <1>2, <1>4 DEF PassRecord
<1> HIDE DEF r
<1>7. pass'[c] = r
  BY <1>4, <1>6 DEF Go, Shapes
<1>8. Calls(q) /\ q # <<>> /\ CallsOf(Tail(q)) \subseteq CallsOf(q)
  BY <1>1, <1>2, <1>4, HeadTail DEF Calls, CallsFit
<1>9. Touches(Tail(q)) \subseteq Touches(q)
  BY <1>8 DEF Touches
<1>10. x # Refusal
  BY <1>1, <1>2 DEF Accepted
<1>11. CallsAim(c)'
  <2>1. ASSUME ~p.obj.deleting, ~p.doomed
        PROVE  Aims(c, p.obj.spec, Tail(q), lb'[l]) /\ "state" \notin Touches(Tail(q))
    <3>1. Aims(c, p.obj.spec, q, lb[l]) /\ "state" \notin Touches(q)
      BY <1>2, <1>4, <2>1 DEF CallsAim
    <3>2. x = Head(q)
      BY <1>2
    <3>3. Aims(c, p.obj.spec, Tail(q), Done(Head(q), lb[l]))
      BY <1>3, <1>8, <1>10, <3>1, <3>2, TailAims
    <3> QED
      BY <1>3, <1>9, <3>1, <3>2, <3>3
  <2> QED
    BY <1>1, <1>2, <1>3, <1>4, <1>5, <1>7, <1>8, <1>9, <2>1 DEF CallsAim
<1>12. PassFits(c)'
  BY <1>5, <1>7, <1>11 DEF PassFits
<1>13. api[c] # None
  BY <1>2, <1>3, <1>4, AlbAssumption DEF SyncFits, OwnFits
<1> QED
  BY <1>1, <1>3, <1>5, <1>6, <1>12, <1>13, EffectGo

\* A call that returned an error, whatever it did.
LEMMA ErrorSync ==
  ASSUME NEW R, GuardInv, SyncInv(R), NEW c \in AlbConfig, pass[c].pc = "calls",
         pass[c].calls # <<>>, CallError(c), Effect(c), UNCHANGED <<api, cached>>
  PROVE  SyncInv(R)'
<1> DEFINE p == pass[c]
<1>1. /\ CallsFit(c) /\ SyncFits(R, c) /\ Shapes /\ CallsAim(c) /\ PassRecord(p)
  BY DEF GuardInv, ListingFits, SyncInv, SyncFits, PassFits, Shapes
<1>2. CASE ~Tagging(p)
  <2>1. Fail(c)
    BY <1>2 DEF CallError
  <2> QED
    BY <2>1, EffectFail
<1>3. CASE Tagging(p)
  <2>1. PICK l, q, x : l = p.lb /\ q = DeleteCalls(lb[p.lb]) /\ x = Head(p.calls)
    OBVIOUS
  <2>2. /\ "tag" \in DOMAIN x /\ x.tag # None /\ ~p.reuse /\ x \in CallsOf(p.calls)
        /\ l \in LB
    BY <1>1, <1>3, <2>1, HeadTail DEF Tagging, CallsFit
  <2>3. api[c] # None => HashChanged(api[c]) /\ api[c].status # l
    <3>1. "tag" \in Touches(p.calls)
      BY <2>2 DEF Touches
    <3> QED
      BY <1>1, <2>1, <2>2, <3>1 DEF CallsAim
  <2> DEFINE r == [p EXCEPT !.calls = q, !.doomed = TRUE]
  <2>4. /\ r.pc = "calls" /\ r.lb = l /\ r.calls = q /\ r.obj = p.obj /\ r.clean = p.clean
        /\ r.reuse = p.reuse /\ r.doomed = TRUE
    BY <1>1, <2>1 DEF PassRecord
  <2>5. Go(c, r) /\ UNCHANGED queue
    BY <1>3, <2>1 DEF CallError
  <2> HIDE DEF r
  <2>6. pass'[c] = r
    BY <1>1, <2>5 DEF Go, Shapes
  <2>7. CallsAim(c)'
    BY <2>2, <2>3, <2>4, <2>6 DEF CallsAim
  <2>8. PassFits(c)'
    BY <2>4, <2>6, <2>7 DEF PassFits
  <2>9. api[c] # None /\ Mine(c, l)'
    BY <1>1, <2>1, <2>2, AlbAssumption DEF SyncFits, OwnFits, Effect
  <2> QED
    BY <2>4, <2>5, <2>8, <2>9, EffectGo
<1> QED
  BY <1>2, <1>3

\* Calls that are refused, fail or are carried out unnoticed.
LEMMA FaultSync ==
  ASSUME NEW R, Onwards(R), Unshared, GuardInv, UserInv, SyncInv(R), NEW c \in AlbConfig,
         Refused(c) \/ CallFails(c) \/ CallLost(c)
  PROVE  SyncInv(R)'
<1> DEFINE p == pass[c]
<1>1. CASE Refused(c)
  <2>1. /\ p.pc = "calls" /\ p.calls # <<>> /\ CallError(c) /\ UNCHANGED <<api, cached, lb>>
    BY <1>1 DEF Refused
  <2>2. Effect(c)
    BY <2>1, NoEffect
  <2> QED
    BY <2>1, <2>2, ErrorSync
<1>2. CASE CallFails(c)
  <2>1. /\ UNCHANGED <<api, cached, lb>>
        /\ IF p.pc = "calls" /\ p.calls # <<>> THEN CallError(c) ELSE Fail(c)
    BY <1>2 DEF CallFails
  <2>2. CASE p.pc = "calls" /\ p.calls # <<>>
    <3>1. Effect(c)
      BY <2>1, <2>2, NoEffect
    <3> QED
      BY <2>1, <2>2, <3>1, ErrorSync
  <2>3. CASE ~(p.pc = "calls" /\ p.calls # <<>>)
    BY <2>1, <2>3, FailSync
  <2> QED
    BY <2>2, <2>3
<1>3. CASE CallLost(c)
  <2>1. UNCHANGED <<api, cached>>
    BY <1>3 DEF CallLost
  <2>2. CASE /\ p.pc = "calls" /\ p.calls # <<>> /\ Accepted(Head(p.calls), lb[p.lb])
             /\ lb' = [lb EXCEPT ![p.lb] = Done(Head(p.calls), @)]
             /\ CallError(c)
    <3>1. PICK l, x : l = p.lb /\ x = Head(p.calls)
      OBVIOUS
    <3>2. Effect(c)
      BY <2>1, <2>2, <3>1, CallEffect
    <3> QED
      BY <2>1, <2>2, <3>2, ErrorSync
  <2>3. ASSUME p.pc = "create", NEW l \in Unused, Fail(c),
               lb' = [lb EXCEPT ![l] = Created(c, BuildSpec(c, p.obj.spec))]
        PROVE  SyncInv(R)'
    <3>1. PICK s : s = BuildSpec(c, p.obj.spec)
      OBVIOUS
    <3>2. Effect(c)
      BY <2>1, <2>3, <3>1, CreateEffect
    <3> QED
      BY <2>1, <2>3, <3>2, EffectFail
  <2> QED
    BY <1>3, <2>2, <2>3 DEF CallLost
<1> QED
  BY <1>1, <1>2, <1>3

\* All calls were made.
LEMMA AppliedSync ==
  ASSUME NEW R, GuardInv, SyncInv(R), NEW c \in AlbConfig, Applied(c) \/ Panics(c)
  PROVE  SyncInv(R)'
<1> DEFINE p == pass[c]
<1>1. /\ SyncFits(R, c) /\ Shapes /\ CopiesFit(c) /\ CallsAim(c) /\ PassRecord(p)
      /\ p.pc = "calls" /\ p.calls = <<>> /\ UNCHANGED <<api, cached, lb>>
  BY DEF GuardInv, SyncInv, SyncFits, PassFits, Shapes, Applied, Panics
<1>2. CASE Panics(c)
  <2>1. /\ pass'[c] = Resting /\ queue' = queue /\ c \in queue
        /\ \A d \in AlbConfig \ {c} : pass'[d] = pass[d]
    BY <1>1, <1>2 DEF Panics, Go, Shapes, SyncFits, OrderFits
  <2>2. SyncFits(R, c)'
    BY <1>1, <2>1, EndSync
  <2> QED
    BY <1>1, <2>1, <2>2, SyncMove
<1>3. CASE Applied(c) /\ p.doomed
  <2>1. Fail(c)
    BY <1>3 DEF Applied
  <2> QED
    BY <1>1, <2>1, FailSync
<1>4. CASE Applied(c) /\ ~p.doomed
  <2>1. PICK r : r = [p EXCEPT !.pc = IF p.clean THEN "unfinalize" ELSE "status"]
    OBVIOUS
  <2>2. Go(c, r) /\ UNCHANGED queue /\ (p.clean \/ ~p.obj.deleting)
    BY <1>4, <2>1 DEF Applied
  <2>3. /\ r.pc = (IF p.clean THEN "unfinalize" ELSE "status") /\ r.lb = p.lb /\ r.obj = p.obj
        /\ r.clean = p.clean /\ r.doomed = p.doomed
    BY <1>1, <2>1 DEF PassRecord
  <2>4. pass'[c] = r
    BY <1>1, <2>2 DEF Go, Shapes
  <2>5. ~p.clean => p.lb \in LB /\ Served(c, p.obj.spec, lb[p.lb])
    <3> SUFFICES ASSUME ~p.clean PROVE p.lb \in LB /\ Served(c, p.obj.spec, lb[p.lb])
      OBVIOUS
    <3>1. p.lb \in LB /\ Aims(c, p.obj.spec, <<>>, lb[p.lb])
      BY <1>1, <1>4, <2>2 DEF CallsAim
    <3> QED
      BY <3>1, AimsReached
  <2>6. PassFits(c)'
    BY <1>1, <2>3, <2>4, <2>5 DEF PassFits
  <2>7. /\ api[c] # None /\ ~api[c].deleting => ~Orphaned(c)
        /\ r.lb # None => api[c] # None /\ Mine(c, r.lb)
    BY <1>1, <2>3 DEF SyncFits, OwnFits, OrphanFits
  <2> QED
    BY <1>1, <2>2, <2>3, <2>6, <2>7, GoesOn
<1> QED
  BY <1>2, <1>3, <1>4

\* The status is written.
LEMMA StatusSync ==
  ASSUME NEW R, GuardInv, SyncInv(R), NEW c \in AlbConfig, UpdateStatus(c)
  PROVE  SyncInv(R)'
<1> DEFINE p == pass[c]
           a == api[c]
           n == api'[c]
           r == pass'[c]
<1>1. /\ SyncFits(R, c) /\ Shapes /\ CopiesFit(c) /\ PassRecord(p)
      /\ p.pc = "status" /\ p.obj = a /\ UNCHANGED <<cached, queue, lb>>
  BY DEF GuardInv, SyncInv, Shapes, UpdateStatus
<1>2. a \in Object /\ a # None /\ p.lb \in LB /\ Served(c, a.spec, lb[p.lb]) /\ ~a.deleting
  BY <1>1 DEF CopiesFit, PassRecord, SyncFits, PassFits, OrderFits
<1>3. /\ n = [a EXCEPT !.status = p.lb] /\ r = [p EXCEPT !.pc = "label", !.obj.status = p.lb]
      /\ \A d \in AlbConfig \ {c} : pass'[d] = pass[d] /\ api'[d] = api[d]
  BY <1>1 DEF UpdateStatus, Go, Shapes
<1>4. /\ n \in Object /\ n.spec = a.spec /\ n.deleting = a.deleting /\ n.fin = a.fin
      /\ n.label = a.label /\ n.status = p.lb
  BY <1>2, <1>3 DEF Object
<1>5. n # None
  BY <1>4, InputAssumption
<1>6. /\ r.pc = "label" /\ r.lb = p.lb /\ r.clean = p.clean /\ r.doomed = p.doomed
      /\ r.obj.spec = a.spec /\ r.obj.deleting = a.deleting
  <2>1. r.obj = [a EXCEPT !.status = p.lb]
    BY <1>1, <1>3 DEF PassRecord
  <2>2. r.obj.spec = a.spec /\ r.obj.deleting = a.deleting
    BY <1>2, <2>1 DEF Object
  <2>3. r.pc = "label" /\ r.lb = p.lb /\ r.clean = p.clean /\ r.doomed = p.doomed
    BY <1>1, <1>3 DEF PassRecord
  <2> QED
    BY <2>2, <2>3
<1> HIDE DEF n, r
<1>7. Listed(c)' = Listed(c) /\ \A l : Mine(c, l)' <=> Mine(c, l)
  BY <1>1, <1>2, <1>4, <1>5 DEF Listed, Mine, n
<1>8. OrderFits(R, c)'
  BY <1>1, <1>2, <1>4, <1>5, <1>6 DEF SyncFits, OrderFits, Older, n, r
<1>9. Account(c)'
  BY <1>4, <1>6 DEF Account, Hash, n, r
<1>10. PICK l \in LB : l = p.lb
  BY <1>2
<1>11. OwnFits(c)'
  <2>1. Mine(c, l)'
    BY <1>1, <1>7, <1>10, AlbAssumption DEF SyncFits, OwnFits
  <2> QED
    BY <1>1, <1>4, <1>5, <1>6, <1>7, <1>10, <2>1 DEF SyncFits, OwnFits, n, r
<1>12. PassFits(c)'
  BY <1>1, <1>2, <1>4, <1>6 DEF PassFits, n, r
<1>13. ~Orphaned(c)'
  BY <1>1, <1>2, <1>4 DEF Orphaned, Served, n
<1>14. LabelFits(c)' /\ OrphanFits(c)'
  BY <1>1, <1>2, <1>4, <1>13 DEF LabelFits, OrphanFits, n
<1> QED
  BY <1>1, <1>3, <1>8, <1>9, <1>11, <1>12, <1>14, SyncMove DEF SyncFits

\* The pass ends for want of a DNS name: its ALB agrees with the object the pass
\* went by, so with what the API server has unless a pass is due.
LEMMA UnnamedSync ==
  ASSUME NEW R, GuardInv, SyncInv(R), NEW c \in AlbConfig, NoDNSName(c)
  PROVE  SyncInv(R)'
<1> DEFINE p == pass[c]
           a == api[c]
           q == [Resting EXCEPT !.unnamed = TRUE]
<1>1. /\ SyncFits(R, c) /\ Shapes /\ CopiesFit(c) /\ PassRecord(p) /\ a \in Object \cup {None}
      /\ p.pc = "status" /\ Go(c, q) /\ UNCHANGED <<api, cached, queue, lb>>
  BY DEF GuardInv, SyncInv, Shapes, NoDNSName
<1>2. p.obj \in Object /\ ~p.obj.deleting /\ p.lb \in LB /\ Served(c, p.obj.spec, lb[p.lb])
  BY <1>1 DEF CopiesFit, PassRecord, SyncFits, PassFits, OrderFits
<1>3. q.pc = "idle" /\ q.lb = None /\ ~q.doomed /\ q.unnamed
  BY DEF Resting
<1>4. pass'[c] = q /\ \A d \in AlbConfig \ {c} : pass'[d] = pass[d]
  BY <1>1 DEF Go, Shapes
<1> HIDE DEF q
<1>5. Listed(c)' = Listed(c) /\ \A l : Mine(c, l)' <=> Mine(c, l)
  BY <1>1 DEF Listed, Mine
<1>6. a # None => (Orphaned(c)' <=> Orphaned(c))
  BY <1>1 DEF Orphaned
<1>7. OrderFits(R, c)'
  BY <1>1, <1>3, <1>4 DEF SyncFits, OrderFits, Older
<1>8. Account(c)'
  <2> SUFFICES ASSUME a # None, HashChanged(a), c \notin queue, Hash(cached[c]) = Hash(a)
               PROVE  RestsUnnamed(c)'
    BY <1>1 DEF Account
  <2>1. Hash(p.obj) = Hash(a)
    BY <1>1 DEF SyncFits, Account, RestsUnnamed
  <2>2. p.obj.spec = a.spec /\ p.obj.deleting = a.deleting
    BY <2>1 DEF Hash
  <2> QED
    BY <1>1, <1>2, <1>3, <1>4, <2>2 DEF RestsUnnamed
<1>9. OwnFits(c)' /\ PassFits(c)'
  BY <1>1, <1>3, <1>4, <1>5 DEF SyncFits, OwnFits, PassFits
<1>10. LabelFits(c)' /\ OrphanFits(c)'
  BY <1>1, <1>3, <1>4, <1>5, <1>6 DEF SyncFits, LabelFits, OrphanFits
<1> QED
  BY <1>1, <1>4, <1>7, <1>8, <1>9, <1>10, SyncMove DEF SyncFits

\* The label is written.  It stands for the object the pass went by, which may
\* have been edited since.
LEMMA LabelSync ==
  ASSUME NEW R, Onwards(R), GuardInv, SyncInv(R), NEW c \in AlbConfig, AddLabel(c)
  PROVE  SyncInv(R)'
<1> DEFINE p == pass[c]
           a == api[c]
           n == api'[c]
<1>1. /\ SyncFits(R, c) /\ Shapes /\ CopiesFit(c) /\ PassRecord(p) /\ a # None /\ a \in Object
      /\ p.pc = "label" /\ UNCHANGED <<cached, queue, lb>>
  BY DEF GuardInv, SyncInv, Shapes, AddLabel
<1>2. p.obj \in Object /\ ~p.obj.deleting /\ p.lb \in LB /\ Served(c, p.obj.spec, lb[p.lb]) /\ a.status = p.lb
  BY <1>1 DEF CopiesFit, PassRecord, SyncFits, PassFits, OrderFits
<1>3. /\ n = [a EXCEPT !.label = Hash(p.obj)] /\ pass'[c] = Resting
      /\ \A d \in AlbConfig \ {c} : pass'[d] = pass[d] /\ api'[d] = api[d]
  BY <1>1 DEF AddLabel, Go, Shapes
<1>4. /\ p.obj.spec \in Specs /\ p.obj.deleting = FALSE
      /\ Hash(p.obj) = <<p.obj.spec, FALSE>> /\ Hash(p.obj) \in Specs \X BOOLEAN
  BY <1>2 DEF Object, Hash
<1>5. /\ n \in Object /\ n.spec = a.spec /\ n.deleting = a.deleting /\ n.fin = a.fin
      /\ n.label = <<p.obj.spec, FALSE>> /\ n.status = a.status
  BY <1>1, <1>3, <1>4 DEF Object
<1>6. n # None /\ n.label[1] = p.obj.spec /\ n.label[2] = FALSE
  BY <1>5, InputAssumption
<1>7. Resting.pc = "idle" /\ Resting.lb = None /\ ~Resting.doomed
  BY DEF Resting
<1> HIDE DEF n
<1>8. Listed(c)' = Listed(c) /\ \A l : Mine(c, l)' <=> Mine(c, l)
  BY <1>1, <1>5, <1>6 DEF Listed, Mine, n
<1>9. OrderFits(R, c)'
  BY <1>1, <1>3, <1>5, <1>6, <1>7 DEF SyncFits, OrderFits, Older, n
<1>10. Account(c)'
  <2> SUFFICES ASSUME HashChanged(n), c \notin queue, Hash(cached[c]) = Hash(n) PROVE FALSE
    BY <1>1 DEF Account, n
  <2>1. Hash(n) = Hash(a)
    BY <1>5 DEF Hash
  <2>2. Hash(p.obj) # Hash(a)
    BY <1>4, <1>5, <2>1 DEF HashChanged
  <2>3. HashChanged(a) => FALSE
    BY <1>1, <2>1, <2>2 DEF SyncFits, Account, RestsUnnamed
  <2>4. ~HashChanged(a) => p.obj.spec = a.spec /\ ~a.deleting
    BY <1>1, UpToDate
  <2>5. a.deleting \in BOOLEAN
    BY <1>1 DEF Object
  <2> QED
    BY <1>4, <2>2, <2>3, <2>4, <2>5 DEF Hash
<1>11. OwnFits(c)' /\ PassFits(c)'
  BY <1>1, <1>3, <1>5, <1>6, <1>7, <1>8 DEF SyncFits, OwnFits, PassFits, n
<1>12. ~Orphaned(c)'
  BY <1>1, <1>2, <1>5 DEF Orphaned, Served, n
<1>13. LabelFits(c)' /\ OrphanFits(c)'
  <2>1. ~HashChanged(n) => n.spec = p.obj.spec
    <3> SUFFICES ASSUME n.label = <<n.spec, n.deleting>> PROVE n.spec = p.obj.spec
      BY DEF HashChanged, Hash
    <3> QED
      BY <1>6
  <2> QED
    BY <1>1, <1>2, <1>5, <1>12, <2>1 DEF LabelFits, OrphanFits, n
<1> QED
  BY <1>1, <1>3, <1>9, <1>10, <1>11, <1>13, SyncMove DEF SyncFits

\* The AlbConfig goes.
LEMMA GoneSync ==
  ASSUME NEW R, GuardInv, SyncInv(R), NEW c \in AlbConfig, RemoveFinalizers(c)
  PROVE  SyncInv(R)'
<1>1. /\ SyncFits(R, c) /\ Shapes /\ ListingFits(c) /\ pass[c].pc = "unfinalize"
      /\ UNCHANGED <<cached, queue, lb>>
  BY DEF GuardInv, SyncInv, Shapes, RemoveFinalizers
<1>2. /\ api'[c] = None /\ pass'[c] = Resting
      /\ \A d \in AlbConfig \ {c} : pass'[d] = pass[d] /\ api'[d] = api[d]
  BY <1>1 DEF RemoveFinalizers, Go, Shapes
<1>3. Resting.pc = "idle" /\ Resting.lb = None /\ ~Resting.doomed
  BY DEF Resting
<1>4. Listed(c)' = {}
  BY <1>1 DEF Listed, ListingFits
<1>5. OrderFits(R, c)' /\ Account(c)'
  BY <1>1, <1>2, <1>3 DEF SyncFits, OrderFits, Account
<1>6. OwnFits(c)' /\ PassFits(c)' /\ LabelFits(c)' /\ OrphanFits(c)'
  BY <1>2, <1>3, <1>4 DEF OwnFits, PassFits, LabelFits, OrphanFits
<1> QED
  BY <1>1, <1>2, <1>5, <1>6, SyncMove DEF SyncFits

\* The controller restarts: what has no up to date label is queued.
LEMMA RestartSync ==
  ASSUME NEW R, Onwards(R), GuardInv, SyncInv(R), Restart
  PROVE  SyncInv(R)'
<1>1. /\ pass' = [c \in AlbConfig |-> Resting] /\ cached' = api /\ UNCHANGED <<api, lb>>
      /\ queue' = {c \in AlbConfig : api[c] # None /\ HashChanged(api[c])}
  BY DEF Restart
<1> SUFFICES ASSUME NEW c \in AlbConfig PROVE SyncFits(R, c)'
  BY DEF SyncInv
<1> DEFINE a == api[c]
           d == cached[c]
<1>2. SyncFits(R, c) /\ a \in Object \cup {None} /\ d \in Object \cup {None}
  BY DEF SyncInv, GuardInv, Shapes
<1>3. pass'[c].pc = "idle" /\ pass'[c].lb = None /\ ~pass'[c].doomed
  BY <1>1 DEF Resting
<1>4. Listed(c)' = Listed(c) /\ (\A l : Mine(c, l)' <=> Mine(c, l)) /\ (a # None => (Orphaned(c)' <=> Orphaned(c)))
  BY <1>1 DEF Listed, Mine, Orphaned
<1>5. OrderFits(R, c)'
  <2>1. CASE a = None
    BY <1>1, <1>3, <2>1 DEF OrderFits
  <2>2. CASE a # None
    <3>1. d # None /\ a.spec \in Specs /\ d.spec \in Specs /\ Older(R, d.spec, a.spec)
      BY <1>2, <2>2 DEF SyncFits, OrderFits, Object
    <3>2. Older(R, a.spec, a.spec)
      BY <3>1 DEF Onwards, Older
    <3>3. ASSUME a.label # None PROVE Older(R, a.label[1], a.spec)
      <4>1. a.label[1] \in Specs
        BY <1>2, <2>2, <3>3 DEF Object
      <4>2. Older(R, a.label[1], d.spec)
        BY <1>2, <2>2, <3>3 DEF SyncFits, OrderFits
      <4> QED
        BY <3>1, <4>1, <4>2 DEF Onwards, Older
    <3> QED
      BY <1>1, <1>2, <1>3, <2>2, <3>2, <3>3 DEF SyncFits, OrderFits, Older
  <2> QED
    BY <2>1, <2>2
<1>6. Account(c)'
  BY <1>1 DEF Account
<1>7. OwnFits(c)' /\ PassFits(c)'
  BY <1>1, <1>2, <1>3, <1>4 DEF SyncFits, OwnFits, PassFits
<1>8. LabelFits(c)' /\ OrphanFits(c)'
  BY <1>1, <1>2, <1>3, <1>4 DEF SyncFits, LabelFits, OrphanFits
<1> QED
  BY <1>5, <1>6, <1>7, <1>8 DEF SyncFits

\* An ALB is deleted in the console: it was the only one of an AlbConfig at rest.
LEMMA ConsoleSync ==
  ASSUME NEW R, Unshared, GuardInv, SyncInv(R), NEW l \in LB, ConsoleDelete(l)
  PROVE  SyncInv(R)'
<1>1. PICK c \in AlbConfig : c = lb[l].tag
  BY DEF ConsoleDelete, GuardInv, Shapes, ALBRecord
<1>2. /\ l \notin UserLB /\ lb[l].state = "live" /\ Quiet(c) /\ UNCHANGED <<api, cached, queue, pass>>
      /\ lb' = [lb EXCEPT ![l].state = "gone"]
      /\ SyncFits(R, c) /\ ListingFits(c) /\ ALBRecord(lb[l]) /\ Shapes
  BY <1>1 DEF ConsoleDelete, GuardInv, Shapes, SyncInv
<1>3. l \in Listed(c)
  BY <1>1, <1>2 DEF Listed
<1>4. Listed(c) = {l} /\ api[c] # None /\ Mine(c, l)
  BY <1>2, <1>3 DEF ListingFits, SyncFits, OwnFits
<1>5. lb'[l] = [lb[l] EXCEPT !.state = "gone"] /\ \A k \in LB \ {l} : lb'[k] = lb[k]
  BY <1>2 DEF Shapes
<1>6. lb'[l].state = "gone" /\ lb'[l].by = lb[l].by /\ lb'[l].tag = lb[l].tag
  <2>1. {"state", "by", "tag"} \subseteq DOMAIN lb[l]
    BY <1>2 DEF ALBRecord, Free
  <2> QED
    BY <1>5, <2>1
<1>7. ASSUME NEW d \in AlbConfig \ {c}
      PROVE  (\A k \in LB : Mine(d, k) => lb'[k] = lb[k]) /\ Listed(d)' \subseteq Listed(d)
  <2>1. \A k \in LB : Mine(d, k) => k # l
    BY <1>4, MineUnique
  <2> QED
    BY <1>5, <1>6, <2>1 DEF Listed
<1>8. \A k \in LB : Mine(c, k) => Mine(c, k)'
  BY <1>2, <1>5, <1>6 DEF Mine
<1>9. Listed(c)' = {}
  <2> SUFFICES ASSUME NEW k \in LB, lb'[k].state = "live", lb'[k].tag = c PROVE FALSE
    BY DEF Listed
  <2>1. k # l
    BY <1>6
  <2>2. k \in Listed(c)
    BY <1>5, <2>1 DEF Listed
  <2> QED
    BY <1>4, <2>1, <2>2
<1>10. pass[c].pc = "idle" /\ pass[c].lb = None /\ ~pass[c].doomed /\ cached[c] = api[c]
  BY <1>2 DEF Quiet, SyncFits, OwnFits, PassFits
<1>11. OrderFits(R, c)' /\ Account(c)'
  <2>1. OrderFits(R, c)'
    BY <1>2 DEF SyncFits, OrderFits, Older
  <2>2. ASSUME RestsUnnamed(c) PROVE RestsUnnamed(c)'
    <3>1. GoneUnnamed(c) => GoneUnnamed(c)'
      BY <1>2, <1>5, <1>6 DEF GoneUnnamed
    <3>2. ASSUME NEW k \in LB, Served(c, api[c].spec, lb[k]) PROVE GoneUnnamed(c)'
      <4>1. k = l
        BY <1>4, <3>2 DEF Served, Listed
      <4>2. lb[l].by = c
        BY <1>2, <1>4 DEF Mine
      <4> QED
        BY <1>2, <1>6, <2>2, <4>2 DEF GoneUnnamed, RestsUnnamed
    <3> QED
      BY <1>2, <2>2, <3>1, <3>2 DEF RestsUnnamed
  <2>3. Account(c)'
    BY <1>2, <2>2 DEF SyncFits, Account
  <2> QED
    BY <2>1, <2>3
<1>12. OwnFits(c)' /\ PassFits(c)'
  <2>1. api[c].status # None => Mine(c, api[c].status)'
    BY <1>2, <1>4, <1>8, NamedMine
  <2> QED
    BY <1>2, <1>9, <1>10, <2>1 DEF OwnFits, PassFits
<1>13. LabelFits(c)'
  <2> SUFFICES ASSUME ~HashChanged(api[c]) PROVE Orphaned(c)'
    BY <1>2 DEF LabelFits
  <2>1. CASE Orphaned(c)
    <3>1. api[c].status \in LB
      BY <1>2, <1>4, <2>1, NamedMine DEF Orphaned
    <3> QED
      BY <1>2, <1>5, <1>6, <2>1, <3>1 DEF Orphaned
  <2>2. CASE api[c].status \in LB /\ Served(c, api[c].spec, lb[api[c].status])
    <3>1. api[c].status = l
      BY <1>4, <2>2 DEF Served, Listed
    <3> QED
      BY <1>2, <1>6, <3>1, AlbAssumption DEF Orphaned
  <2> QED
    BY <1>2, <1>4, <2>1, <2>2 DEF SyncFits, LabelFits
<1>14. OrphanFits(c)'
  BY <1>2, <1>9, <1>10 DEF OrphanFits
<1>15. SyncFits(R, c)'
  BY <1>11, <1>12, <1>13, <1>14 DEF SyncFits
<1> QED
  BY <1>2, <1>7, <1>15, SyncStep

\* Every step keeps the account.
LEMMA SyncNext ==
  ASSUME NEW R, Onwards(R), IdsKept, UsersNamed, Unshared, GuardInv, UserInv, SyncInv(R), [Next]_vars
  PROVE  SyncInv(R)'
<1>1. CASE UNCHANGED vars
  <2>1. UNCHANGED <<api, cached, queue, pass, lb>>
    BY <1>1 DEF vars
  <2> SUFFICES ASSUME NEW c \in AlbConfig PROVE SyncFits(R, c)'
    BY DEF SyncInv
  <2>2. Listed(c)' \subseteq Listed(c)
    BY <2>1 DEF Listed
  <2> QED
    BY <2>1, <2>2, FrameSync DEF SyncInv
<1>2. ASSUME NEW c \in AlbConfig, EditSpec(c) \/ DeleteAlbConfig(c) \/ CacheSync(c)
      PROVE  SyncInv(R)'
  BY <1>2, EditSync, DeleteSync, CacheSyncs
<1>3. ASSUME NEW c \in AlbConfig, Reconcile(c) \/ AddFinalizers(c) \/ Conflict(c) \/ ApplyRefused(c)
      PROVE  SyncInv(R)'
  <2>1. Conflict(c) \/ ApplyRefused(c) => Fail(c) /\ UNCHANGED <<api, cached, lb>>
    BY DEF Conflict, ApplyRefused
  <2> QED
    BY <1>3, <2>1, ReconcileSync, FinalizerSync, FailSync
<1>4. ASSUME NEW c \in AlbConfig, Apply(c) \/ CreateLoadBalancer(c) \/ WaitActive(c)
      PROVE  SyncInv(R)'
  BY <1>4, ApplySync, CreateSync
<1>5. ASSUME NEW c \in AlbConfig, Call(c) \/ Refused(c) \/ CallFails(c) \/ CallLost(c)
      PROVE  SyncInv(R)'
  BY <1>5, CallSync, FaultSync
<1>6. ASSUME NEW c \in AlbConfig,
             \/ Applied(c) \/ Panics(c) \/ UpdateStatus(c) \/ NoDNSName(c)
             \/ AddLabel(c) \/ RemoveFinalizers(c)
      PROVE  SyncInv(R)'
  BY <1>6, AppliedSync, StatusSync, UnnamedSync, LabelSync, GoneSync
<1>7. CASE Restart
  BY <1>7, RestartSync
<1>8. ASSUME NEW l \in LB, ConsoleDelete(l) PROVE SyncInv(R)'
  BY <1>8, ConsoleSync
<1> QED
  BY <1>1, <1>2, <1>3, <1>4, <1>5, <1>6, <1>7, <1>8 DEF Next, Work

\* An AlbConfig at rest: its label is up to date, and that label can be trusted,
\* or its last pass ended for want of a DNS name.
LEMMA SyncQuiet ==
  ASSUME NEW R, Onwards(R), GuardInv, SyncInv(R)
  PROVE  QuietInSync
<1> SUFFICES ASSUME NEW c \in AlbConfig, Quiet(c)
             PROVE  IF api[c] = None THEN Bearing(c) = {}
                    ELSE /\ ~api[c].deleting
                         /\ \/ Orphaned(c) \/ GoneUnnamed(c)
                            \/ \E l \in Bearing(c) :
                                 InSync(c, l) /\ (api[c].status = l \/ pass[c].unnamed)
  BY DEF QuietInSync
<1>1. Bearing(c) = Listed(c) /\ SyncFits(R, c) /\ ListingFits(c)
  BY DEF Bearing, Listed, SyncInv, GuardInv
<1>2. CASE api[c] = None
  BY <1>1, <1>2 DEF ListingFits
<1>3. CASE api[c] # None /\ RestsUnnamed(c)
  <2>1. ~api[c].deleting /\ pass[c].unnamed
    BY <1>3 DEF RestsUnnamed
  <2>2. ASSUME NEW l \in LB, Served(c, api[c].spec, lb[l]) PROVE l \in Bearing(c) /\ InSync(c, l)
    BY <2>2 DEF Served, Agrees, InSync, Bearing
  <2> QED
    BY <1>3, <2>1, <2>2 DEF RestsUnnamed
<1>4. CASE api[c] # None /\ ~RestsUnnamed(c)
  <2>1. ~HashChanged(api[c])
    BY <1>1, <1>4 DEF Quiet, SyncFits, Account
  <2>2. ~api[c].deleting
    BY <1>1, <1>4, <2>1, UpToDate
  <2>3. ASSUME ~Orphaned(c)
        PROVE  \E l \in Bearing(c) : api[c].status = l /\ InSync(c, l)
    <3>1. api[c].status \in LB /\ Served(c, api[c].spec, lb[api[c].status])
      BY <1>1, <1>4, <2>1, <2>3 DEF SyncFits, LabelFits
    <3>2. api[c].status \in Bearing(c) /\ InSync(c, api[c].status)
      BY <3>1 DEF Served, Agrees, InSync, Bearing
    <3> QED
      BY <3>2
  <2> QED
    BY <1>4, <2>2, <2>3
<1> QED
  BY <1>2, <1>3, <1>4

(***************************************************************************)
(* An AlbConfig for which nothing is left to do has an ALB with its tags   *)
(* that agrees with its spec, unless the ALB was deleted in the console,   *)
(* and its status names the ALB, unless the last pass was cut short over   *)
(* an ALB that had no DNS name; one that is gone left no ALB with its      *)
(* tags. So the event handlers, which pass over an AlbConfig whose hash    *)
(* its label holds, and a restart, which starts no pass for it, lose       *)
(* nothing. It takes that edits keep the id of the ALB and lead to no spec *)
(* the AlbConfig had before (the label of that one would be taken for up   *)
(* to date), and that the ids are of ALBs of the user, no two AlbConfigs   *)
(* naming the same at a time.                                              *)
(***************************************************************************)
THEOREM AtRestInSync ==
  ASSUME IdsKept, NeverBack, UsersNamed
  PROVE  Spec /\ []Unshared => []QuietInSync
<1>1. PICK R \in SUBSET (Specs \X Specs) : Onwards(R)
  BY DEF NeverBack
<1>2. Spec => []GuardInv /\ []UserInv
  BY GuardInvariance, UserInvariance, PTL
<1>3. Init => SyncInv(R)
  BY <1>1, SyncInit
<1>4. Unshared /\ GuardInv /\ UserInv /\ SyncInv(R) /\ [Next]_vars => SyncInv(R)'
  BY <1>1, SyncNext
<1>5. GuardInv /\ SyncInv(R) => QuietInSync
  BY <1>1, SyncQuiet
<1> QED
  BY <1>2, <1>3, <1>4, <1>5, PTL DEF Spec
=============================================================================
