------------------------------ MODULE AlbRules ------------------------------
(***************************************************************************)
(* The forwarding rules of one ALB listener: buildListenerRules numbers    *)
(* the rules of the Ingresses 1, 2, ... and the rule applier brings the    *)
(* listener to that list in batches, in the order create, update, delete,  *)
(* one action per batch.  A call may fail between any two batches, the     *)
(* Ingresses may change at any time, and traffic is routed by whatever     *)
(* rules the listener has at that moment.                                  *)
(*                                                                         *)
(* A rule stands for conditions and actions together.  The cloud applies   *)
(* one batch as a whole and routes a request by the matching rule with the *)
(* smallest priority; rules of the two directions are independent.         *)
(* Every rule has a direction: the old form of Knative Ingresses, whose    *)
(* rules are built without one (buildListenerRulesCommon), is left out.    *)
(***************************************************************************)
EXTENDS Naturals, FiniteSets, FiniteSetsExt, Sequences

CONSTANTS
  Rule,       \* rules the Ingresses may ask for
  Direction,  \* "Request" and "Response"
  Dir,        \* the direction of each rule
  Lists,      \* lists of rules the Ingresses may add up to
  Traffic,    \* requests and responses
  Match,      \* pairs <<t, r>>: traffic t satisfies the conditions of rule r
  Batch,      \* rules per call: BatchCreateRulesDefaultNum and its siblings
  None,       \* "no rule"
  MaxFaults,  \* failed passes per behaviour
  MaxEdits    \* changes of the Ingresses per behaviour

ASSUME RulesAssumption ==
  /\ Dir \in [Rule -> Direction]
  /\ Lists \subseteq Seq(Rule) /\ Lists # {} /\ IsFiniteSet(Lists)
  /\ Match \subseteq Traffic \X Rule
  /\ Batch \in Nat \ {0}
  /\ None \notin Rule
  /\ MaxFaults \in Nat /\ MaxEdits \in Nat

VARIABLES
  want,    \* the rules of the Ingresses, in order
  cloud,   \* the rules of the listener, by priority and direction
  queued,  \* a pass is due
  pc,      \* next step of the pass
  res,     \* the rules the pass works towards
  create,  \* unmatchedResLRs: rules still to create
  update,  \* matched rules still to update
  delete,  \* unmatchedSDKLRs: rules still to delete
  ascend,  \* updates go from the first rule to the last
  base,    \* history: the list the listener implemented last
  goals,   \* history: the lists passes have worked towards since then
  faults,  \* failed passes so far
  edits    \* changes so far

pass == <<res, create, update, delete, ascend>>
vars == <<want, cloud, queued, pc, pass, base, goals, faults, edits>>

Priority == UNION {DOMAIN l : l \in Lists}
Key == Priority \X Direction
Rules == [Key -> Rule \cup {None}]

\* buildListenerRules: the rule at position p of the list gets priority p.
ListenerRules(l) ==
  [k \in Key |-> IF k[1] \in DOMAIN l /\ Dir[l[k[1]]] = k[2] THEN l[k[1]]
                                                             ELSE None]

\* The keys under which a set of rules has one.
Used(rs) == {k \in Key : rs[k] # None}

TypeOK ==
  /\ want \in Lists /\ base \in Lists /\ goals \subseteq Lists
  /\ cloud \in Rules /\ res \in Rules
  /\ queued \in BOOLEAN /\ ascend \in BOOLEAN
  /\ pc \in {"idle", "list", "create", "update", "delete"}
  /\ create \subseteq Key /\ update \subseteq Key /\ delete \subseteq Key
  /\ faults \in 0..MaxFaults /\ edits \in 0..MaxEdits

Init ==
  /\ want \in Lists
  /\ base = want /\ goals = {}
  /\ cloud = ListenerRules(want) /\ res = cloud
  /\ queued = FALSE /\ pc = "idle"
  /\ create = {} /\ update = {} /\ delete = {} /\ ascend = FALSE
  /\ faults = 0 /\ edits = 0

\* An Ingress is created, edited or deleted.
IngressChange ==
  /\ edits < MaxEdits
  /\ want' \in Lists \ {want}
  /\ queued' = TRUE
  /\ edits' = edits + 1
  /\ UNCHANGED <<cloud, pc, pass, base, goals, faults>>

\* The model builder takes the Ingresses as they are now.
BuildModel ==
  /\ queued /\ pc = "idle"
  /\ queued' = FALSE
  /\ res' = ListenerRules(want)
  /\ goals' = goals \cup {want}
  /\ pc' = "list"
  /\ UNCHANGED <<want, cloud, create, update, delete, ascend, base, faults, edits>>

(***************************************************************************)
(* ListALBListenerRules, then matching by priority and direction.  A rule  *)
(* that is there already is not sent again.  The updates are sorted        *)
(* ascending and sent from the back of the list, unless rules have to be   *)
(* deleted: then the sort is reversed.                                     *)
(***************************************************************************)
\* Faulty variant: the order of the updates does not depend on deletions.
Ascending_Never(gone) == FALSE

Ascending(gone) == gone # {}

MatchRules ==
  /\ pc = "list"
  /\ create' = Used(res) \ Used(cloud)
  /\ update' = {k \in Used(res) \cap Used(cloud) : cloud[k] # res[k]}
  /\ delete' = Used(cloud) \ Used(res)
  /\ ascend' = Ascending(delete')
  /\ pc' = "create"
  /\ UNCHANGED <<want, cloud, queued, res, base, goals, faults, edits>>

\* The listener with the rules under B written (None: deleted).
Put(B) == cloud' = [k \in Key |-> IF k \in B THEN res[k] ELSE cloud[k]]

\* Sets of Batch keys of S, or what is left of S.
Batches(S) == {B \in SUBSET S : Cardinality(B) = Min({Batch, Cardinality(S)})}

\* Those of them that come first in the order the pass uses.
Before(j, k) == IF ascend THEN j[1] <= k[1] ELSE j[1] >= k[1]

NextBatches(S) == {B \in Batches(S) : \A j \in B, k \in S \ B : Before(j, k)}

\* Rules to create and to delete come in the order of their map keys, strings
\* such as "10Request", "2Request": any order here.
CreateALBListenerRules ==
  /\ pc = "create" /\ create # {}
  /\ \E B \in Batches(create) : Put(B) /\ create' = create \ B
  /\ UNCHANGED <<want, queued, pc, res, update, delete, ascend, base, goals,
                 faults, edits>>

Created ==
  /\ pc = "create" /\ create = {}
  /\ pc' = "update"
  /\ UNCHANGED <<want, cloud, queued, pass, base, goals, faults, edits>>

UpdateALBListenerRules ==
  /\ pc = "update" /\ update # {}
  /\ \E B \in NextBatches(update) : Put(B) /\ update' = update \ B
  /\ UNCHANGED <<want, queued, pc, res, create, delete, ascend, base, goals,
                 faults, edits>>

Updated ==
  /\ pc = "update" /\ update = {}
  /\ pc' = "delete"
  /\ UNCHANGED <<want, cloud, queued, pass, base, goals, faults, edits>>

DeleteALBListenerRules ==
  /\ pc = "delete" /\ delete # {}
  /\ \E B \in Batches(delete) : Put(B) /\ delete' = delete \ B
  /\ UNCHANGED <<want, queued, pc, res, create, update, ascend, base, goals,
                 faults, edits>>

\* applyListenerRulesOnListenerBatch returns nil.
Applied ==
  /\ pc = "delete" /\ delete = {}
  /\ pc' = "idle"
  /\ base' \in {l \in Lists : ListenerRules(l) = res}
  /\ goals' = {}
  /\ UNCHANGED <<want, cloud, queued, pass, faults, edits>>

\* Faulty variant: the pass is over although a call failed.
Fails_Forgotten ==
  /\ pc # "idle" /\ faults < MaxFaults
  /\ pc' = "idle"
  /\ faults' = faults + 1
  /\ UNCHANGED <<want, cloud, queued, pass, base, goals, edits>>

\* The next call fails: the error goes up to the work queue.
Fails ==
  /\ pc # "idle" /\ faults < MaxFaults
  /\ pc' = "idle"
  /\ queued' = TRUE
  /\ faults' = faults + 1
  /\ UNCHANGED <<want, cloud, pass, base, goals, edits>>

Pass ==
  \/ BuildModel \/ MatchRules
  \/ CreateALBListenerRules \/ Created
  \/ UpdateALBListenerRules \/ Updated
  \/ DeleteALBListenerRules \/ Applied

Next == Pass \/ IngressChange \/ Fails

Behaviour == Init /\ [][Next]_vars

\* The work queue hands out the key and the worker goes on.
FairBehaviour == Behaviour /\ WF_vars(Pass)
-----------------------------------------------------------------------------
(***************************************************************************)
(* A pass that failed after any batch leaves a mixture of old and new      *)
(* rules.  Once no pass is due, the listener has exactly the rules of the  *)
(* Ingresses, under the priorities of their order.                         *)
(***************************************************************************)
QuietInSync == pc = "idle" /\ ~queued => cloud = ListenerRules(want)

\* The rule of direction d that traffic t meets, None for the default action.
Route(rs, d, t) ==
  LET ps == {p \in Priority : <<t, rs[<<p, d>>]>> \in Match}
  IN  IF ps = {} THEN None ELSE rs[<<Min(ps), d>>]

\* s is t with some rules left out.
Subsequence(s, t) ==
  \E f \in [DOMAIN s -> DOMAIN t] :
    /\ \A i, j \in DOMAIN s : i < j => f[i] < f[j]
    /\ \A i \in DOMAIN s : s[i] = t[f[i]]

\* From s to t rules are only added, under s's keys and new ones.
Grows(s, t) ==
  Subsequence(s, t) /\ Used(ListenerRules(s)) \subseteq Used(ListenerRules(t))

(***************************************************************************)
(* "Create, then update, then delete; update from back to front": while    *)
(* rules are only added, or only removed, traffic that has a rule before   *)
(* and after the change has one at every moment in between, through any    *)
(* number of failed and repeated passes.  An update in the wrong order     *)
(* overwrites the only copy of a rule.                                     *)
(***************************************************************************)
ServedThroughout ==
  \A g \in goals : goals = {g} /\ (Grows(base, g) \/ Grows(g, base)) =>
    \A d \in Direction, t \in Traffic :
      /\ Route(ListenerRules(base), d, t) # None
      /\ Route(ListenerRules(g), d, t) # None
      => Route(cloud, d, t) # None

\* t is s with one rule added at any place.
OneMore(s, t) == Grows(s, t) /\ Len(t) = Len(s) + 1

(***************************************************************************)
(* When one rule is added or removed, all traffic is routed at every       *)
(* moment as before the change or as after it, although the rules behind   *)
(* that one move to other priorities one batch after the other.            *)
(***************************************************************************)
RoutedOldOrNew ==
  \A g \in goals : goals = {g} /\ (OneMore(base, g) \/ OneMore(g, base)) =>
    \A d \in Direction, t \in Traffic :
      Route(cloud, d, t) \in {Route(ListenerRules(base), d, t),
                              Route(ListenerRules(g), d, t)}

(***************************************************************************)
(* When failures and changes stop, the listener ends up with the rules of  *)
(* the Ingresses for good.                                                 *)
(***************************************************************************)
Converges == <>[](cloud = ListenerRules(want))
-----------------------------------------------------------------------------
\* What is left to do is written down: elsewhere the listener has the rules
\* of the pass, and these are the ones wanted unless another pass is due.
PassKnows ==
  /\ pc \in {"create", "update", "delete"} =>
       \A k \in Key \ (create \cup update \cup delete) : cloud[k] = res[k]
  /\ pc \in {"update", "delete"} => create = {}
  /\ pc = "delete" => update = {}
  /\ pc # "idle" /\ ~queued => res = ListenerRules(want)

\* The inductive invariant behind QuietInSync.
RuleInv == TypeOK /\ PassKnows /\ QuietInSync
=============================================================================
