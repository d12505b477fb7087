--------------------------- MODULE AlbRulesProofs ---------------------------
(***************************************************************************)
(* The rule applier is correct for every batch size, every set of lists    *)
(* and any number of failures and changes: once no pass is due, the        *)
(* listener has exactly the rules of the Ingresses, and while rules are    *)
(* added or removed traffic keeps its rules.                               *)
(***************************************************************************)
EXTENDS AlbRules, TLAPS, FiniteSetTheorems, WellFoundedInduction

\* The numbered rules of a list are rules of a listener.
LEMMA ListenerRulesType ==
  ASSUME NEW l \in Lists
  PROVE  ListenerRules(l) \in Rules
<1>1. l \in Seq(Rule)
  BY RulesAssumption
<1>. QED BY <1>1 DEF ListenerRules, Rules

\* The keys the pass has still to write.
Left == create \cup update \cup delete

\* Sending a batch brings the listener closer to the rules of the pass: outside
\* what is left then it has them already.
LEMMA PutBatch ==
  ASSUME TypeOK, NEW B, Put(B), \A k \in Key \ Left : cloud[k] = res[k]
  PROVE  /\ cloud' \in Rules
         /\ \A k \in Key \ (Left \ B) : cloud'[k] = res[k]
BY DEF TypeOK, Rules, Put

\* A listener that was in sync when the controller looked at it first.
LEMMA RuleInit == Init => RuleInv
<1>. SUFFICES ASSUME Init PROVE RuleInv
  OBVIOUS
<1>1. ListenerRules(want) \in Rules
  BY ListenerRulesType DEF Init
<1>2. faults \in 0..MaxFaults /\ edits \in 0..MaxEdits
  BY RulesAssumption DEF Init
<1>3. queued \in BOOLEAN /\ ascend \in BOOLEAN
  BY DEF Init
<1>4. TypeOK
  BY <1>1, <1>2, <1>3 DEF Init, TypeOK
<1>5. PassKnows /\ QuietInSync
  BY DEF Init, PassKnows, QuietInSync
<1>. QED BY <1>4, <1>5 DEF RuleInv

\* Every batch, failure and change keeps the record of what is left to do.
LEMMA RuleNext == RuleInv /\ [Next]_vars => RuleInv'
<1>. SUFFICES ASSUME RuleInv, [Next]_vars PROVE RuleInv'
  OBVIOUS
<1>. USE RulesAssumption DEF RuleInv
<1>1. CASE BuildModel
  <2>1. ListenerRules(want) \in Rules
    BY ListenerRulesType DEF TypeOK
  <2>. QED BY <1>1, <2>1 DEF BuildModel, TypeOK, PassKnows, QuietInSync
<1>2. CASE MatchRules
  <2>1. TypeOK'
    BY <1>2 DEF MatchRules, TypeOK, Used, Ascending
  <2>2. \A k \in Key \ (create' \cup update' \cup delete') : cloud'[k] = res'[k]
    BY <1>2 DEF MatchRules, TypeOK, Used
  <2>. QED BY <1>2, <2>1, <2>2 DEF MatchRules, PassKnows, QuietInSync
<1>3. CASE CreateALBListenerRules
  <2>1. PICK B \in Batches(create) : Put(B) /\ create' = create \ B
    BY <1>3 DEF CreateALBListenerRules
  <2>2. \A k \in Key \ Left : cloud[k] = res[k]
    BY <1>3 DEF CreateALBListenerRules, PassKnows, Left
  <2>3. /\ cloud' \in Rules
        /\ \A k \in Key \ (Left \ B) : cloud'[k] = res[k]
    BY <2>1, <2>2, PutBatch
  <2>4. \A k \in Key \ (create' \cup update' \cup delete') : cloud'[k] = res'[k]
    BY <1>3, <2>1, <2>3 DEF CreateALBListenerRules, Left
  <2>5. TypeOK'
    BY <1>3, <2>1, <2>3 DEF CreateALBListenerRules, TypeOK
  <2>6. PassKnows'
    BY <1>3, <2>1, <2>4 DEF CreateALBListenerRules, PassKnows
  <2>. QED BY <1>3, <2>5, <2>6 DEF CreateALBListenerRules, QuietInSync
<1>4. CASE UpdateALBListenerRules
  <2>1. PICK B \in NextBatches(update) : Put(B) /\ update' = update \ B
    BY <1>4 DEF UpdateALBListenerRules
  <2>2. \A k \in Key \ Left : cloud[k] = res[k]
    BY <1>4 DEF UpdateALBListenerRules, PassKnows, Left
  <2>3. /\ cloud' \in Rules
        /\ \A k \in Key \ (Left \ B) : cloud'[k] = res[k]
    BY <2>1, <2>2, PutBatch
  <2>4. \A k \in Key \ (create' \cup update' \cup delete') : cloud'[k] = res'[k]
    BY <1>4, <2>1, <2>3 DEF UpdateALBListenerRules, Left
  <2>5. TypeOK'
    BY <1>4, <2>1, <2>3 DEF UpdateALBListenerRules, TypeOK
  <2>6. PassKnows'
    BY <1>4, <2>1, <2>4 DEF UpdateALBListenerRules, PassKnows
  <2>. QED BY <1>4, <2>5, <2>6 DEF UpdateALBListenerRules, QuietInSync
<1>5. CASE DeleteALBListenerRules
  <2>1. PICK B \in Batches(delete) : Put(B) /\ delete' = delete \ B
    BY <1>5 DEF DeleteALBListenerRules
  <2>2. \A k \in Key \ Left : cloud[k] = res[k]
    BY <1>5 DEF DeleteALBListenerRules, PassKnows, Left
  <2>3. /\ cloud' \in Rules
        /\ \A k \in Key \ (Left \ B) : cloud'[k] = res[k]
    BY <2>1, <2>2, PutBatch
  <2>4. \A k \in Key \ (create' \cup update' \cup delete') : cloud'[k] = res'[k]
    BY <1>5, <2>1, <2>3 DEF DeleteALBListenerRules, Left
  <2>5. TypeOK'
    BY <1>5, <2>1, <2>3 DEF DeleteALBListenerRules, TypeOK
  <2>6. PassKnows'
    BY <1>5, <2>1, <2>4 DEF DeleteALBListenerRules, PassKnows
  <2>. QED BY <1>5, <2>5, <2>6 DEF DeleteALBListenerRules, QuietInSync
<1>6. CASE Created \/ Updated
  BY <1>6 DEF Created, Updated, pass, TypeOK, PassKnows, QuietInSync
<1>7. CASE Applied
  <2>1. \A k \in Key : cloud[k] = res[k]
    BY <1>7 DEF Applied, PassKnows
  <2>2. cloud = res
    BY <2>1 DEF TypeOK, Rules
  <2>. QED BY <1>7, <2>2 DEF Applied, pass, TypeOK, PassKnows, QuietInSync
<1>8. CASE IngressChange
  BY <1>8 DEF IngressChange, pass, TypeOK, PassKnows, QuietInSync
<1>9. CASE Fails
  BY <1>9 DEF Fails, pass, TypeOK, PassKnows, QuietInSync
<1>10. CASE UNCHANGED vars
  BY <1>10 DEF vars, pass, TypeOK, PassKnows, QuietInSync
<1>. QED BY <1>1, <1>2, <1>3, <1>4, <1>5, <1>6, <1>7, <1>8, <1>9, <1>10 DEF Next, Pass

(***************************************************************************)
(* For every batch size and any interleaving of changes, batches and       *)
(* failing calls: when no pass is due the rules of the listener are the    *)
(* rules of the Ingresses.                                                 *)
(***************************************************************************)
THEOREM RulesInSync == Behaviour => [](TypeOK /\ QuietInSync)
<1>1. RuleInv => TypeOK /\ QuietInSync
  BY DEF RuleInv
<1>. QED BY <1>1, RuleInit, RuleNext, PTL DEF Behaviour
-----------------------------------------------------------------------------
\* A set of priorities has a smallest one.
LEMMA Smallest ==
  ASSUME NEW S, S \subseteq Nat, S # {}
  PROVE  Min(S) \in S /\ \A y \in S : Min(S) <= y
<1>1. IsWellFoundedOn(OpToRel(<, Nat), Nat)
  BY NatLessThanWellFounded
<1>2. PICK x \in S : \A y \in S : ~(<<y, x>> \in OpToRel(<, Nat))
  BY <1>1, WFMin
<1>3. \A y \in S : ~(y < x)
  BY <1>2 DEF OpToRel
<1>4. \E z \in S : \A y \in S : z <= y
  BY <1>3
<1>. QED BY <1>4 DEF Min

\* An increasing function spreads its arguments.
LEMMA Spread ==
  ASSUME NEW m \in Nat, NEW n \in Nat, NEW f \in [1..m -> 1..n],
         \A i, j \in 1..m : i < j => f[i] < f[j],
         NEW i \in 1..m, NEW j \in 1..m, i <= j
  PROVE  f[i] + j <= f[j] + i
<1>. DEFINE h == [x \in i..j |-> f[x]]
<1>1. f[i] \in Nat /\ f[j] \in Nat
  OBVIOUS
<1>2. h \in Injection(i..j, f[i]..f[j])
  <2>1. \A x \in i..j : x \in 1..m /\ f[x] \in Nat
    OBVIOUS
  <2>2. \A x \in i..j : f[i] <= f[x] /\ f[x] <= f[j]
    <3>. TAKE x \in i..j
    <3>1. x \in 1..m /\ (i = x \/ i < x) /\ (x = j \/ x < j)
      OBVIOUS
    <3>2. f[i] <= f[x]
      BY <1>1, <2>1, <3>1
    <3>3. f[x] <= f[j]
      BY <1>1, <2>1, <3>1
    <3>. QED BY <3>2, <3>3
  <2>3. \A x, y \in i..j : f[x] = f[y] => x = y
    <3>. SUFFICES ASSUME NEW x \in i..j, NEW y \in i..j, x # y PROVE f[x] # f[y]
      OBVIOUS
    <3>1. x \in 1..m /\ y \in 1..m /\ f[x] \in Nat /\ f[y] \in Nat /\ (x < y \/ y < x)
      BY <2>1
    <3>2. CASE x < y
      <4>1. f[x] < f[y]
        BY <3>1, <3>2
      <4>. QED BY <3>1, <4>1
    <3>3. CASE y < x
      <4>1. f[y] < f[x]
        BY <3>1, <3>3
      <4>. QED BY <3>1, <4>1
    <3>. QED BY <3>1, <3>2, <3>3
  <2>4. h \in [i..j -> f[i]..f[j]]
    BY <1>1, <2>1, <2>2
  <2>5. \A x, y \in i..j : h[x] = h[y] => x = y
    BY <2>3
  <2>. HIDE DEF h
  <2>. QED BY <2>4, <2>5 DEF Injection, IsInjective
<1>3. /\ IsFiniteSet(f[i]..f[j]) /\ f[i] <= f[j]
      /\ Cardinality(f[i]..f[j]) = f[j] - f[i] + 1
  <2>1. f[i] <= f[j]
    BY <1>1
  <2>2. f[i] \in Int /\ f[j] \in Int
    BY <1>1
  <2>3. /\ IsFiniteSet(f[i]..f[j])
        /\ Cardinality(f[i]..f[j]) = IF f[i] > f[j] THEN 0 ELSE f[j] - f[i] + 1
    BY <2>2, FS_Interval
  <2>. QED BY <1>1, <2>1, <2>3
<1>4. Cardinality(i..j) = j - i + 1
  BY FS_Interval
<1>5. Cardinality(i..j) <= Cardinality(f[i]..f[j])
  BY <1>2, <1>3, FS_Injection
<1>. QED BY <1>1, <1>3, <1>4, <1>5

\* The rule of a list under a key.
LEMMA RuleAt ==
  ASSUME NEW l \in Lists, NEW d \in Direction
  PROVE  /\ l \in Seq(Rule) /\ DOMAIN l = 1..Len(l) /\ Len(l) \in Nat
         /\ DOMAIN l \subseteq Priority
         /\ \A p \in Priority :
              LET r == ListenerRules(l)[<<p, d>>]
              IN  /\ p \in DOMAIN l /\ Dir[l[p]] = d => r = l[p] /\ r \in Rule /\ r # None
                  /\ ~(p \in DOMAIN l /\ Dir[l[p]] = d) => r = None
<1>1. l \in Seq(Rule) /\ DOMAIN l = 1..Len(l) /\ Len(l) \in Nat
  BY RulesAssumption
<1>2. DOMAIN l \subseteq Priority
  BY DEF Priority
<1>3. \A p \in Priority : <<p, d>> \in Key /\ <<p, d>>[1] = p /\ <<p, d>>[2] = d
  BY DEF Key
<1>4. \A p \in Priority :
        ListenerRules(l)[<<p, d>>] = IF p \in DOMAIN l /\ Dir[l[p]] = d THEN l[p] ELSE None
  BY <1>3 DEF ListenerRules
<1>5. None \notin Rule
  BY RulesAssumption
<1>. QED BY <1>1, <1>2, <1>4, <1>5

\* The places f of the rules of lo in hi.
Embeds(f, lo, hi) ==
  /\ f \in [1..Len(lo) -> 1..Len(hi)]
  /\ \A i \in 1..Len(lo) : i <= f[i] /\ lo[i] = hi[f[i]]
  /\ \A i, j \in 1..Len(lo) : i <= j => f[i] + j <= f[j] + i
  /\ \A i \in 1..Len(lo) : i \in 1..Len(hi) /\ Dir[hi[i]] = Dir[lo[i]]
  /\ Len(lo) <= Len(hi)

\* A list that grows keeps its order: every rule stays or moves back.
LEMMA GrowthEmbeds ==
  ASSUME NEW lo \in Lists, NEW hi \in Lists, Grows(lo, hi)
  PROVE  \E f : Embeds(f, lo, hi)
<1>1. /\ DOMAIN lo = 1..Len(lo) /\ Len(lo) \in Nat
      /\ DOMAIN hi = 1..Len(hi) /\ Len(hi) \in Nat
      /\ lo \in Seq(Rule) /\ hi \in Seq(Rule)
  BY RulesAssumption
<1>2. PICK f \in [1..Len(lo) -> 1..Len(hi)] :
        /\ \A i, j \in 1..Len(lo) : i < j => f[i] < f[j]
        /\ \A i \in 1..Len(lo) : lo[i] = hi[f[i]]
  BY <1>1 DEF Grows, Subsequence
<1>3. \A i, j \in 1..Len(lo) : i <= j => f[i] + j <= f[j] + i
  BY <1>1, <1>2, Spread
<1>4. \A i \in 1..Len(lo) : f[i] \in 1..Len(hi)
  BY <1>2
<1>5. \A i \in 1..Len(lo) : i <= f[i] /\ i \in 1..Len(hi)
  <2>. TAKE i \in 1..Len(lo)
  <2>1. 1 \in 1..Len(lo) /\ 1 <= i
    BY <1>1
  <2>2. f[1] + i <= f[i] + 1
    BY <1>3, <2>1
  <2>3. f[1] \in 1..Len(hi) /\ f[i] \in 1..Len(hi)
    BY <1>4, <2>1
  <2>. QED BY <1>1, <2>2, <2>3
<1>6. \A i \in 1..Len(lo) : Dir[hi[i]] = Dir[lo[i]]
  <2>. TAKE i \in 1..Len(lo)
  <2>1. PICK d \in Direction : d = Dir[lo[i]]
    BY <1>1, RulesAssumption
  <2>2. i \in Priority
    BY <1>1 DEF Priority
  <2>3. ListenerRules(lo)[<<i, d>>] # None /\ <<i, d>> \in Key
    BY <1>1, <2>1, <2>2, RuleAt DEF Key
  <2>4. ListenerRules(hi)[<<i, d>>] # None
    BY <2>3 DEF Grows, Used
  <2>. QED BY <2>1, <2>2, <2>4, RuleAt
<1>7. Len(lo) <= Len(hi)
  <2>1. CASE Len(lo) = 0
    BY <1>1, <2>1
  <2>2. CASE Len(lo) # 0
    <3>1. Len(lo) \in 1..Len(lo)
      BY <1>1, <2>2
    <3>. QED BY <1>1, <1>5, <3>1
  <2>. QED BY <2>1, <2>2
<1>. QED BY <1>1, <1>2, <1>3, <1>5, <1>6, <1>7 DEF Embeds

\* A growing list whose keys do not grow is the same list of rules.
LEMMA SameKeys ==
  ASSUME NEW lo \in Lists, NEW hi \in Lists, Grows(lo, hi),
         Used(ListenerRules(hi)) \subseteq Used(ListenerRules(lo))
  PROVE  ListenerRules(hi) = ListenerRules(lo)
<1>1. /\ DOMAIN lo = 1..Len(lo) /\ Len(lo) \in Nat
      /\ DOMAIN hi = 1..Len(hi) /\ Len(hi) \in Nat
      /\ lo \in Seq(Rule) /\ hi \in Seq(Rule)
  BY RulesAssumption
<1>2. PICK f : Embeds(f, lo, hi)
  BY GrowthEmbeds
<1>3. \A p \in 1..Len(hi) : p \in 1..Len(lo)
  <2>. TAKE p \in 1..Len(hi)
  <2>1. PICK d \in Direction : d = Dir[hi[p]]
    BY <1>1, RulesAssumption
  <2>2. p \in Priority
    BY <1>1 DEF Priority
  <2>3. ListenerRules(hi)[<<p, d>>] # None /\ <<p, d>> \in Key
    BY <1>1, <2>1, <2>2, RuleAt DEF Key
  <2>4. ListenerRules(lo)[<<p, d>>] # None
    BY <2>3 DEF Used
  <2>. QED BY <1>1, <2>1, <2>2, <2>4, RuleAt
<1>4. Len(hi) = Len(lo)
  <2>1. Len(lo) <= Len(hi)
    BY <1>2 DEF Embeds
  <2>2. CASE Len(hi) = 0
    BY <1>1, <2>1, <2>2
  <2>3. CASE Len(hi) # 0
    <3>1. Len(hi) \in 1..Len(hi)
      BY <1>1, <2>3
    <3>2. Len(hi) \in 1..Len(lo)
      BY <1>3, <3>1
    <3>3. Len(lo) \in Nat /\ Len(hi) \in Nat
      BY <1>1
    <3>4. Len(hi) <= Len(lo)
      BY <3>2, <3>3
    <3>. QED BY <2>1, <3>3, <3>4
  <2>. QED BY <2>2, <2>3
<1>5. \A i \in 1..Len(lo) : lo[i] = hi[i]
  <2>. TAKE i \in 1..Len(lo)
  <2>1. Len(lo) \in 1..Len(lo) /\ i <= Len(lo)
    BY <1>1
  <2>2. f[i] + Len(lo) <= f[Len(lo)] + i
    BY <1>2, <2>1 DEF Embeds
  <2>3. f[Len(lo)] \in 1..Len(lo) /\ f[i] \in 1..Len(lo)
    BY <1>2, <1>4, <2>1 DEF Embeds
  <2>4. i <= f[i] /\ lo[i] = hi[f[i]]
    BY <1>2 DEF Embeds
  <2>5. f[i] = i
    BY <1>1, <2>2, <2>3, <2>4
  <2>. QED BY <2>4, <2>5
<1>. QED BY <1>1, <1>4, <1>5 DEF ListenerRules

(***************************************************************************)
(* Between lo, the shorter list, and hi a listener holds under every key   *)
(* the rule of one of them; a rule that is only in hi may be missing only  *)
(* while all of lo's rules are there; and up to some priority the rules    *)
(* are lo's, from there on hi's.                                           *)
(***************************************************************************)
Mixed(L, H, c) ==
  /\ \A k \in Key : c[k] \in {L[k], H[k]}
  /\ \A k \in Used(H) \ Used(L) : c[k] = None => \A j \in Used(L) : c[j] = L[j]
  /\ \A j, k \in Used(L) : j[1] < k[1] /\ c[k] # H[k] => c[j] = L[j]

\* A rule of lo that has been overwritten has its copy at its place in hi.
LEMMA Moved ==
  ASSUME NEW lo \in Lists, NEW hi \in Lists, NEW f, Embeds(f, lo, hi),
         NEW c \in Rules, Mixed(ListenerRules(lo), ListenerRules(hi), c),
         NEW i \in 1..Len(lo), NEW d \in Direction, Dir[lo[i]] = d,
         c[<<i, d>>] # lo[i]
  PROVE  f[i] \in Priority /\ i < f[i] /\ c[<<f[i], d>>] = lo[i]
<1>. DEFINE L == ListenerRules(lo)
            H == ListenerRules(hi)
<1>0. PICK b : b = f[i]
  OBVIOUS
<1>1. /\ DOMAIN lo = 1..Len(lo) /\ Len(lo) \in Nat
      /\ DOMAIN hi = 1..Len(hi) /\ Len(hi) \in Nat
      /\ lo \in Seq(Rule) /\ hi \in Seq(Rule)
  BY RulesAssumption
<1>2. /\ b \in 1..Len(hi) /\ i <= b /\ lo[i] = hi[b]
      /\ i \in 1..Len(hi) /\ Dir[hi[i]] = d
  BY <1>0 DEF Embeds
<1>3. i \in Priority /\ b \in Priority
  BY <1>1, <1>2 DEF Priority
<1>4. <<i, d>> \in Key /\ <<b, d>> \in Key
  BY <1>3 DEF Key
<1>5. L[<<i, d>>] = lo[i] /\ L[<<i, d>>] # None
  BY <1>1, <1>3, RuleAt
<1>6. H[<<b, d>>] = lo[i] /\ H[<<b, d>>] # None
  <2>1. b \in DOMAIN hi /\ Dir[hi[b]] = d
    BY <1>1, <1>2
  <2>2. H[<<b, d>>] = hi[b] /\ H[<<b, d>>] # None
    BY <1>3, <2>1, RuleAt
  <2>. QED BY <1>2, <2>2
<1>7. H[<<i, d>>] = hi[i]
  BY <1>1, <1>2, <1>3, RuleAt
<1>. HIDE DEF L, H
<1>8. c[<<i, d>>] # L[<<i, d>>]
  BY <1>5
<1>9. /\ \A k \in Key : c[k] \in {L[k], H[k]}
      /\ \A k \in Used(H) \ Used(L) : c[k] = None => \A j \in Used(L) : c[j] = L[j]
      /\ \A j, k \in Used(L) : j[1] < k[1] /\ c[k] # H[k] => c[j] = L[j]
  BY DEF Mixed, L, H
<1>10. b # i
  <2>. SUFFICES ASSUME b = i PROVE FALSE
    OBVIOUS
  <2>1. H[<<i, d>>] = L[<<i, d>>]
    BY <1>5, <1>6
  <2>. QED BY <1>4, <1>8, <1>9, <2>1
<1>11. i \in Nat /\ b \in Nat /\ i < b
  BY <1>1, <1>2, <1>10
<1>12. <<i, d>> \in Used(L)
  BY <1>4, <1>5 DEF Used
<1>13. c[<<b, d>>] = H[<<b, d>>]
  <2>1. CASE <<b, d>> \in Used(L)
    <3>1. <<i, d>>[1] < <<b, d>>[1]
      BY <1>11
    <3>. QED BY <1>8, <1>9, <1>12, <2>1, <3>1
  <2>2. CASE <<b, d>> \notin Used(L)
    <3>1. <<b, d>> \in Used(H) \ Used(L) /\ L[<<b, d>>] = None
      BY <1>4, <1>6, <2>2 DEF Used
    <3>2. c[<<b, d>>] # None
      BY <1>8, <1>9, <1>12, <3>1
    <3>. QED BY <1>4, <1>9, <3>1, <3>2
  <2>. QED BY <2>1, <2>2
<1>. QED BY <1>0, <1>3, <1>6, <1>11, <1>13

\* Traffic t meets the first of the rules it matches.
LEMMA RouteIs ==
  ASSUME NEW rs \in Rules, NEW d \in Direction, NEW t \in Traffic
  PROVE  /\ \A p \in Priority : <<t, rs[<<p, d>>]>> \in Match => rs[<<p, d>>] # None
         /\ (\A p \in Priority : <<t, rs[<<p, d>>]>> \notin Match) => Route(rs, d, t) = None
         /\ Route(rs, d, t) # None => \E p \in Priority : <<t, rs[<<p, d>>]>> \in Match
         /\ \A p \in Priority :
              /\ <<t, rs[<<p, d>>]>> \in Match
              /\ \A q \in Priority : q < p => <<t, rs[<<q, d>>]>> \notin Match
              => Route(rs, d, t) = rs[<<p, d>>]
         /\ (\E p \in Priority : <<t, rs[<<p, d>>]>> \in Match) =>
              \E p \in Priority :
                /\ <<t, rs[<<p, d>>]>> \in Match
                /\ \A q \in Priority : q < p => <<t, rs[<<q, d>>]>> \notin Match
                /\ Route(rs, d, t) = rs[<<p, d>>]
<1>. DEFINE ps == {p \in Priority : <<t, rs[<<p, d>>]>> \in Match}
<1>1. Priority \subseteq Nat
  BY RulesAssumption DEF Priority
<1>2. \A r : <<t, r>> \in Match => r \in Rule /\ r # None
  BY RulesAssumption
<1>3. Route(rs, d, t) = IF ps = {} THEN None ELSE rs[<<Min(ps), d>>]
  BY DEF Route
<1>4. ps \subseteq Nat
  BY <1>1
<1>5. ps # {} => Min(ps) \in ps /\ \A y \in ps : Min(ps) <= y
  BY <1>4, Smallest
<1>6. \A p \in Priority : <<t, rs[<<p, d>>]>> \in Match <=> p \in ps
  OBVIOUS
<1>7. \A p \in ps : p \in Priority
  OBVIOUS
<1>. HIDE DEF ps
<1>8. PICK m : m = Min(ps)
  OBVIOUS
<1>9. ps # {} => /\ m \in ps /\ m \in Priority /\ m \in Nat
                 /\ \A q \in Priority : q < m => q \notin ps
                 /\ Route(rs, d, t) = rs[<<m, d>>]
  <2>. SUFFICES ASSUME ps # {}
                PROVE  /\ m \in ps /\ m \in Priority /\ m \in Nat
                       /\ \A q \in Priority : q < m => q \notin ps
                       /\ Route(rs, d, t) = rs[<<m, d>>]
    OBVIOUS
  <2>1. m \in ps /\ \A y \in ps : m <= y
    BY <1>5, <1>8
  <2>2. m \in Priority /\ m \in Nat
    BY <1>4, <1>7, <2>1
  <2>3. \A q \in Priority : q < m => q \notin ps
    BY <1>4, <2>1, <2>2
  <2>4. Route(rs, d, t) = rs[<<m, d>>]
    BY <1>3, <1>8
  <2>. QED BY <2>1, <2>2, <2>3, <2>4
<1>10. \A p \in Priority :
         p \in ps /\ (\A q \in Priority : q < p => q \notin ps) => p = m
  BY <1>1, <1>4, <1>5, <1>8, <1>9
<1>11. ps = {} => Route(rs, d, t) = None
  BY <1>3
<1>. QED BY <1>2, <1>6, <1>7, <1>9, <1>10, <1>11

\* Traffic with a rule in lo has a rule in every mixture of lo and hi.
LEMMA MixedServes ==
  ASSUME NEW lo \in Lists, NEW hi \in Lists, Grows(lo, hi),
         NEW c \in Rules, Mixed(ListenerRules(lo), ListenerRules(hi), c),
         NEW d \in Direction, NEW t \in Traffic,
         Route(ListenerRules(lo), d, t) # None
  PROVE  Route(c, d, t) # None
<1>1. PICK L \in Rules : L = ListenerRules(lo)
  BY ListenerRulesType
<1>2. PICK i \in Priority : <<t, L[<<i, d>>]>> \in Match /\ L[<<i, d>>] # None
  <2>1. PICK i \in Priority : <<t, L[<<i, d>>]>> \in Match
    BY <1>1, RouteIs
  <2>. QED BY <2>1, RouteIs
<1>3. i \in 1..Len(lo) /\ Dir[lo[i]] = d /\ L[<<i, d>>] = lo[i]
  BY <1>1, <1>2, RuleAt
<1>4. PICK f : Embeds(f, lo, hi)
  BY GrowthEmbeds
<1>5. \E p \in Priority : c[<<p, d>>] = lo[i]
  <2>1. CASE c[<<i, d>>] = lo[i]
    BY <1>2, <2>1
  <2>2. CASE c[<<i, d>>] # lo[i]
    <3>1. f[i] \in Priority /\ i < f[i] /\ c[<<f[i], d>>] = lo[i]
      BY <1>3, <1>4, <2>2, Moved
    <3>. QED BY <3>1
  <2>. QED BY <2>1, <2>2
<1>6. PICK p \in Priority : <<t, c[<<p, d>>]>> \in Match
  BY <1>2, <1>3, <1>5
<1>7. PICK q \in Priority : <<t, c[<<q, d>>]>> \in Match /\ Route(c, d, t) = c[<<q, d>>]
  BY <1>6, RouteIs
<1>8. c[<<q, d>>] # None
  BY <1>7, RouteIs
<1>. QED BY <1>7, <1>8

\* One rule more: the rules before some place stay, those behind it move by one.
LEMMA MovedByOne ==
  ASSUME NEW lo \in Lists, NEW hi \in Lists, NEW f, Embeds(f, lo, hi),
         Len(hi) = Len(lo) + 1
  PROVE  /\ \A i \in 1..Len(lo) : f[i] \in {i, i + 1}
         /\ \A i, j \in 1..Len(lo) : i <= j /\ f[i] = i + 1 => f[j] = j + 1
<1>1. Len(lo) \in Nat
  BY RulesAssumption
<1>2. \A i \in 1..Len(lo) : f[i] \in 1..(Len(lo) + 1)
  BY DEF Embeds
<1>3. \A i \in 1..Len(lo) : f[i] \in {i, i + 1}
  <2>. TAKE i \in 1..Len(lo)
  <2>1. Len(lo) \in 1..Len(lo) /\ i <= Len(lo)
    BY <1>1
  <2>2. f[i] + Len(lo) <= f[Len(lo)] + i /\ i <= f[i]
    BY <2>1 DEF Embeds
  <2>3. f[i] \in 1..(Len(lo) + 1) /\ f[Len(lo)] \in 1..(Len(lo) + 1)
    BY <1>2, <2>1
  <2>. QED BY <1>1, <2>2, <2>3
<1>4. ASSUME NEW i \in 1..Len(lo), NEW j \in 1..Len(lo), i <= j, f[i] = i + 1
      PROVE  f[j] = j + 1
  <2>1. f[i] + j <= f[j] + i
    BY <1>4 DEF Embeds
  <2>2. f[j] \in {j, j + 1}
    BY <1>3
  <2>. QED BY <1>1, <1>4, <2>1, <2>2
<1>. QED BY <1>3, <1>4

\* With one rule more, or one less, a mixture routes traffic like one of the
\* two lists: like lo if some rule of hi is not in place.
LEMMA MixedRoutes ==
  ASSUME NEW lo \in Lists, NEW hi \in Lists, OneMore(lo, hi),
         NEW c \in Rules, Mixed(ListenerRules(lo), ListenerRules(hi), c),
         NEW d \in Direction, NEW t \in Traffic
  PROVE  Route(c, d, t) \in {Route(ListenerRules(lo), d, t),
                             Route(ListenerRules(hi), d, t)}
<1>1. PICK L \in Rules : L = ListenerRules(lo)
  BY ListenerRulesType
<1>2. PICK H \in Rules : H = ListenerRules(hi)
  BY ListenerRulesType
<1>3. Grows(lo, hi) /\ Len(hi) = Len(lo) + 1
  BY DEF OneMore
<1>4. PICK f : Embeds(f, lo, hi)
  BY <1>3, GrowthEmbeds
<1>5. /\ \A i \in 1..Len(lo) : f[i] \in {i, i + 1}
      /\ \A i, j \in 1..Len(lo) : i <= j /\ f[i] = i + 1 => f[j] = j + 1
  BY <1>3, <1>4, MovedByOne
<1>6. PICK n \in Nat : n = Len(lo) /\ Len(hi) = n + 1
  BY <1>3, RulesAssumption
<1>7. /\ DOMAIN lo = 1..n /\ DOMAIN hi = 1..(n + 1)
      /\ DOMAIN lo \subseteq Priority /\ DOMAIN hi \subseteq Priority
      /\ Priority \subseteq Nat \ {0}
  BY <1>6, RulesAssumption DEF Priority
<1>8. \A p \in Priority :
        /\ L[<<p, d>>] = IF p \in 1..n /\ Dir[lo[p]] = d THEN lo[p] ELSE None
        /\ H[<<p, d>>] = IF p \in 1..(n + 1) /\ Dir[hi[p]] = d THEN hi[p] ELSE None
        /\ p \in 1..n /\ Dir[lo[p]] = d => L[<<p, d>>] # None
        /\ p \in 1..(n + 1) /\ Dir[hi[p]] = d => H[<<p, d>>] # None
        /\ <<p, d>> \in Key /\ <<p, d>>[1] = p
  <2>1. \A p \in Priority : <<p, d>> \in Key /\ <<p, d>>[1] = p
    BY DEF Key
  <2>2. \A p \in Priority :
        /\ L[<<p, d>>] = IF p \in 1..n /\ Dir[lo[p]] = d THEN lo[p] ELSE None
        /\ p \in 1..n /\ Dir[lo[p]] = d => L[<<p, d>>] # None
    BY <1>1, <1>7, RuleAt
  <2>3. \A p \in Priority :
        /\ H[<<p, d>>] = IF p \in 1..(n + 1) /\ Dir[hi[p]] = d THEN hi[p] ELSE None
        /\ p \in 1..(n + 1) /\ Dir[hi[p]] = d => H[<<p, d>>] # None
    BY <1>2, <1>7, RuleAt
  <2>. QED BY <2>1, <2>2, <2>3
<1>9. \A i \in 1..n : Dir[hi[i]] = Dir[lo[i]] /\ lo[i] = hi[f[i]]
  BY <1>4, <1>6 DEF Embeds
<1>10. /\ \A k \in Key : c[k] \in {L[k], H[k]}
       /\ \A k \in Used(H) \ Used(L) : c[k] = None => \A j \in Used(L) : c[j] = L[j]
       /\ \A j, k \in Used(L) : j[1] < k[1] /\ c[k] # H[k] => c[j] = L[j]
  BY <1>1, <1>2 DEF Mixed
<1>11. \A p \in Priority : c[<<p, d>>] \in {L[<<p, d>>], H[<<p, d>>]}
  BY <1>8, <1>10
<1>12. CASE \A p \in Priority : c[<<p, d>>] = H[<<p, d>>]
  <2>1. Route(c, d, t) = Route(H, d, t)
    <3>1. CASE \A q \in Priority : <<t, H[<<q, d>>]>> \notin Match
      <4>1. Route(H, d, t) = None
        BY <3>1, RouteIs
      <4>2. Route(c, d, t) = None
        BY <1>12, <3>1, RouteIs
      <4>. QED BY <4>1, <4>2
    <3>2. CASE \E q \in Priority : <<t, H[<<q, d>>]>> \in Match
      <4>1. PICK m \in Priority :
              /\ <<t, H[<<m, d>>]>> \in Match
              /\ \A q \in Priority : q < m => <<t, H[<<q, d>>]>> \notin Match
              /\ Route(H, d, t) = H[<<m, d>>]
        BY <3>2, RouteIs
      <4>2. /\ <<t, c[<<m, d>>]>> \in Match
            /\ \A q \in Priority : q < m => <<t, c[<<q, d>>]>> \notin Match
        BY <1>12, <4>1
      <4>3. Route(c, d, t) = c[<<m, d>>]
        BY <4>2, RouteIs
      <4>. QED BY <1>12, <4>1, <4>3
    <3>. QED BY <3>1, <3>2
  <2>. QED BY <1>2, <2>1
<1>13. CASE \E p \in Priority : c[<<p, d>>] # H[<<p, d>>]
  <2>1. PICK T \in Priority : c[<<T, d>>] # H[<<T, d>>]
    BY <1>13
  <2>2. c[<<T, d>>] = L[<<T, d>>] /\ L[<<T, d>>] # H[<<T, d>>]
    BY <1>11, <2>1
  <2>3. T \in 1..(n + 1)
    BY <1>8, <2>2, <1>6, <1>7
  <2>4. \A p \in Priority : p < T => c[<<p, d>>] = L[<<p, d>>]
    <3>. SUFFICES ASSUME NEW p \in Priority, p < T PROVE c[<<p, d>>] = L[<<p, d>>]
      OBVIOUS
    <3>1. p \in 1..n
      BY <1>6, <1>7, <2>3
    <3>2. CASE Dir[lo[p]] # d
      BY <1>8, <1>9, <1>11, <3>1, <3>2, <1>7, <1>6
    <3>3. CASE Dir[lo[p]] = d
      <4>1. <<p, d>> \in Used(L)
        BY <1>8, <3>1, <3>3 DEF Used
      <4>2. CASE <<T, d>> \in Used(L)
        <5>1. <<p, d>>[1] < <<T, d>>[1]
          BY <1>8
        <5>. QED BY <1>10, <2>1, <4>1, <4>2, <5>1
      <4>3. CASE <<T, d>> \notin Used(L)
        <5>1. L[<<T, d>>] = None /\ <<T, d>> \in Key
          BY <1>8, <4>3 DEF Used
        <5>2. <<T, d>> \in Used(H) \ Used(L) /\ c[<<T, d>>] = None
          BY <2>2, <4>3, <5>1 DEF Used
        <5>. QED BY <1>10, <4>1, <5>2
      <4>. QED BY <4>2, <4>3
    <3>. QED BY <3>2, <3>3
  <2>5. \A p \in Priority : T < p /\ c[<<p, d>>] # L[<<p, d>>] =>
          /\ p - 1 \in 1..n /\ p - 1 \in Priority /\ T <= p - 1
          /\ c[<<p, d>>] = L[<<p - 1, d>>]
    <3>. SUFFICES ASSUME NEW p \in Priority, T < p, c[<<p, d>>] # L[<<p, d>>]
                  PROVE  /\ p - 1 \in 1..n /\ p - 1 \in Priority /\ T <= p - 1
                         /\ c[<<p, d>>] = L[<<p - 1, d>>]
      OBVIOUS
    <3>1. c[<<p, d>>] = H[<<p, d>>] /\ H[<<p, d>>] # L[<<p, d>>]
      BY <1>11
    <3>2. p \in 1..(n + 1)
      BY <1>6, <1>7, <1>8, <3>1
    <3>3. PICK q \in 1..n : q = p - 1 /\ T <= q /\ p = q + 1
      BY <1>6, <1>7, <2>3, <3>2
    <3>4. T \in 1..n /\ q \in Priority
      BY <1>6, <1>7, <2>3, <3>3
    <3>5. f[T] = T + 1
      <4>1. Dir[hi[T]] = d /\ lo[T] # hi[T]
        BY <1>8, <1>9, <2>2, <3>4
      <4>. QED BY <1>5, <1>6, <1>9, <3>4, <4>1
    <3>6. f[q] = p
      BY <1>5, <1>6, <3>3, <3>4, <3>5
    <3>7. hi[p] = lo[q]
      BY <1>9, <3>3, <3>6
    <3>8. H[<<p, d>>] = L[<<q, d>>]
      BY <1>8, <3>2, <3>3, <3>4, <3>7
    <3>. QED BY <3>1, <3>3, <3>4, <3>8
  <2>6. Route(c, d, t) = Route(L, d, t)
    <3>1. ASSUME NEW m \in Priority,
                 \A q \in Priority : q < m => <<t, L[<<q, d>>]>> \notin Match
          PROVE  \A q \in Priority : q < m => <<t, c[<<q, d>>]>> \notin Match
      <4>. SUFFICES ASSUME NEW q \in Priority, q < m, <<t, c[<<q, d>>]>> \in Match
                    PROVE  FALSE
        OBVIOUS
      <4>1. c[<<q, d>>] # L[<<q, d>>]
        BY <3>1
      <4>2. T < q
        BY <1>7, <2>2, <2>4, <4>1
      <4>3. PICK o \in Priority : o = q - 1 /\ c[<<q, d>>] = L[<<o, d>>]
        BY <2>5, <4>1, <4>2
      <4>4. o < m
        BY <1>7, <4>3
      <4>. QED BY <3>1, <4>3, <4>4
    <3>2. CASE \A q \in Priority : <<t, L[<<q, d>>]>> \notin Match
      <4>1. ASSUME NEW q \in Priority, <<t, c[<<q, d>>]>> \in Match PROVE FALSE
        <5>1. c[<<q, d>>] # L[<<q, d>>]
          BY <3>2, <4>1
        <5>2. T < q
          BY <1>7, <2>2, <2>4, <5>1
        <5>3. PICK o \in Priority : c[<<q, d>>] = L[<<o, d>>]
          BY <2>5, <5>1, <5>2
        <5>. QED BY <3>2, <4>1, <5>3
      <4>2. Route(L, d, t) = None
        BY <3>2, RouteIs
      <4>3. Route(c, d, t) = None
        BY <4>1, RouteIs
      <4>. QED BY <4>2, <4>3
    <3>3. CASE \E q \in Priority : <<t, L[<<q, d>>]>> \in Match
      <4>1. PICK m \in Priority :
              /\ <<t, L[<<m, d>>]>> \in Match
              /\ \A q \in Priority : q < m => <<t, L[<<q, d>>]>> \notin Match
              /\ Route(L, d, t) = L[<<m, d>>]
        BY <3>3, RouteIs
      <4>2. \A q \in Priority : q < m => <<t, c[<<q, d>>]>> \notin Match
        BY <3>1, <4>1
      <4>3. CASE c[<<m, d>>] = L[<<m, d>>]
        <5>1. Route(c, d, t) = c[<<m, d>>]
          BY <4>1, <4>2, <4>3, RouteIs
        <5>. QED BY <4>1, <4>3, <5>1
      <4>4. CASE c[<<m, d>>] # L[<<m, d>>]
        <5>1. L[<<m, d>>] # None
          BY <4>1, RouteIs
        <5>2. m \in 1..n /\ Dir[lo[m]] = d /\ L[<<m, d>>] = lo[m]
          BY <1>8, <5>1
        <5>3. f[m] \in Priority /\ m < f[m] /\ c[<<f[m], d>>] = lo[m]
          <6>1. m \in 1..Len(lo) /\ c[<<m, d>>] # lo[m]
            BY <1>6, <4>4, <5>2
          <6>. QED BY <1>4, <5>2, <6>1, Moved
        <5>4. f[m] = m + 1
          BY <1>5, <1>6, <5>2, <5>3
        <5>5. T < m
          BY <1>7, <2>2, <2>4, <4>4
        <5>6. PICK o \in Priority : o = m - 1 /\ c[<<m, d>>] = L[<<o, d>>]
          BY <2>5, <4>4, <5>5
        <5>7. <<t, c[<<m, d>>]>> \notin Match
          <6>1. o < m
            BY <1>7, <5>6
          <6>. QED BY <4>1, <5>6, <6>1
        <5>8. \A q \in Priority : q < f[m] => <<t, c[<<q, d>>]>> \notin Match
          <6>. SUFFICES ASSUME NEW q \in Priority, q < f[m]
                        PROVE  <<t, c[<<q, d>>]>> \notin Match
            OBVIOUS
          <6>1. q = m \/ q < m
            BY <1>7, <5>4
          <6>. QED BY <4>2, <5>7, <6>1
        <5>9. <<t, c[<<f[m], d>>]>> \in Match
          BY <4>1, <5>2, <5>3
        <5>10. Route(c, d, t) = c[<<f[m], d>>]
          BY <5>3, <5>8, <5>9, RouteIs
        <5>. QED BY <4>1, <5>2, <5>3, <5>10
      <4>. QED BY <4>3, <4>4
    <3>. QED BY <3>2, <3>3
  <2>. QED BY <1>1, <2>6
<1>. QED BY <1>12, <1>13

\* What a pass towards the rules rs has to do to a listener with the rules c.
ToCreate(rs, c) == Used(rs) \ Used(c)
ToUpdate(rs, c) == {k \in Used(rs) \cap Used(c) : c[k] # rs[k]}
ToDelete(rs, c) == Used(c) \ Used(rs)

\* The rules c after a batch for the keys in B.
Sent(rs, c, B) == [k \in Key |-> IF k \in B THEN rs[k] ELSE c[k]]

\* A batch takes its keys, and no others, off what is left to do.
LEMMA SentLeft ==
  ASSUME NEW rs \in Rules, NEW c \in Rules, NEW B
  PROVE  /\ ToCreate(rs, Sent(rs, c, B)) = ToCreate(rs, c) \ B
         /\ ToUpdate(rs, Sent(rs, c, B)) = ToUpdate(rs, c) \ B
         /\ ToDelete(rs, Sent(rs, c, B)) = ToDelete(rs, c) \ B
<1>1. PICK e : e = Sent(rs, c, B)
  OBVIOUS
<1>2. \A k \in Key : e[k] = IF k \in B THEN rs[k] ELSE c[k]
  BY <1>1 DEF Sent
<1>3. ToCreate(rs, e) = ToCreate(rs, c) \ B
  BY <1>2 DEF ToCreate, Used
<1>4. ToUpdate(rs, e) = ToUpdate(rs, c) \ B
  BY <1>2 DEF ToUpdate, Used
<1>5. ToDelete(rs, e) = ToDelete(rs, c) \ B
  BY <1>2 DEF ToDelete, Used
<1>. QED BY <1>1, <1>3, <1>4, <1>5

\* The batches of a pass: rules to create; or, when there are none left, rules
\* to update, in the order of the priorities when rules have to be deleted and
\* against it when not; or, when only these are left, rules to delete.
Step(rs, c, B) ==
  \/ B \subseteq ToCreate(rs, c)
  \/ /\ B \subseteq ToUpdate(rs, c) /\ ToCreate(rs, c) = {}
     /\ \A j \in B, k \in ToUpdate(rs, c) \ B :
          IF ToDelete(rs, c) # {} THEN j[1] <= k[1] ELSE j[1] >= k[1]
  \/ /\ B \subseteq ToDelete(rs, c)
     /\ ToCreate(rs, c) = {} /\ ToUpdate(rs, c) = {}

\* Priorities are numbers.
LEMMA KeyOrder == \A k \in Key : k[1] \in Nat
<1>1. Priority \subseteq Nat
  BY RulesAssumption DEF Priority
<1>. QED BY <1>1 DEF Key

\* While rules are added, creating and then updating from back to front keeps
\* the mixture.
LEMMA GrowthStep ==
  ASSUME NEW L \in Rules, NEW H \in Rules, NEW c \in Rules, NEW B,
         Used(L) \subseteq Used(H), Mixed(L, H, c), Step(H, c, B)
  PROVE  Mixed(L, H, Sent(H, c, B))
<1>1. PICK e : e = Sent(H, c, B)
  OBVIOUS
<1>2. \A k \in Key : e[k] = IF k \in B THEN H[k] ELSE c[k]
  BY <1>1 DEF Sent
<1>3. /\ \A k \in Key : c[k] \in {L[k], H[k]}
      /\ \A k \in Used(H) \ Used(L) : c[k] = None => \A j \in Used(L) : c[j] = L[j]
      /\ \A j, k \in Used(L) : j[1] < k[1] /\ c[k] # H[k] => c[j] = L[j]
  BY DEF Mixed
<1>4. \A k \in Key : e[k] \in {L[k], H[k]}
  BY <1>2, <1>3
<1>5. ToDelete(H, c) = {}
  BY <1>3 DEF ToDelete, Used
<1>6. CASE B \subseteq ToCreate(H, c)
  <2>1. \A j \in Used(L) : j \in Key /\ j \notin B
    BY <1>3, <1>6 DEF ToCreate, Used
  <2>2. \A j \in Used(L) : e[j] = c[j]
    BY <1>2, <2>1
  <2>3. \A k \in Used(H) \ Used(L) : e[k] = None => c[k] = None
    BY <1>2 DEF Used
  <2>4. \A k \in Used(H) \ Used(L) : e[k] = None => \A j \in Used(L) : e[j] = L[j]
    BY <1>3, <2>2, <2>3
  <2>5. \A j, k \in Used(L) : j[1] < k[1] /\ e[k] # H[k] => e[j] = L[j]
    BY <1>3, <2>2
  <2>6. Mixed(L, H, e)
    BY <1>4, <2>4, <2>5 DEF Mixed
  <2>. QED BY <1>1, <2>6
<1>7. CASE /\ B \subseteq ToUpdate(H, c) /\ ToCreate(H, c) = {}
           /\ \A j \in B, k \in ToUpdate(H, c) \ B : j[1] >= k[1]
  <2>1. \A k \in Used(H) : k \in Key /\ c[k] # None /\ H[k] # None
    BY <1>7 DEF ToCreate, Used
  <2>2. \A k \in Used(H) : e[k] # None
    BY <1>2, <2>1
  <2>3. ASSUME NEW j \in Used(L), NEW k \in Used(L), j[1] < k[1], e[k] # H[k]
        PROVE  e[j] = L[j]
    <3>1. k \in Key /\ j \in Key
      BY DEF Used
    <3>2. k \notin B /\ c[k] # H[k]
      BY <1>2, <2>3, <3>1
    <3>3. c[j] = L[j]
      BY <1>3, <2>3, <3>2
    <3>4. k \in ToUpdate(H, c)
      BY <2>1, <3>2 DEF ToUpdate, Used
    <3>5. j \notin B
      <4>. SUFFICES ASSUME j \in B PROVE FALSE
        OBVIOUS
      <4>1. j[1] >= k[1]
        BY <1>7, <3>2, <3>4
      <4>2. j[1] \in Nat /\ k[1] \in Nat
        BY <3>1, KeyOrder
      <4>. QED BY <2>3, <4>1, <4>2
    <3>. QED BY <1>2, <3>1, <3>3, <3>5
  <2>4. Mixed(L, H, e)
    BY <1>4, <2>2, <2>3 DEF Mixed
  <2>. QED BY <1>1, <2>4
<1>8. CASE B \subseteq ToDelete(H, c)
  <2>1. \A k \in Key : e[k] = c[k]
    BY <1>2, <1>5, <1>8
  <2>2. Mixed(L, H, e)
    BY <1>3, <2>1 DEF Mixed, Used
  <2>. QED BY <1>1, <2>2
<1>. QED BY <1>5, <1>6, <1>7, <1>8 DEF Step

\* While rules are removed, updating from front to back and then deleting keeps
\* the mixture.
LEMMA ShrinkStep ==
  ASSUME NEW L \in Rules, NEW H \in Rules, NEW c \in Rules, NEW B,
         Used(L) \subseteq Used(H), Used(H) \subseteq Used(L) => H = L,
         Mixed(L, H, c), Step(L, c, B)
  PROVE  Mixed(L, H, Sent(L, c, B))
<1>1. PICK e : e = Sent(L, c, B)
  OBVIOUS
<1>2. \A k \in Key : e[k] = IF k \in B THEN L[k] ELSE c[k]
  BY <1>1 DEF Sent
<1>3. /\ \A k \in Key : c[k] \in {L[k], H[k]}
      /\ \A k \in Used(H) \ Used(L) : c[k] = None => \A j \in Used(L) : c[j] = L[j]
      /\ \A j, k \in Used(L) : j[1] < k[1] /\ c[k] # H[k] => c[j] = L[j]
  BY DEF Mixed
<1>4. \A k \in Key : e[k] \in {L[k], H[k]}
  BY <1>2, <1>3
<1>5. ToCreate(L, c) = {}
  BY <1>3 DEF ToCreate, Used
<1>6. CASE B = {}
  <2>1. \A k \in Key : e[k] = c[k]
    BY <1>2, <1>6
  <2>2. Mixed(L, H, e)
    BY <1>3, <2>1 DEF Mixed, Used
  <2>. QED BY <1>1, <2>2
<1>7. CASE /\ B \subseteq ToUpdate(L, c) /\ B # {}
           /\ \A j \in B, k \in ToUpdate(L, c) \ B :
                IF ToDelete(L, c) # {} THEN j[1] <= k[1] ELSE j[1] >= k[1]
  <2>1. ToDelete(L, c) # {}
    <3>. SUFFICES ASSUME ToDelete(L, c) = {} PROVE FALSE
      OBVIOUS
    <3>1. PICK b \in Used(L) : c[b] # L[b]
      BY <1>7 DEF ToUpdate
    <3>2. \A k \in Used(H) \ Used(L) : c[k] = None
      BY DEF ToDelete, Used
    <3>3. Used(H) \ Used(L) = {}
      BY <1>3, <3>1, <3>2
    <3>4. H = L
      BY <3>3
    <3>. QED BY <1>3, <3>1, <3>4 DEF Used
  <2>2. \A k \in Key : e[k] = None => c[k] = None
    BY <1>2, <1>7 DEF ToUpdate, Used
  <2>3. \A j \in Used(L) : c[j] = L[j] => e[j] = L[j]
    BY <1>2 DEF Used
  <2>4. \A k \in Used(H) \ Used(L) : e[k] = None => \A j \in Used(L) : e[j] = L[j]
    BY <1>3, <2>2, <2>3 DEF Used
  <2>5. ASSUME NEW j \in Used(L), NEW k \in Used(L), j[1] < k[1], e[k] # H[k]
        PROVE  e[j] = L[j]
    <3>1. k \in Key /\ j \in Key
      BY DEF Used
    <3>2. CASE k \notin B
      BY <1>2, <1>3, <2>3, <2>5, <3>1, <3>2
    <3>3. CASE k \in B
      <4>1. CASE c[j] = L[j]
        BY <2>3, <4>1
      <4>2. CASE j \in B
        BY <1>2, <3>1, <4>2
      <4>3. CASE c[j] # L[j] /\ j \notin B
        <5>1. j \in ToUpdate(L, c)
          BY <1>5, <4>3 DEF ToUpdate, ToCreate
        <5>2. k[1] <= j[1]
          BY <1>7, <2>1, <3>3, <4>3, <5>1
        <5>3. j[1] \in Nat /\ k[1] \in Nat
          BY <3>1, KeyOrder
        <5>. QED BY <2>5, <5>2, <5>3
      <4>. QED BY <4>1, <4>2, <4>3
    <3>. QED BY <3>2, <3>3
  <2>6. Mixed(L, H, e)
    BY <1>4, <2>4, <2>5 DEF Mixed
  <2>. QED BY <1>1, <2>6
<1>8. CASE B \subseteq ToDelete(L, c) /\ ToUpdate(L, c) = {}
  <2>1. \A j \in Used(L) : c[j] = L[j] /\ j \in Key /\ j \notin B
    BY <1>5, <1>8 DEF ToCreate, ToUpdate, ToDelete, Used
  <2>2. \A j \in Used(L) : e[j] = L[j]
    BY <1>2, <2>1
  <2>3. Mixed(L, H, e)
    BY <1>4, <2>2 DEF Mixed
  <2>. QED BY <1>1, <2>3
<1>. QED BY <1>5, <1>6, <1>7, <1>8 DEF Step

\* The lists of keys are what is left to do, and the updates go from front to
\* back just when rules are to be deleted.
Tracked ==
  /\ pc \in {"create", "update", "delete"} =>
       /\ create = ToCreate(res, cloud)
       /\ update = ToUpdate(res, cloud)
       /\ delete = ToDelete(res, cloud)
  /\ pc \in {"create", "update"} => (ascend <=> delete # {})

\* A pass works towards one of the goals; without one the listener has the
\* rules of base.
Aimed ==
  /\ goals = {} => pc = "idle" /\ cloud = ListenerRules(base)
  /\ pc # "idle" => \E l \in goals : res = ListenerRules(l)

\* Between two lists of which one grows into the other the listener is mixed.
Between ==
  \A g \in goals : goals = {g} =>
    /\ Grows(base, g) => Mixed(ListenerRules(base), ListenerRules(g), cloud)
    /\ Grows(g, base) => Mixed(ListenerRules(g), ListenerRules(base), cloud)

\* The inductive invariant behind ServedThroughout and RoutedOldOrNew.
TrafficInv == RuleInv /\ Tracked /\ Aimed /\ Between

\* A batch of a pass towards the only goal keeps the mixture.
LEMMA BatchBetween ==
  ASSUME TrafficInv, NEW B, Put(B), Step(res, cloud, B), pc # "idle",
         base' = base, goals' = goals
  PROVE  Between'
<1>1. cloud \in Rules /\ res \in Rules /\ base \in Lists /\ goals \subseteq Lists
  BY DEF TrafficInv, RuleInv, TypeOK
<1>2. cloud' = Sent(res, cloud, B)
  BY DEF Put, Sent
<1>3. SUFFICES ASSUME NEW g \in goals, goals = {g}
      PROVE  /\ Grows(base, g) => Mixed(ListenerRules(base), ListenerRules(g), cloud')
             /\ Grows(g, base) => Mixed(ListenerRules(g), ListenerRules(base), cloud')
  BY DEF Between
<1>4. /\ Grows(base, g) => Mixed(ListenerRules(base), ListenerRules(g), cloud)
      /\ Grows(g, base) => Mixed(ListenerRules(g), ListenerRules(base), cloud)
  BY <1>3 DEF TrafficInv, Between
<1>5. res = ListenerRules(g)
  BY <1>3 DEF TrafficInv, Aimed
<1>6. g \in Lists
  BY <1>1
<1>7. PICK b \in Rules : b = ListenerRules(base)
  BY <1>1, ListenerRulesType
<1>8. ASSUME Grows(base, g) PROVE Mixed(b, res, cloud')
  <2>1. Used(b) \subseteq Used(res)
    BY <1>5, <1>7, <1>8 DEF Grows
  <2>2. Mixed(b, res, cloud)
    BY <1>4, <1>5, <1>7, <1>8
  <2>. QED BY <1>1, <1>2, <2>1, <2>2, GrowthStep
<1>9. ASSUME Grows(g, base) PROVE Mixed(res, b, cloud')
  <2>1. Used(res) \subseteq Used(b)
    BY <1>5, <1>7, <1>9 DEF Grows
  <2>2. Mixed(res, b, cloud)
    BY <1>4, <1>5, <1>7, <1>9
  <2>3. Used(b) \subseteq Used(res) => b = res
    BY <1>1, <1>5, <1>6, <1>7, <1>9, SameKeys
  <2>. QED BY <1>1, <1>2, <2>1, <2>2, <2>3, ShrinkStep
<1>. QED BY <1>5, <1>7, <1>8, <1>9

\* A batch of a pass keeps the lists of keys exact.
LEMMA BatchTracked ==
  ASSUME TrafficInv, NEW B, Put(B), pc \in {"create", "update", "delete"},
         res' = res
  PROVE  /\ ToCreate(res', cloud') = create \ B
         /\ ToUpdate(res', cloud') = update \ B
         /\ ToDelete(res', cloud') = delete \ B
<1>1. cloud \in Rules /\ res \in Rules
  BY DEF TrafficInv, RuleInv, TypeOK
<1>2. cloud' = Sent(res, cloud, B)
  BY DEF Put, Sent
<1>3. /\ create = ToCreate(res, cloud)
      /\ update = ToUpdate(res, cloud)
      /\ delete = ToDelete(res, cloud)
  BY DEF TrafficInv, Tracked
<1>. QED BY <1>1, <1>2, <1>3, SentLeft

\* A listener that has the rules of one of the two lists is mixed.
LEMMA MixedEnds ==
  ASSUME NEW L \in Rules, NEW H \in Rules
  PROVE  Mixed(L, H, L) /\ Mixed(L, H, H)
BY DEF Mixed, Used

\* A listener that was in sync when the controller looked at it first.
LEMMA TrafficInit == Init => TrafficInv
BY RuleInit DEF Init, TrafficInv, Tracked, Aimed, Between

\* Every batch, failure and change keeps the mixture.
LEMMA TrafficNext == TrafficInv /\ [Next]_vars => TrafficInv'
<1>. SUFFICES ASSUME TrafficInv, [Next]_vars PROVE TrafficInv'
  OBVIOUS
<1>0. RuleInv' /\ RuleInv
  BY RuleNext DEF TrafficInv
<1>1. Tracked /\ Aimed /\ Between /\ TypeOK
  BY DEF TrafficInv, RuleInv
<1>2. SUFFICES Tracked' /\ Aimed' /\ Between'
  BY <1>0 DEF TrafficInv
<1>3. CASE BuildModel
  <2>1. Tracked' /\ Aimed'
    BY <1>1, <1>3 DEF BuildModel, Tracked, Aimed
  <2>2. CASE goals = {}
    <3>1. cloud = ListenerRules(base) /\ base \in Lists /\ want \in Lists
      BY <1>1, <2>2 DEF Aimed, TypeOK
    <3>2. ListenerRules(base) \in Rules /\ ListenerRules(want) \in Rules
      BY <3>1, ListenerRulesType
    <3>3. /\ Mixed(ListenerRules(base), ListenerRules(want), cloud)
          /\ Mixed(ListenerRules(want), ListenerRules(base), cloud)
      BY <3>1, <3>2, MixedEnds
    <3>4. goals' = {want} /\ base' = base /\ cloud' = cloud
      BY <1>3, <2>2 DEF BuildModel
    <3>. QED BY <2>1, <3>3, <3>4 DEF Between
  <2>3. CASE goals # {}
    <3>1. \A g : goals' = {g} => goals = {g}
      BY <1>3, <2>3 DEF BuildModel
    <3>2. base' = base /\ cloud' = cloud
      BY <1>3 DEF BuildModel
    <3>. QED BY <1>1, <2>1, <3>1, <3>2 DEF Between
  <2>. QED BY <2>2, <2>3
<1>4. CASE MatchRules
  BY <1>1, <1>4 DEF MatchRules, Tracked, Aimed, Between, ToCreate, ToUpdate, ToDelete,
     Ascending
<1>5. CASE CreateALBListenerRules
  <2>1. PICK B \in Batches(create) : Put(B) /\ create' = create \ B
    BY <1>5 DEF CreateALBListenerRules
  <2>2. /\ pc = "create" /\ pc' = pc /\ res' = res /\ update' = update
        /\ delete' = delete /\ ascend' = ascend /\ base' = base /\ goals' = goals
    BY <1>5 DEF CreateALBListenerRules
  <2>3. B \subseteq ToCreate(res, cloud)
    BY <1>1, <2>1, <2>2 DEF Batches, Tracked
  <2>4. Between'
    BY <2>1, <2>2, <2>3, BatchBetween DEF Step
  <2>5. update \ B = update /\ delete \ B = delete
    BY <1>1, <2>2, <2>3 DEF Tracked, ToCreate, ToUpdate, ToDelete
  <2>6. Tracked'
    BY <1>1, <2>1, <2>2, <2>5, BatchTracked DEF Tracked
  <2>7. Aimed'
    BY <1>1, <2>2 DEF Aimed
  <2>. QED BY <2>4, <2>6, <2>7
<1>6. CASE UpdateALBListenerRules
  <2>1. PICK B \in NextBatches(update) : Put(B) /\ update' = update \ B
    BY <1>6 DEF UpdateALBListenerRules
  <2>2. /\ pc = "update" /\ pc' = pc /\ res' = res /\ create' = create
        /\ delete' = delete /\ ascend' = ascend /\ base' = base /\ goals' = goals
    BY <1>6 DEF UpdateALBListenerRules
  <2>3. B \subseteq update /\ \A j \in B, k \in update \ B : Before(j, k)
    BY <2>1 DEF NextBatches, Batches
  <2>4. /\ create = {} /\ create = ToCreate(res, cloud)
        /\ update = ToUpdate(res, cloud) /\ delete = ToDelete(res, cloud)
        /\ ascend <=> delete # {}
    BY <1>0, <1>1, <2>2 DEF Tracked, RuleInv, PassKnows
  <2>5. \A j \in B, k \in update \ B :
          IF delete # {} THEN j[1] <= k[1] ELSE j[1] >= k[1]
    BY <2>3, <2>4 DEF Before
  <2>6. Step(res, cloud, B)
    BY <2>3, <2>4, <2>5 DEF Step
  <2>7. Between'
    BY <2>1, <2>2, <2>6, BatchBetween
  <2>8. create \ B = create /\ delete \ B = delete
    BY <2>3, <2>4 DEF ToUpdate, ToDelete
  <2>9. Tracked'
    BY <1>1, <2>1, <2>2, <2>8, BatchTracked DEF Tracked
  <2>10. Aimed'
    BY <1>1, <2>2 DEF Aimed
  <2>. QED BY <2>7, <2>9, <2>10
<1>7. CASE DeleteALBListenerRules
  <2>1. PICK B \in Batches(delete) : Put(B) /\ delete' = delete \ B
    BY <1>7 DEF DeleteALBListenerRules
  <2>2. /\ pc = "delete" /\ pc' = pc /\ res' = res /\ create' = create
        /\ update' = update /\ base' = base /\ goals' = goals
    BY <1>7 DEF DeleteALBListenerRules
  <2>3. /\ create = {} /\ create = ToCreate(res, cloud)
        /\ update = {} /\ update = ToUpdate(res, cloud) /\ delete = ToDelete(res, cloud)
    BY <1>0, <1>1, <2>2 DEF Tracked, RuleInv, PassKnows
  <2>4. Step(res, cloud, B)
    BY <2>1, <2>3 DEF Step, Batches
  <2>5. Between'
    BY <2>1, <2>2, <2>4, BatchBetween
  <2>6. Tracked'
    BY <1>1, <2>1, <2>2, <2>3, BatchTracked DEF Tracked
  <2>7. Aimed'
    BY <1>1, <2>2 DEF Aimed
  <2>. QED BY <2>5, <2>6, <2>7
<1>8. CASE Created \/ Updated
  BY <1>1, <1>8 DEF Created, Updated, pass, Tracked, Aimed, Between
<1>9. CASE Applied
  <2>1. \A k \in Key : cloud[k] = res[k]
    BY <1>0, <1>9 DEF Applied, RuleInv, PassKnows
  <2>2. cloud = res
    BY <1>1, <2>1 DEF TypeOK, Rules
  <2>. QED BY <1>9, <2>2 DEF Applied, pass, Tracked, Aimed, Between
<1>10. CASE IngressChange
  BY <1>1, <1>10 DEF IngressChange, pass, Tracked, Aimed, Between
<1>11. CASE Fails
  BY <1>1, <1>11 DEF Fails, pass, Tracked, Aimed, Between
<1>12. CASE UNCHANGED vars
  BY <1>1, <1>12 DEF vars, pass, Tracked, Aimed, Between
<1>. QED BY <1>3, <1>4, <1>5, <1>6, <1>7, <1>8, <1>9, <1>10, <1>11, <1>12 DEF Next, Pass

(***************************************************************************)
(* For every batch size, any number of rules, changes and failing calls:   *)
(* while rules are only added, or only removed, traffic that has a rule    *)
(* before and after the change has one after every batch in between.       *)
(***************************************************************************)
THEOREM TrafficServed == Behaviour => []ServedThroughout
<1>1. TrafficInv => ServedThroughout
  <2>. SUFFICES ASSUME TrafficInv, NEW g \in goals, goals = {g},
                       Grows(base, g) \/ Grows(g, base),
                       NEW d \in Direction, NEW t \in Traffic,
                       Route(ListenerRules(base), d, t) # None,
                       Route(ListenerRules(g), d, t) # None
                PROVE  Route(cloud, d, t) # None
    BY DEF ServedThroughout
  <2>1. cloud \in Rules /\ base \in Lists /\ g \in Lists
    BY DEF TrafficInv, RuleInv, TypeOK
  <2>2. /\ Grows(base, g) => Mixed(ListenerRules(base), ListenerRules(g), cloud)
        /\ Grows(g, base) => Mixed(ListenerRules(g), ListenerRules(base), cloud)
    BY DEF TrafficInv, Between
  <2>. QED BY <2>1, <2>2, MixedServes
<1>. QED BY <1>1, TrafficInit, TrafficNext, PTL DEF Behaviour

(***************************************************************************)
(* When one rule is added or removed, traffic is routed after every batch  *)
(* as before the change or as after it, whatever failed and was repeated.  *)
(***************************************************************************)
THEOREM TrafficRouted == Behaviour => []RoutedOldOrNew
<1>1. TrafficInv => RoutedOldOrNew
  <2>. SUFFICES ASSUME TrafficInv, NEW g \in goals, goals = {g},
                       OneMore(base, g) \/ OneMore(g, base),
                       NEW d \in Direction, NEW t \in Traffic
                PROVE  Route(cloud, d, t) \in {Route(ListenerRules(base), d, t),
                                               Route(ListenerRules(g), d, t)}
    BY DEF RoutedOldOrNew
  <2>1. cloud \in Rules /\ base \in Lists /\ g \in Lists
    BY DEF TrafficInv, RuleInv, TypeOK
  <2>2. /\ OneMore(base, g) => Mixed(ListenerRules(base), ListenerRules(g), cloud)
        /\ OneMore(g, base) => Mixed(ListenerRules(g), ListenerRules(base), cloud)
    BY DEF TrafficInv, Between, OneMore
  <2>3. CASE OneMore(base, g)
    BY <2>1, <2>2, <2>3, MixedRoutes
  <2>4. CASE OneMore(g, base)
    BY <2>1, <2>2, <2>4, MixedRoutes
  <2>. QED BY <2>3, <2>4
<1>. QED BY <1>1, TrafficInit, TrafficNext, PTL DEF Behaviour
=============================================================================
