------------------------------- MODULE MCNlb -------------------------------
(***************************************************************************)
(* Instances of the NLB controller for TLC: the specs a Service starts     *)
(* with and the edits a user may make to it.                               *)
(***************************************************************************)
EXTENDS NlbController, TLC

CONSTANTS s1, s2, p1, p2, u1, l1, l2, g1, g2, g3, g4, b1, b2

\* A Service of the given type on the given ports.
Sv(type, id, override, ports) ==
  [type |-> type, id |-> id, override |-> override, named |-> FALSE,
   ports |-> ports]

Own(ports)    == Sv("nlb", None, FALSE, ports)
Off(sp)       == [sp EXCEPT !.type = "none"]
Reuse(ports)  == Sv("nlb", u1, TRUE, ports)
Respect(ports) == Sv("nlb", u1, FALSE, ports)

\* A Service with a load balancer of its own; ports come and go, never back.
OwnInit == {[s \in Service |-> Own({p1})]}
OwnEdit ==
  {<<Own({p1}), Own({p1, p2})>>, <<Own({p1, p2}), Own({p2})>>,
   <<Own({p1}), Own({p2})>>}
  \cup {<<Own(ps), Off(Own(ps))>> : ps \in {{p1}, {p2}, {p1, p2}}}
\* A port is added and the first is taken away, in one pass or in two.
PortEdit == {<<Own({p1}), Own({p1, p2})>>, <<Own({p1, p2}), Own({p2})>>}
OffEdit == {e \in OwnEdit : e[2].type # "nlb"}

\* The same, with edits taken back.
RevertEdit == OwnEdit \cup {<<e[2], e[1]>> : e \in OwnEdit}

\* A Service that reuses the user's load balancer or stops doing so.
ReuseInit == [Service -> {Reuse({p1}), Respect({p1}), Own({p1})}]
ReuseEdit ==
  LET S == {Reuse({p1}), Respect({p1}), Own({p1}), Reuse({p2}),
            [Own({p1}) EXCEPT !.named = TRUE],
            Off(Reuse({p1})), Off(Own({p1})),
            [Own({p1}) EXCEPT !.type = "clb"]}
  IN  S \X S

\* Two Services share the user's load balancer.
SharedInit == {(s1 :> Reuse({p1})) @@ (s2 :> Reuse({p2}))}
SharedEdit == {<<sp, Off(sp)>> : sp \in {Reuse({p1}), Reuse({p2})}}

GroupSymmetry == Permutations(Group) \cup Permutations(LB \ UserLB)
=============================================================================
