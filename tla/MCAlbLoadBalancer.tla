------------------------- MODULE MCAlbLoadBalancer -------------------------
(***************************************************************************)
(* Instances of the load balancer of an AlbConfig: the specs it starts     *)
(* with and the edits.                                                     *)
(***************************************************************************)
EXTENDS AlbLoadBalancer, TLC

CONSTANTS c1, c2, u1, l1, l2, l3, k1, k2, v1, v2, v3, z1, z2, short

NoTags == [k \in Key |-> None]

Plain ==
  [id |-> None, force |-> FALSE, name |-> None, log |-> None,
   edition |-> None, bw |-> None, tags |-> NoTags, ipv6 |-> None,
   dual |-> FALSE, group |-> None, addr |-> None, zones |-> {},
   valid |-> TRUE]

Zones == (v1 :> z1) @@ (v2 :> z1) @@ (v3 :> z2)

\* Another name, log, package, tags, group; the second changes each again.
Rich == [Plain EXCEPT !.name = "n1", !.log = "log1", !.bw = "bw1",
                      !.tags = [NoTags EXCEPT ![k1] = "x"],
                      !.dual = TRUE, !.ipv6 = "Internet"]
Richer == [Rich EXCEPT !.name = "n2", !.log = "log2", !.bw = "bw2",
                       !.tags = [NoTags EXCEPT ![k2] = "y"],
                       !.group = "rg", !.edition = "WAF",
                       !.ipv6 = "Intranet"]
Bare == [Richer EXCEPT !.log = None, !.bw = None, !.tags = NoTags]
Broken == [Plain EXCEPT !.edition = "Basic", !.name = "n3"]
Nowhere == [Plain EXCEPT !.zones = {"unknown"}]
Reuse(s, force) == [s EXCEPT !.id = u1, !.force = force]

\* The user's ALB has settings of its own.
UserALB == [Free EXCEPT !.state = "live", !.name = "mine", !.log = "log0",
                        !.edition = "Standard", !.bw = "bw0",
                        !.ipv6 = "Internet",
                        !.custom = [NoTags EXCEPT ![k2] = "mine"]]

BadName == [Rich EXCEPT !.log = short]

AnyInit == {Rich, BadName, Nowhere, Reuse(Rich, FALSE), Reuse(Rich, TRUE)}
AnyEdit ==
  {<<Rich, Richer>>, <<Rich, Bare>>, <<Richer, Bare>>, <<Nowhere, Plain>>,
   <<BadName, Broken>>, <<Plain, Broken>>,
   <<Reuse(Rich, FALSE), Reuse(Richer, TRUE)>>,
   <<Reuse(Rich, TRUE), Reuse(Richer, FALSE)>>,
   <<Reuse(Rich, TRUE), Reuse(Bare, TRUE)>>}
\* Two AlbConfigs name the same ALB.
ClaimInit == {Reuse(Plain, FALSE)}

AllFaults == {"call", "lost", "unnamed", "crash", "console"}
=============================================================================
