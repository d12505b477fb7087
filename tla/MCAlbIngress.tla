---------------------------- MODULE MCAlbIngress ----------------------------
(***************************************************************************)
(* Instances of the way from an Ingress to its ALB.                        *)
(***************************************************************************)
EXTENDS AlbIngress, TLC

CONSTANTS i1, i2, c1, c2, alb, other, bare, foreign,
          first, again, ported, moved, movedAgain, left, inert, paramless,
          ordered, unparsable, named, taken, direct

Base == [class |-> alb, inSpec |-> FALSE, config |-> None, order |-> 0,
         redirect |-> FALSE, listen |-> None, tls |-> FALSE, plain |-> TRUE]

InSpec(cls) == [Base EXCEPT !.class = cls, !.inSpec = TRUE]

\* Versions of Ingresses.  named has its class in the spec, ordered the order
\* of it, taken the port of ported with another protocol, direct the
\* annotation albconfig.name and a class that names no AlbConfig.
Attrs ==
  (first :> Base) @@ (again :> Base) @@
  (ported :> [Base EXCEPT !.tls = TRUE, !.plain = FALSE]) @@
  (moved :> [InSpec(other) EXCEPT !.tls = TRUE, !.redirect = TRUE]) @@
  (movedAgain :> InSpec(other)) @@
  (left :> InSpec(foreign)) @@ (inert :> InSpec(foreign)) @@
  (paramless :> InSpec(bare)) @@
  (ordered :> [Base EXCEPT !.order = 5]) @@
  (unparsable :> [Base EXCEPT !.listen = {}]) @@
  (named :> [InSpec(alb) EXCEPT !.order = 5]) @@
  (taken :> [InSpec(alb) EXCEPT !.listen = {<<443, "HTTP">>}]) @@
  (direct :> [InSpec(bare) EXCEPT !.config = c2])

Classes(c) == (alb :> c) @@ (other :> c2) @@ (bare :> NoParams) @@
              (foreign :> NoParams)

Two(v, u) == (i1 :> New(v, FALSE, 1)) @@ (i2 :> New(u, TRUE, 1))

\* e edits and d faults to come
Settled(v, u, e, d) ==
  [ing |-> Two(v, u), class |-> Classes(c1), settled |-> TRUE,
   edits |-> MaxEdits - e, faults |-> MaxFaults - d]

\* The controller comes up and the class alb is not there yet.
ComesUp ==
  [ing |-> Two(first, named), class |-> Classes(None), settled |-> FALSE,
   edits |-> MaxEdits, faults |-> MaxFaults]

\* An Ingress is edited while its first pass runs.
Untouched ==
  [ing |-> Two(again, inert), class |-> Classes(c1), settled |-> FALSE,
   edits |-> MaxEdits - 1, faults |-> MaxFaults]

\* Or an Ingress leaves its AlbConfig and is edited on, two of one AlbConfig
\* get in each other's way, and something fails.
Starts == {ComesUp, Untouched, Settled(first, inert, 2, 0), Settled(again, named, 2, 0),
           Settled(again, named, 1, 1), Settled(direct, first, 1, 1),
           Settled(first, named, 1, 1)}

OneIngress ==
  {[ing |-> (i1 :> New(first, FALSE, 1)), class |-> Classes(c1),
    settled |-> TRUE, edits |-> 0, faults |-> 0]}

Ports == {<<8080, "HTTP">>}

\* No version comes back.
Forward == {<<first, moved>>, <<moved, movedAgain>>, <<first, left>>,
            <<left, ported>>, <<named, taken>>, <<again, ported>>,
            <<again, paramless>>, <<again, ordered>>, <<again, unparsable>>}

\* An edit and its reversal.
BackAndForth == {<<first, ported>>, <<ported, first>>}
=============================================================================
