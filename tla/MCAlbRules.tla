----------------------------- MODULE MCAlbRules -----------------------------
(***************************************************************************)
(* Instances of the forwarding rules of a listener: short lists of rules   *)
(* without repetition, traffic that one or several of them match.          *)
(***************************************************************************)
EXTENDS AlbRules

CONSTANTS a, b, c, x

Directions == {"Request", "Response"}

Dirs == [r \in Rule |-> IF r = x THEN "Response" ELSE "Request"]

\* Request rules in their order, any of them left out, one list reversed,
\* and each of these with the Response rule in front or without it.
Requests ==
  {<<>>, <<a>>, <<b>>, <<c>>, <<a, b>>, <<a, c>>, <<b, c>>, <<a, b, c>>,
   <<c, b, a>>}
MixedLists == Requests \cup {<<x>> \o s : s \in Requests}

\* Traffic is the set of rules it matches.
AnyTraffic == SUBSET Rule \ {{}}

AnyMatch == {m \in AnyTraffic \X Rule : m[2] \in m[1]}
=============================================================================
