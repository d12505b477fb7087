--------------------------- MODULE IngressRouting ---------------------------
(***************************************************************************)
(* What the Ingress controller promises of routing, without saying how.    *)
(*                                                                         *)
(* asks[i] is the history of Ingress i: the AlbConfig each of its versions *)
(* asks for, None for a version that asks for none and for a deletion.     *)
(* served[c][i] is the version of i the ALB of c routes by, 0 for none.    *)
(* hidden[c] are the Ingresses the controller does not know of yet as it   *)
(* sets out to serve c.  Nothing but an ALB being served moves served, and *)
(* it moves it to a version that asked for this ALB, never back to an      *)
(* older one; an Ingress stops being routed only if there is a newer       *)
(* version of it or it is hidden.                                          *)
(***************************************************************************)
EXTENDS Naturals, Sequences

CONSTANTS Ingress, AlbConfig, None

VARIABLES asks, served, hidden

vars == <<asks, served, hidden>>

Init ==
  /\ asks \in [Ingress -> Seq(AlbConfig \cup {None})]
  /\ served \in [AlbConfig -> [Ingress -> Nat]]
  /\ hidden = [c \in AlbConfig |-> {}]

\* The user edits, creates or deletes an Ingress or a class comes up.
Ask ==
  /\ asks' # asks
  /\ UNCHANGED <<served, hidden>>

\* The controller sets out to serve c, or gives up.
Look(c) ==
  /\ \E unknown \in SUBSET Ingress : hidden' = [hidden EXCEPT ![c] = unknown]
  /\ UNCHANGED <<asks, served>>

Restart ==
  /\ hidden' = [c \in AlbConfig |-> {}]
  /\ UNCHANGED <<asks, served>>

\* What the routing of i by c may become.
Admissible(c, i) ==
  {k \in served[c][i]..Len(asks[i]) : k > 0 /\ asks[i][k] = c}
    \cup {k \in {0} : served[c][i] < Len(asks[i]) \/ i \in hidden[c]}

Serve(c) ==
  /\ \A i \in Ingress : served'[c][i] \in {served[c][i]} \cup Admissible(c, i)
  /\ \A d \in AlbConfig \ {c} : served'[d] = served[d] /\ hidden'[d] = hidden[d]
  /\ hidden'[c] \in {{}, hidden[c]}
  /\ UNCHANGED asks

Next == Ask \/ Restart \/ \E c \in AlbConfig : Look(c) \/ Serve(c)

Spec == Init /\ [][Next]_vars
=============================================================================
