---------------------------- MODULE MCAlbServers ----------------------------
(***************************************************************************)
(* Instances of the backend servers of a Service.                          *)
(***************************************************************************)
EXTENDS AlbServers, TLC

CONSTANTS p1, p2, p3, w1, w2, EndPointEvent, ServiceUpdate

AnyFault == {"call", "lost", "job", "patch", "crash"}
WorkerSymmetry == Permutations(Workers)
=============================================================================
