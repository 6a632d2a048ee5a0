------------------------- MODULE MCGsNetworkErrors -------------------------
(* Model values for GsNetworkErrors: this node pulls c1 from p1 over its  *)
(* own graphsync request, pushes c2 to p1 (p1 makes the request), and p2  *)
(* pulls c3 from this node.                                               *)
EXTENDS GsNetworkErrors

CONSTANTS c1, c2, c3, p1, p2

MCChans == {c1, c2, c3}
MCRemotes == {p1, p2}
MCInitiator == c1 :> Local @@ c2 :> Local @@ c3 :> p2
MCResponder == c1 :> p1 @@ c2 :> p1 @@ c3 :> Local
MCDir == c1 :> "out" @@ c2 :> "in" @@ c3 :> "in"

=============================================================================
