---------------------------- MODULE MCOnnxBackend ----------------------------
(* A small instance of OnnxBackend for TLC. *)
EXTENDS OnnxBackend, TLC

CONSTANTS query, passage, k1, k2, k3, here, there, verified, other

AllQuery   == k1 :> query @@ k2 :> query @@ k3 :> query
Vectors    == verified :> 1 @@ other :> 2
Paths      == query :> {here} @@ passage :> {here, there}
OneChange  == query :> 0 @@ passage :> 1

=============================================================================
