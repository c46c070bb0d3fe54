---------------------------- MODULE MCProxyStream ----------------------------
(* ProxyStream on two requests: only the requests' names are permuted. *)
EXTENDS ProxyStream, TLC

Symmetry == Permutations(Requests)
=============================================================================
