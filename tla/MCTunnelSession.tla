--------------------------- MODULE MCTunnelSession ---------------------------
(* TunnelSession on small sets: what is permuted is only ever compared. *)
EXTENDS TunnelSession, TLC

Symmetry ==
  UNION {Permutations(Sockets), Permutations(Sessions), Permutations(Servers),
         Permutations(Names \ {PrefixName})}
=============================================================================
