------------------------- MODULE MCResourceLeases --------------------------
(* ResourceLeases for TLC: two leases on one resource, each asked for by a *)
(* session of its own, which stands for both.                              *)
EXTENDS ResourceLeases, TLC

CONSTANTS l1, l2, r1

MCOwner == [l \in {l1, l2} |-> l]
MCOn == [l \in {l1, l2} |-> r1]

Leases == Permutations({l1, l2})
=============================================================================
