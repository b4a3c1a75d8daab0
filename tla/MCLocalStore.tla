---------------------------- MODULE MCLocalStore ----------------------------
(* A small store whose quotas bind within three writes. *)
EXTENDS LocalStore, TLC

CONSTANTS t1, t2, c1, c2

TightLimits == [objects_per_tenant |-> 2, bytes_per_tenant |-> 2,
                objects_global |-> 2, bytes_global |-> 3]

Names == Permutations({t1, t2}) \cup Permutations({c1, c2})

=============================================================================
