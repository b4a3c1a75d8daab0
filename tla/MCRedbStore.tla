---------------------------- MODULE MCRedbStore ----------------------------
(***************************************************************************)
(* One path, two processes that open it with different limits; and the     *)
(* objects table on its own, with identifiers that are prefixes of one     *)
(* another and look like lengths, and keys of the lowest and highest       *)
(* bytes.  The two do not interact: what a row means does not depend on    *)
(* who opened the file, so each moves while the other is at its start.     *)
(***************************************************************************)
EXTENDS RedbStore, RedbRows, TLC

CONSTANTS p1, p2

Wide == [objects_per_tenant |-> 2, bytes_per_tenant |-> 2,
         objects_global |-> 2, bytes_global |-> 3]

Narrow == [objects_per_tenant |-> 1, bytes_per_tenant |-> 1,
           objects_global |-> 2, bytes_global |-> 2]

BothLimits == {Wide, Narrow}

ProcessNames == Permutations({p1, p2})

SampleTenants == {<<1>>, <<2>>, <<1, 1>>}

SampleNamespaces == {<<1>>, <<2>>, <<1, 2>>}

SampleKeys == {<<0>>, <<0, 1>>, <<3>>, <<3, 3>>}

MCInit == Init /\ NoRows

MCNext ==
    \/ NoRows /\ Next /\ UNCHANGED rows
    \/ Init /\ RowStep /\ UNCHANGED vars

MCSpec == MCInit /\ [][MCNext]_<<vars, rows>>

=============================================================================
