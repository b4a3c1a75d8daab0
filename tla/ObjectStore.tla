---------------------------- MODULE ObjectStore ----------------------------
(***************************************************************************)
(* What an object store promises its callers: each object carries the      *)
(* version of the write that made it, a version is issued once for the     *)
(* whole store and in increasing order, and an object changes only by a    *)
(* write or by a removal.                                                  *)
(***************************************************************************)
EXTENDS Integers

CONSTANTS Ids

VARIABLES versions,     \* version of each object, 0 when it is absent
          issued        \* the last version issued

Init ==
    /\ versions = [i \in Ids |-> 0]
    /\ issued = 0

Write(i) ==
    /\ issued' = issued + 1
    /\ versions' = [versions EXCEPT ![i] = issued + 1]

Remove(i) ==
    /\ versions[i] # 0
    /\ versions' = [versions EXCEPT ![i] = 0]
    /\ UNCHANGED issued

Next == \E i \in Ids : Write(i) \/ Remove(i)

Spec == Init /\ [][Next]_<<versions, issued>>

=============================================================================
