------------------------------ MODULE Results ------------------------------
(* The Result of a fallible operation. *)

Ok(v) == [ok |-> TRUE, value |-> v]
Err(e) == [ok |-> FALSE, error |-> e]

=============================================================================
