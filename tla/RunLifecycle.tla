---------------------------- MODULE RunLifecycle ----------------------------
(***************************************************************************)
(* What the workflow crate promises of a run, without saying how: a start  *)
(* key names at most one run, a run moves pending -> running -> succeeded, *)
(* failed or cancelled and stays there, its agent is invoked at most once, *)
(* and it succeeds only if the agent was invoked.                          *)
(***************************************************************************)
EXTENDS Integers

CONSTANTS Ids, KeyOf

VARIABLES phase, invoked

Absent == "none"

Init ==
    /\ phase = [i \in Ids |-> Absent]
    /\ invoked = [i \in Ids |-> 0]

Create(i) ==
    /\ \A j \in Ids : KeyOf[j] = KeyOf[i] => phase[j] = Absent
    /\ phase' = [phase EXCEPT ![i] = "Pending"]
    /\ UNCHANGED invoked

Begin(i) ==
    /\ phase[i] = "Pending"
    /\ phase' = [phase EXCEPT ![i] = "Running"]
    /\ UNCHANGED invoked

(* A cancellation may already have won when the agent is called. *)
Invoke(i) ==
    /\ phase[i] \in {"Running", "Cancelled"}
    /\ invoked[i] = 0
    /\ invoked' = [invoked EXCEPT ![i] = 1]
    /\ UNCHANGED phase

End(i, outcome) ==
    /\ phase[i] = "Running"
    /\ outcome = "Succeeded" => invoked[i] = 1
    /\ phase' = [phase EXCEPT ![i] = outcome]
    /\ UNCHANGED invoked

Next ==
    \E i \in Ids :
        \/ Create(i)
        \/ Begin(i)
        \/ Invoke(i)
        \/ \E outcome \in {"Succeeded", "Failed", "Cancelled"} : End(i, outcome)

Spec == Init /\ [][Next]_<<phase, invoked>>

=============================================================================
