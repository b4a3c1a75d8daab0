--------------------------- MODULE DockerSandbox ---------------------------
(***************************************************************************)
(* DockerSandbox: start, execute, status and stop as sequences of docker   *)
(* commands, run by calls that share nothing but the daemon.  A container  *)
(* name is derived from the tenant and the request, so that a retry, or a  *)
(* concurrent identical start, meets the same name.                        *)
(*                                                                         *)
(* The daemon is external.  A command that fails or times out may have had *)
(* its effect, and a `docker run` whose client was killed may have it      *)
(* later.                                                                  *)
(***************************************************************************)
EXTENDS Integers

CONSTANTS
    Calls,              \* calls of the adapter's operations
    Tenants,
    Requests,           \* request and correlation ids
    MaxContainers       \* bound on the containers ever created

ASSUME DockerAssumption == MaxContainers \in Nat /\ "none" \notin Calls

(* derived_id and name, for the owner this adapter is configured with. *)
Names == [tenant : Tenants, request : Requests]

VARIABLES
    containers,         \* the daemon's container of each name
    created,            \* how many containers it has created
    late,               \* docker runs without a client that the daemon has yet to carry out
    call                \* each call in progress: where it is and what it holds

daemon == <<containers, created, late>>

vars == <<daemon, call>>

(* A container with its labels. *)
Container == [id : Nat, owner : {"self", "other"}, tenant : Tenants, running : BOOLEAN]

NoContainer == [id |-> 0]

Idle == [pc |-> "idle"]

(* docker_id is the container the call found last.  ran and made are       *)
(* history: the container a command timed out in, and the one that the     *)
(* call's docker run created.                                              *)
Call == [pc : {"inspect", "run", "reinspect", "exec", "remove", "rm", "done"},
         op : {"start", "execute", "status", "stop"},
         tenant : Tenants, name : Names, docker_id : Nat, ran : Nat, made : Nat,
         reply : {"none", "running", "stopped", "executed", "removed", "absent",
                  "not_found", "denied", "unavailable", "timeout", "operation_failed",
                  "outcome_unknown"}]
            \cup {Idle}

Init ==
    /\ containers = [n \in Names |-> NoContainer]
    /\ created = 0
    /\ late = {}
    /\ call = [c \in Calls |-> Idle]

-----------------------------------------------------------------------------
(* The daemon *)

Creates(n, owner, tenant) ==
    /\ containers[n] = NoContainer
    /\ created < MaxContainers
    /\ created' = created + 1
    /\ containers' = [containers EXCEPT ![n] =
           [id |-> created + 1, owner |-> owner, tenant |-> tenant, running |-> TRUE]]

(* A docker run whose client is gone takes effect, or is given up. *)
LateRun(run) ==
    /\ late' = late \ {run}
    /\ \/ UNCHANGED <<containers, created, call>>
       \/ /\ Creates(run.name, "self", run.name.tenant)
          /\ call' = IF run.call \in Calls THEN [call EXCEPT ![run.call].made = created']
                     ELSE call

(* Somebody else uses the name, or a container's process ends. *)
ForeignRun(n, tenant) ==
    /\ Creates(n, "other", tenant)
    /\ UNCHANGED <<late, call>>

Exits(n) ==
    /\ containers[n] # NoContainer /\ containers[n].running
    /\ containers' = [containers EXCEPT ![n].running = FALSE]
    /\ UNCHANGED <<created, late, call>>

-----------------------------------------------------------------------------
(* Calls *)

At(c, pc) == call[c].pc = pc

Goes(c, pc) == call' = [call EXCEPT ![c].pc = pc]

Replies(c, reply) == call' = [call EXCEPT ![c].pc = "done", ![c].reply = reply]

Begin(c, op, tenant, name) ==
    /\ At(c, "idle")
    /\ op = "start" => name.tenant = tenant
    /\ call' = [call EXCEPT ![c] =
           [pc |-> IF op = "stop" THEN "remove" ELSE "inspect", op |-> op, tenant |-> tenant,
            name |-> name, docker_id |-> 0, ran |-> 0, made |-> 0,
            reply |-> "none"]]
    /\ UNCHANGED daemon

(* inspect_owned: the container of the name if its labels are the          *)
(* adapter's and the tenant's.                                             *)
inspect_owned(c) ==
    LET found == containers[call[c].name] IN
    IF found = NoContainer THEN "none"
    ELSE IF found.owner # "self" \/ found.tenant # call[c].tenant THEN "denied"
    ELSE "owned"

Found(c) == containers[call[c].name]

StatusOf(container) == IF container.running THEN "running" ELSE "stopped"

InspectFails(c) == Replies(c, "unavailable")

Inspect(c) ==
    /\ At(c, "inspect")
    /\ \/ InspectFails(c)
       \/ inspect_owned(c) = "denied" /\ Replies(c, "denied")
       \/ /\ inspect_owned(c) = "none"
          /\ IF call[c].op = "start" THEN Goes(c, "run") ELSE Replies(c, "not_found")
       \/ /\ inspect_owned(c) = "owned"
          /\ IF call[c].op # "execute" THEN Replies(c, StatusOf(Found(c)))
             ELSE IF ~Found(c).running THEN Replies(c, "not_found")
             ELSE call' = [call EXCEPT ![c].pc = "exec", ![c].docker_id = Found(c).id]
    /\ UNCHANGED daemon

(* start: docker run --name.  Whatever it reports but success leads to     *)
(* another inspection.  At most one run is late at a time, a bound.        *)
Run(c) ==
    /\ At(c, "run")
    /\ \/ /\ Creates(call[c].name, "self", call[c].tenant)
          /\ \/ call' = [call EXCEPT ![c].pc = "done", ![c].reply = "running",
                                      ![c].made = created']
             \/ call' = [call EXCEPT ![c].pc = "reinspect", ![c].made = created']
          /\ UNCHANGED late
       \/ /\ Goes(c, "reinspect")
          /\ UNCHANGED daemon
       \/ /\ late = {}
          /\ Goes(c, "reinspect")
          /\ late' = late \cup {[name |-> call[c].name, call |-> c]}
          /\ UNCHANGED <<containers, created>>

Reinspect(c) ==
    /\ At(c, "reinspect")
    /\ \/ InspectFails(c)
       \/ inspect_owned(c) = "denied" /\ Replies(c, "denied")
       \/ inspect_owned(c) = "owned" /\ Replies(c, StatusOf(Found(c)))
       \/ inspect_owned(c) = "none" /\ Goes(c, "remove")
    /\ UNCHANGED daemon

(* execute: docker exec in the container that was inspected.  A command    *)
(* that timed out or wrote too much may still be running.                  *)
Exec(c) ==
    /\ At(c, "exec")
    /\ \/ Replies(c, "executed") \/ Replies(c, "unavailable")
       \/ call' = [call EXCEPT ![c].pc = "remove", ![c].ran = call[c].docker_id]
    /\ UNCHANGED daemon

(* What remove_owned's answer becomes: compensate_start of start, the      *)
(* timeout of execute, the result of stop.                                 *)
RemoveReply(c, removed) ==
    CASE call[c].op = "start"   -> "operation_failed"
      [] call[c].op = "execute" -> "timeout"
      [] OTHER                  -> IF removed THEN "removed" ELSE "absent"

(* remove_owned, first half: inspect.  An error of it is OutcomeUnknown. *)
Remove(c) ==
    /\ At(c, "remove")
    /\ \/ Replies(c, "outcome_unknown")
       \/ inspect_owned(c) = "none" /\ Replies(c, RemoveReply(c, FALSE))
       \/ /\ inspect_owned(c) = "owned"
          /\ call' = [call EXCEPT ![c].pc = "rm", ![c].docker_id = Found(c).id]
    /\ UNCHANGED daemon

RmTarget_ByName(c) == {n \in {call[c].name} : containers[n] # NoContainer}

(* docker rm --force takes the id, not the name. *)
RmTarget(c) == {n \in Names : containers[n].id = call[c].docker_id}

RmSucceeds_AnyCode(c) == TRUE

(* The command exits 0 only when the container is gone. *)
RmSucceeds(c) == \A n \in Names : containers'[n].id # call[c].docker_id

(* remove_owned, second half.  stop passes an error of the command on,     *)
(* start and execute make it OutcomeUnknown.                               *)
Rm(c) ==
    /\ At(c, "rm")
    /\ \/ containers' = [n \in Names |-> IF n \in RmTarget(c) THEN NoContainer
                                         ELSE containers[n]]
       \/ UNCHANGED containers
    /\ \/ RmSucceeds(c) /\ Replies(c, RemoveReply(c, TRUE))
       \/ Replies(c, "outcome_unknown")
       \/ call[c].op = "stop" /\ Replies(c, "unavailable")
    /\ UNCHANGED <<created, late>>

(* The call's caller makes another one. *)
Return(c) ==
    /\ At(c, "done")
    /\ call' = [call EXCEPT ![c] = Idle]
    /\ late' = {[run EXCEPT !.call = IF @ = c THEN "none" ELSE @] : run \in late}
    /\ UNCHANGED <<containers, created>>

Next ==
    \/ \E c \in Calls, tenant \in Tenants, name \in Names,
          op \in {"start", "execute", "status", "stop"} : Begin(c, op, tenant, name)
    \/ \E c \in Calls :
          Inspect(c) \/ Run(c) \/ Reinspect(c) \/ Exec(c) \/ Remove(c) \/ Rm(c) \/ Return(c)
    \/ \E run \in late : LateRun(run)
    \/ \E n \in Names, tenant \in Tenants : ForeignRun(n, tenant)
    \/ \E n \in Names : Exits(n)

Spec == Init /\ [][Next]_vars

-----------------------------------------------------------------------------
(* Properties *)

(* Type invariant of the daemon's containers and the calls. *)
TypeOK ==
    /\ containers \in [Names -> Container \cup {NoContainer}]
    /\ created \in 0 .. MaxContainers
    /\ late \subseteq [name : Names, call : Calls \cup {"none"}]
    /\ call \in [Calls -> Call]

(* A call removes only a container of its own tenant and of this adapter,  *)
(* whoever took the name between its inspection and its docker rm.         *)
RemovesOnlyOwn ==
    [][\A n \in Names : containers[n] # NoContainer /\ containers'[n] = NoContainer =>
          \E c \in Calls : /\ At(c, "rm") /\ ~At(c, "rm")'
                           /\ containers[n].owner = "self"
                           /\ containers[n].tenant = call[c].tenant]_vars

(* An execute that answers Timeout or LimitExceeded leaves nothing of its  *)
(* command running: the container in which it ran is gone, even when the   *)
(* name has been removed and taken again meanwhile.                        *)
TimedOutCommandIsGone ==
    \A c \in Calls : call[c] # Idle /\ At(c, "done") /\ call[c].reply = "timeout" =>
        \A n \in Names : containers[n].id # call[c].ran

(* The comment in start: a container that a concurrent identical request   *)
(* owns under this name is the idempotent-replay success case and is not   *)
(* destroyed.  A start removes only what its own docker run created.       *)
StartKeepsOthersContainer ==
    [][\A c \in Calls, n \in Names :
          /\ At(c, "rm") /\ call[c].op = "start" /\ call'[c] # call[c]
          /\ containers[n] # NoContainer /\ containers'[n] = NoContainer
          => containers[n].id = call[c].made]_vars

=============================================================================
