---------------------------- MODULE DockerProofs ----------------------------
(***************************************************************************)
(* What holds of the Docker adapter for any number of concurrent calls,    *)
(* tenants, names and containers, although the daemon forgets, delays and  *)
(* reassigns names.  The inductive invariant says what the container id a  *)
(* call remembers still means: ids are issued once, so that the container  *)
(* with the id is the one the call inspected or there is none.             *)
(***************************************************************************)
EXTENDS DockerSandbox, TLAPS

(* Ids are numbers the daemon has issued, each to one container. *)
IdsIssued ==
    /\ \A n \in Names : containers[n] # NoContainer => containers[n].id \in 1 .. created
    /\ \A n, m \in Names : containers[n].id = containers[m].id /\ containers[n].id # 0 => n = m

(* What a call in progress knows of the ids it holds, when boxes are the   *)
(* containers and issued is the number of those created.                   *)
Sound(r, boxes, issued) ==
    /\ r.docker_id <= issued /\ r.ran <= issued
    /\ r.pc \in {"run", "reinspect"} => r.op = "start"
    /\ r.pc \in {"exec", "rm"} => r.docker_id # 0
    /\ r.pc = "exec" => \A n \in Names : boxes[n].id = r.docker_id => n = r.name
    /\ r.pc = "rm" =>
         \A n \in Names : boxes[n].id = r.docker_id =>
           boxes[n].owner = "self" /\ boxes[n].tenant = r.tenant
    /\ r.pc \in {"remove", "rm"} /\ r.op = "execute" =>
         r.ran # 0 /\ \A n \in Names : boxes[n].id = r.ran => n = r.name
    /\ r.pc = "rm" /\ r.op = "execute" =>
         \A n \in Names : boxes[n].id = r.ran => r.docker_id = r.ran
    /\ r.pc = "done" /\ r.reply = "timeout" =>
         r.ran # 0 /\ \A n \in Names : boxes[n].id # r.ran

(* A run that is late belongs to a call that has not returned. *)
LateHasCall == \A run \in late : run.call \in Calls => call[run.call] # Idle

Inv ==
    /\ TypeOK /\ IdsIssued /\ LateHasCall
    /\ \A c \in Calls : call[c] # Idle => Sound(call[c], containers, created)

-----------------------------------------------------------------------------
(* Steps of a call that leave the daemon alone *)

Pcs == {"inspect", "run", "reinspect", "exec", "remove", "rm", "done"}

Answers == {"none", "running", "stopped", "executed", "removed", "absent", "not_found",
            "denied", "unavailable", "timeout", "operation_failed", "outcome_unknown"}

Active ==
    [pc : Pcs, op : {"start", "execute", "status", "stop"}, tenant : Tenants, name : Names,
     docker_id : Nat, ran : Nat, made : Nat, reply : Answers]

(* A call is idle or a record with all its fields. *)
LEMMA CallTypes == Call = Active \cup {Idle}
  BY DEF Call, Active, Pcs, Answers

LEMMA ActiveIsNotIdle == ASSUME NEW r \in Active PROVE r # Idle /\ r.pc # "idle"
  BY DEF Active, Idle, Pcs

(* A call that is not at "idle" has all the fields of a call, which are    *)
(* sound.                                                                  *)
LEMMA CallIsActive ==
    ASSUME Inv, NEW c \in Calls, call[c].pc # "idle"
    PROVE  call[c] \in Active /\ Sound(call[c], containers, created)
  <1>1. call[c] \in Call
    BY DEF Inv, TypeOK
  <1>2. call[c] # Idle
    BY DEF Idle
  <1> QED
    BY <1>1, <1>2, CallTypes DEF Inv

(* Replacing what one call knows by something sound keeps the invariant. *)
LEMMA CallStep ==
    ASSUME Inv, NEW c \in Calls, NEW r \in Active, Sound(r, containers, created),
           call' = [call EXCEPT ![c] = r], UNCHANGED daemon
    PROVE  Inv'
  <1>1. containers' = containers /\ created' = created /\ late' = late
    BY DEF daemon
  <1>2. call \in [Calls -> Call] /\ r \in Call /\ r # Idle
    BY CallTypes, ActiveIsNotIdle DEF Inv, TypeOK
  <1>3. call' \in [Calls -> Call] /\ call'[c] = r /\ \A d \in Calls : d # c => call'[d] = call[d]
    BY <1>2
  <1>4. TypeOK'
    BY <1>1, <1>3 DEF Inv, TypeOK
  <1>5. IdsIssued'
    BY <1>1 DEF Inv, IdsIssued
  <1>6. LateHasCall'
    BY <1>1, <1>2, <1>3 DEF Inv, LateHasCall
  <1>7. \A d \in Calls : call'[d] # Idle => Sound(call'[d], containers', created')
    BY <1>1, <1>2, <1>3 DEF Inv
  <1> QED
    BY <1>4, <1>5, <1>6, <1>7 DEF Inv

(* A call that answers, but not timeout, holds nothing that matters.       *)
LEMMA RepliesKeepsInv ==
    ASSUME Inv, NEW c \in Calls, call[c].pc # "idle", NEW reply \in Answers \ {"timeout"},
           Replies(c, reply), UNCHANGED daemon
    PROVE  Inv'
  <1> DEFINE r == [call[c] EXCEPT !.pc = "done", !.reply = reply]
  <1>1. call[c] \in Active /\ Sound(call[c], containers, created)
    BY CallIsActive
  <1>2. r \in Active
    BY <1>1 DEF Active, Pcs
  <1>3. r.pc = "done" /\ r.reply = reply /\ r.docker_id = call[c].docker_id /\ r.ran = call[c].ran
    BY <1>1 DEF Active
  <1>4. Sound(r, containers, created)
    BY <1>1, <1>3 DEF Sound
  <1>5. call' = [call EXCEPT ![c] = r]
    BY DEF Replies, Inv, TypeOK
  <1> HIDE DEF r
  <1> QED
    BY <1>2, <1>4, <1>5, CallStep

(* A call that moves on with the ids it holds. *)
LEMMA GoesKeepsInv ==
    ASSUME Inv, NEW c \in Calls, call[c].pc # "idle", NEW pc \in {"run", "reinspect", "remove"},
           call[c].op = "start", Goes(c, pc), UNCHANGED daemon
    PROVE  Inv'
  <1> DEFINE r == [call[c] EXCEPT !.pc = pc]
  <1>1. call[c] \in Active /\ Sound(call[c], containers, created)
    BY CallIsActive
  <1>2. r \in Active
    BY <1>1 DEF Active, Pcs
  <1>3. r.pc = pc /\ r.op = "start" /\ r.docker_id = call[c].docker_id /\ r.ran = call[c].ran
    BY <1>1 DEF Active
  <1>4. Sound(r, containers, created)
    BY <1>1, <1>3 DEF Sound
  <1>5. call' = [call EXCEPT ![c] = r]
    BY DEF Goes, Inv, TypeOK
  <1> HIDE DEF r
  <1> QED
    BY <1>2, <1>4, <1>5, CallStep

LEMMA BeginKeepsInv ==
    ASSUME Inv, NEW c \in Calls, NEW tenant \in Tenants, NEW name \in Names,
           NEW op \in {"start", "execute", "status", "stop"}, Begin(c, op, tenant, name)
    PROVE  Inv'
  <1> DEFINE r == [pc |-> IF op = "stop" THEN "remove" ELSE "inspect", op |-> op,
                   tenant |-> tenant, name |-> name, docker_id |-> 0, ran |-> 0,
                   made |-> 0, reply |-> "none"]
  <1>1. r \in Active
    BY DEF Active, Pcs, Answers
  <1>2. Sound(r, containers, created)
    BY DEF Sound, Inv, TypeOK
  <1>3. call' = [call EXCEPT ![c] = r] /\ UNCHANGED daemon
    BY DEF Begin
  <1> HIDE DEF r
  <1> QED
    BY <1>1, <1>2, <1>3, CallStep

(* The container a call finds under its name has an id that is issued, and *)
(* is the only one with it.                                                *)
LEMMA FoundContainer ==
    ASSUME Inv, NEW c \in Calls, call[c].pc # "idle", inspect_owned(c) = "owned"
    PROVE  /\ Found(c).id \in 1 .. created /\ Found(c).running \in BOOLEAN
           /\ Found(c).owner = "self" /\ Found(c).tenant = call[c].tenant
           /\ \A n \in Names : containers[n].id = Found(c).id => n = call[c].name
  <1>1. call[c] \in Active
    BY CallIsActive
  <1>2. call[c].name \in Names
    BY <1>1 DEF Active
  <1>3. Found(c) # NoContainer /\ Found(c).owner = "self" /\ Found(c).tenant = call[c].tenant
    BY DEF inspect_owned, Found
  <1>4. Found(c) \in Container
    BY <1>2, <1>3 DEF Found, Inv, TypeOK
  <1>5. Found(c).id \in 1 .. created
    BY <1>2, <1>3 DEF Found, Inv, IdsIssued
  <1>6. \A n \in Names : containers[n].id = Found(c).id => n = call[c].name
    BY <1>2, <1>5 DEF Found, Inv, IdsIssued, TypeOK
  <1> QED
    BY <1>3, <1>4, <1>5, <1>6 DEF Container

LEMMA InspectKeepsInv ==
    ASSUME Inv, NEW c \in Calls, Inspect(c)
    PROVE  Inv'
  <1>1. call[c].pc = "inspect" /\ UNCHANGED daemon
    BY DEF Inspect, At
  <1>2. call[c] \in Active /\ Sound(call[c], containers, created)
    BY <1>1, CallIsActive
  <1>3. ASSUME NEW reply \in Answers \ {"timeout"}, Replies(c, reply) PROVE Inv'
    BY <1>1, <1>3, RepliesKeepsInv
  <1>4. CASE InspectFails(c) \/ (inspect_owned(c) = "denied" /\ Replies(c, "denied"))
    BY <1>3, <1>4 DEF InspectFails, Answers
  <1>5. CASE inspect_owned(c) = "none" /\ IF call[c].op = "start" THEN Goes(c, "run")
                                          ELSE Replies(c, "not_found")
    BY <1>1, <1>3, <1>5, GoesKeepsInv DEF Answers
  <1>6. CASE inspect_owned(c) = "owned" /\ (\/ Replies(c, StatusOf(Found(c)))
                                            \/ Replies(c, "not_found"))
    BY <1>3, <1>6 DEF StatusOf, Answers
  <1>7. CASE /\ inspect_owned(c) = "owned"
             /\ call' = [call EXCEPT ![c].pc = "exec", ![c].docker_id = Found(c).id]
    <2> DEFINE r == [call[c] EXCEPT !.pc = "exec", !.docker_id = Found(c).id]
    <2>1. /\ Found(c).id \in 1 .. created /\ Found(c).id \in Nat
          /\ \A n \in Names : containers[n].id = Found(c).id => n = call[c].name
      BY <1>1, <1>7, FoundContainer
    <2>2. r \in Active
      BY <1>2, <2>1 DEF Active, Pcs
    <2>3. r.pc = "exec" /\ r.docker_id = Found(c).id /\ r.ran = call[c].ran /\ r.name = call[c].name
      BY <1>2 DEF Active
    <2>4. Sound(r, containers, created)
      BY <1>2, <2>1, <2>3 DEF Sound
    <2>5. call' = [call EXCEPT ![c] = r]
      BY <1>7 DEF Inv, TypeOK
    <2> HIDE DEF r
    <2> QED
      BY <1>1, <2>2, <2>4, <2>5, CallStep
  <1> QED
    BY <1>4, <1>5, <1>6, <1>7 DEF Inspect

LEMMA ReinspectKeepsInv ==
    ASSUME Inv, NEW c \in Calls, Reinspect(c)
    PROVE  Inv'
  <1>1. call[c].pc = "reinspect" /\ UNCHANGED daemon
    BY DEF Reinspect, At
  <1>2. call[c].op = "start"
    BY <1>1, CallIsActive DEF Sound
  <1>3. CASE Goes(c, "remove")
    BY <1>1, <1>2, <1>3, GoesKeepsInv
  <1>4. ASSUME NEW reply \in {"unavailable", "denied", "running", "stopped"}, Replies(c, reply)
        PROVE  Inv'
    BY <1>1, <1>4, RepliesKeepsInv DEF Answers
  <1> QED
    BY <1>3, <1>4 DEF Reinspect, InspectFails, StatusOf

LEMMA ExecKeepsInv ==
    ASSUME Inv, NEW c \in Calls, Exec(c)
    PROVE  Inv'
  <1>1. call[c].pc = "exec" /\ UNCHANGED daemon
    BY DEF Exec, At
  <1>2. call[c] \in Active /\ Sound(call[c], containers, created)
    BY <1>1, CallIsActive
  <1>3. CASE Replies(c, "executed") \/ Replies(c, "unavailable")
    BY <1>1, <1>3, RepliesKeepsInv DEF Answers
  <1>4. CASE call' = [call EXCEPT ![c].pc = "remove", ![c].ran = call[c].docker_id]
    <2> DEFINE r == [call[c] EXCEPT !.pc = "remove", !.ran = call[c].docker_id]
    <2>1. call[c].docker_id \in Nat
      BY <1>2 DEF Active
    <2>2. r \in Active
      BY <1>2, <2>1 DEF Active, Pcs
    <2>3. /\ r.pc = "remove" /\ r.docker_id = call[c].docker_id
          /\ r.ran = call[c].docker_id /\ r.name = call[c].name
      BY <1>2 DEF Active
    <2>4. Sound(r, containers, created)
      BY <1>1, <1>2, <2>3 DEF Sound
    <2>5. call' = [call EXCEPT ![c] = r]
      BY <1>4 DEF Inv, TypeOK
    <2> HIDE DEF r
    <2> QED
      BY <1>1, <2>2, <2>4, <2>5, CallStep
  <1> QED
    BY <1>3, <1>4 DEF Exec

(* An execute may answer timeout when the container it ran in is gone. *)
LEMMA TimeoutIsSound ==
    ASSUME NEW r \in Active, NEW boxes, NEW issued, NEW reply \in Answers,
           r.docker_id <= issued, r.ran <= issued,
           reply = "timeout" => r.ran # 0 /\ \A n \in Names : boxes[n].id # r.ran
    PROVE  LET done == [r EXCEPT !.pc = "done", !.reply = reply]
           IN  done \in Active /\ Sound(done, boxes, issued)
  <1> DEFINE done == [r EXCEPT !.pc = "done", !.reply = reply]
  <1>1. done \in Active
    BY DEF Active, Pcs
  <1>2. done.pc = "done" /\ done.reply = reply /\ done.docker_id = r.docker_id /\ done.ran = r.ran
    BY DEF Active
  <1>3. Sound(done, boxes, issued)
    <2> HIDE DEF done
    <2> QED
      BY <1>2 DEF Sound
  <1> QED
    BY <1>1, <1>3

LEMMA RemoveKeepsInv ==
    ASSUME Inv, NEW c \in Calls, Remove(c)
    PROVE  Inv'
  <1>1. call[c].pc = "remove" /\ UNCHANGED daemon
    BY DEF Remove, At
  <1>2. call[c] \in Active /\ Sound(call[c], containers, created)
    BY <1>1, CallIsActive
  <1>3. CASE Replies(c, "outcome_unknown")
    BY <1>1, <1>3, RepliesKeepsInv DEF Answers
  <1>4. CASE inspect_owned(c) = "none" /\ Replies(c, RemoveReply(c, FALSE))
    <2> DEFINE reply == RemoveReply(c, FALSE)
               done == [call[c] EXCEPT !.pc = "done", !.reply = reply]
    <2>1. call[c].op \in {"start", "execute", "status", "stop"} /\ call[c].name \in Names
      BY <1>2 DEF Active
    <2>2. reply \in Answers /\ (reply = "timeout" => call[c].op = "execute")
      BY <2>1 DEF RemoveReply, Answers
    <2>3. containers[call[c].name] = NoContainer
      BY <1>4 DEF inspect_owned
    <2>4. call[c].op = "execute" =>
            call[c].ran # 0 /\ \A n \in Names : containers[n].id # call[c].ran
      BY <1>1, <1>2, <2>1, <2>3 DEF Sound, NoContainer
    <2>5. call' = [call EXCEPT ![c] = done]
      BY <1>4 DEF Replies, Inv, TypeOK
    <2>6. call[c].docker_id <= created /\ call[c].ran <= created
      BY <1>2 DEF Sound
    <2> HIDE DEF reply
    <2>7. done \in Active /\ Sound(done, containers, created)
      BY <1>2, <2>2, <2>4, <2>6, TimeoutIsSound
    <2> HIDE DEF done
    <2> QED
      BY <1>1, <2>5, <2>7, CallStep
  <1>5. CASE /\ inspect_owned(c) = "owned"
             /\ call' = [call EXCEPT ![c].pc = "rm", ![c].docker_id = Found(c).id]
    <2> DEFINE r == [call[c] EXCEPT !.pc = "rm", !.docker_id = Found(c).id]
    <2>1. /\ Found(c).id \in 1 .. created /\ Found(c).id \in Nat
          /\ Found(c).owner = "self" /\ Found(c).tenant = call[c].tenant
          /\ \A n \in Names : containers[n].id = Found(c).id => n = call[c].name
      BY <1>1, <1>5, FoundContainer
    <2>2. r \in Active
      BY <1>2, <2>1 DEF Active, Pcs
    <2>3. /\ r.pc = "rm" /\ r.docker_id = Found(c).id /\ r.ran = call[c].ran
          /\ r.name = call[c].name /\ r.tenant = call[c].tenant /\ r.op = call[c].op
      BY <1>2 DEF Active
    <2> HIDE DEF r
    <2>4. \A n \in Names : containers[n].id = r.docker_id =>
            containers[n].owner = "self" /\ containers[n].tenant = r.tenant
      BY <2>1, <2>3 DEF Found
    <2>5. r.op = "execute" =>
            /\ r.ran # 0 /\ \A n \in Names : containers[n].id = r.ran => n = r.name
            /\ \A n \in Names : containers[n].id = r.ran => r.docker_id = r.ran
      BY <1>1, <1>2, <2>3 DEF Sound, Found
    <2>6. Sound(r, containers, created)
      BY <1>2, <2>1, <2>3, <2>4, <2>5 DEF Sound
    <2>7. call' = [call EXCEPT ![c] = r]
      BY <1>5 DEF Inv, TypeOK, r
    <2> QED
      BY <1>1, <2>2, <2>6, <2>7, CallStep
  <1> QED
    BY <1>3, <1>4, <1>5 DEF Remove

-----------------------------------------------------------------------------
(* Steps of the daemon *)

(* Containers may go, change their status, or be created under new ids. *)
Evolves(boxes, issued) ==
    /\ issued \in Nat /\ created <= issued
    /\ boxes \in [Names -> Container \cup {NoContainer}]
    /\ \A n \in Names : boxes[n].id # 0 =>
         \/ /\ boxes[n].id = containers[n].id
            /\ boxes[n].owner = containers[n].owner /\ boxes[n].tenant = containers[n].tenant
         \/ boxes[n].id > created

(* What a call knows stays true: an id it holds is never issued again. *)
LEMMA SoundStays ==
    ASSUME Inv, NEW r \in Active, Sound(r, containers, created),
           NEW boxes, NEW issued, Evolves(boxes, issued)
    PROVE  Sound(r, boxes, issued)
  <1>1. r.docker_id \in Nat /\ r.ran \in Nat /\ r.docker_id <= created /\ r.ran <= created
    BY DEF Active, Sound
  <1>2. created \in Nat
    BY DockerAssumption DEF Inv, TypeOK
  <1>3. r.docker_id <= issued /\ r.ran <= issued
    BY <1>1, <1>2 DEF Evolves
  <1>4. ASSUME NEW n \in Names, NEW id \in Nat, id # 0, id <= created, boxes[n].id = id
        PROVE  /\ containers[n].id = id /\ boxes[n].owner = containers[n].owner
               /\ boxes[n].tenant = containers[n].tenant
    BY <1>2, <1>4 DEF Evolves
  <1>5. r.pc = "exec" => \A n \in Names : boxes[n].id = r.docker_id => n = r.name
    BY <1>1, <1>4 DEF Sound
  <1>6. r.pc = "rm" =>
          \A n \in Names : boxes[n].id = r.docker_id =>
            boxes[n].owner = "self" /\ boxes[n].tenant = r.tenant
    BY <1>1, <1>4 DEF Sound
  <1>7. r.pc \in {"remove", "rm"} /\ r.op = "execute" =>
          r.ran # 0 /\ \A n \in Names : boxes[n].id = r.ran => n = r.name
    BY <1>1, <1>4 DEF Sound
  <1>8. r.pc = "rm" /\ r.op = "execute" =>
          \A n \in Names : boxes[n].id = r.ran => r.docker_id = r.ran
    BY <1>1, <1>4 DEF Sound
  <1>9. r.pc = "done" /\ r.reply = "timeout" =>
          r.ran # 0 /\ \A n \in Names : boxes[n].id # r.ran
    BY <1>1, <1>4 DEF Sound
  <1> QED
    BY <1>3, <1>5, <1>6, <1>7, <1>8, <1>9 DEF Sound

(* A container that is created has an id of its own. *)
LEMMA CreatesIsNew ==
    ASSUME Inv, NEW n \in Names, NEW owner \in {"self", "other"}, NEW tenant \in Tenants,
           Creates(n, owner, tenant)
    PROVE  /\ Evolves(containers', created') /\ IdsIssued'
           /\ created' \in 0 .. MaxContainers /\ created' = created + 1
  <1> DEFINE box == [id |-> created + 1, owner |-> owner, tenant |-> tenant, running |-> TRUE]
  <1>1. created \in Nat /\ created < MaxContainers /\ created' = created + 1
    BY DockerAssumption DEF Inv, TypeOK, Creates
  <1>2. containers \in [Names -> Container \cup {NoContainer}] /\ containers[n] = NoContainer
    BY DEF Inv, TypeOK, Creates
  <1>3. box \in Container /\ box.id = created + 1 /\ box # NoContainer
    BY <1>1 DEF Container, NoContainer
  <1>4. containers' = [containers EXCEPT ![n] = box]
    BY DEF Creates
  <1> HIDE DEF box
  <1>5. /\ containers' \in [Names -> Container \cup {NoContainer}]
        /\ containers'[n] = box /\ \A m \in Names : m # n => containers'[m] = containers[m]
    BY <1>2, <1>3, <1>4
  <1>6. Evolves(containers', created')
    BY <1>1, <1>3, <1>5 DEF Evolves
  <1>7. \A m \in Names : containers[m].id \in 0 .. created
    BY <1>1, <1>2 DEF Inv, IdsIssued, NoContainer
  <1>8. IdsIssued'
    BY <1>1, <1>3, <1>5, <1>7 DEF Inv, IdsIssued
  <1> QED
    BY <1>1, <1>6, <1>8, DockerAssumption

(* A step of the daemon, and of calls whose new knowledge is sound. *)
LEMMA DaemonStep ==
    ASSUME Inv, Evolves(containers', created'), IdsIssued', created' \in 0 .. MaxContainers,
           late' \subseteq [name : Names, call : Calls \cup {"none"}], LateHasCall',
           call' \in [Calls -> Call],
           \A c \in Calls : call'[c] # Idle =>
             \/ Sound(call'[c], containers, created) \/ Sound(call'[c], containers', created')
    PROVE  Inv'
  <1>1. TypeOK'
    BY DEF TypeOK, Evolves
  <1>2. ASSUME NEW c \in Calls, call'[c] # Idle
        PROVE  Sound(call'[c], containers', created')
    <2>1. call'[c] \in Active
      BY <1>2, CallTypes
    <2> QED
      BY <1>2, <2>1, SoundStays
  <1> QED
    BY <1>1, <1>2 DEF Inv

LEMMA ForeignRunKeepsInv ==
    ASSUME Inv, NEW n \in Names, NEW tenant \in Tenants, ForeignRun(n, tenant)
    PROVE  Inv'
  <1>1. Creates(n, "other", tenant) /\ late' = late /\ call' = call
    BY DEF ForeignRun
  <1>2. /\ Evolves(containers', created') /\ IdsIssued' /\ created' \in 0 .. MaxContainers
    BY <1>1, CreatesIsNew
  <1>3. LateHasCall'
    BY <1>1 DEF Inv, LateHasCall
  <1> QED
    BY <1>1, <1>2, <1>3, DaemonStep DEF Inv, TypeOK

LEMMA ExitsKeepsInv ==
    ASSUME Inv, NEW n \in Names, Exits(n)
    PROVE  Inv'
  <1> DEFINE box == [containers[n] EXCEPT !.running = FALSE]
  <1>1. created' = created /\ late' = late /\ call' = call /\ containers[n] # NoContainer
    BY DEF Exits
  <1>2. containers \in [Names -> Container \cup {NoContainer}] /\ containers[n] \in Container
    BY <1>1 DEF Inv, TypeOK
  <1>3. /\ box \in Container /\ box.id = containers[n].id /\ box.owner = containers[n].owner
        /\ box.tenant = containers[n].tenant
    BY <1>2 DEF Container
  <1>4. containers' = [containers EXCEPT ![n] = box]
    BY <1>2 DEF Exits
  <1> HIDE DEF box
  <1>5. /\ containers' \in [Names -> Container \cup {NoContainer}]
        /\ containers'[n] = box /\ \A m \in Names : m # n => containers'[m] = containers[m]
    BY <1>2, <1>3, <1>4
  <1>6. created \in 0 .. MaxContainers /\ created \in Nat
    BY DockerAssumption DEF Inv, TypeOK
  <1>7. Evolves(containers', created')
    BY <1>1, <1>3, <1>5, <1>6 DEF Evolves
  <1>8. IdsIssued'
    BY <1>1, <1>3, <1>5 DEF Inv, IdsIssued
  <1>9. LateHasCall'
    BY <1>1 DEF Inv, LateHasCall
  <1> QED
    BY <1>1, <1>6, <1>7, <1>8, <1>9, DaemonStep DEF Inv, TypeOK

LEMMA NothingEvolves ==
    ASSUME Inv, containers' = containers, created' = created
    PROVE  /\ Evolves(containers', created') /\ IdsIssued' /\ created' \in 0 .. MaxContainers
  <1>1. created \in 0 .. MaxContainers /\ created \in Nat
    BY DockerAssumption DEF Inv, TypeOK
  <1> QED
    BY <1>1 DEF Inv, TypeOK, IdsIssued, Evolves

LEMMA LateRunKeepsInv ==
    ASSUME Inv, NEW run \in late, LateRun(run)
    PROVE  Inv'
  <1>1. /\ run.name \in Names /\ run.name.tenant \in Tenants
        /\ late' \subseteq late /\ late \subseteq [name : Names, call : Calls \cup {"none"}]
    BY DEF LateRun, Inv, TypeOK, Names
  <1>2. call \in [Calls -> Call] /\ \A c \in Calls : call[c] # Idle => Sound(call[c], containers, created)
    BY DEF Inv, TypeOK
  <1>3. /\ Evolves(containers', created') /\ IdsIssued' /\ created' \in 0 .. MaxContainers
        /\ created' \in Nat
    BY <1>1, NothingEvolves, CreatesIsNew DEF LateRun, Evolves
  <1>4. CASE call' = call
    BY <1>1, <1>2, <1>3, <1>4, DaemonStep DEF Inv, LateHasCall
  <1>5. CASE run.call \in Calls /\ call' = [call EXCEPT ![run.call].made = created']
    <2> DEFINE r == [call[run.call] EXCEPT !.made = created']
    <2>1. call[run.call] \in Active /\ Sound(call[run.call], containers, created)
      BY <1>2, <1>5, CallTypes DEF Inv, LateHasCall
    <2>2. r \in Active
      BY <1>3, <2>1 DEF Active
    <2>3. /\ r.pc = call[run.call].pc /\ r.op = call[run.call].op /\ r.tenant = call[run.call].tenant
          /\ r.name = call[run.call].name /\ r.docker_id = call[run.call].docker_id
          /\ r.ran = call[run.call].ran /\ r.reply = call[run.call].reply
      BY <2>1 DEF Active
    <2>4. call' = [call EXCEPT ![run.call] = r]
      BY <1>2, <1>5
    <2> HIDE DEF r
    <2>5. Sound(r, containers, created)
      BY <2>1, <2>3 DEF Sound
    <2>6. r \in Call /\ r # Idle
      BY <2>2, CallTypes, ActiveIsNotIdle
    <2>7. /\ call' \in [Calls -> Call] /\ call'[run.call] = r
          /\ \A d \in Calls : d # run.call => call'[d] = call[d]
      BY <1>2, <1>5, <2>4, <2>6
    <2>8. LateHasCall'
      BY <1>1, <2>6, <2>7 DEF Inv, LateHasCall
    <2> QED
      BY <1>1, <1>2, <1>3, <2>5, <2>7, <2>8, DaemonStep
  <1> QED
    BY <1>4, <1>5 DEF LateRun

(* A call that starts a container, or goes on without knowing whether the  *)
(* daemon has.                                                             *)
LEMMA RunKeepsInv ==
    ASSUME Inv, NEW c \in Calls, Run(c)
    PROVE  Inv'
  <1>1. call[c].pc = "run"
    BY DEF Run, At
  <1>2. call[c] \in Active /\ Sound(call[c], containers, created)
    BY <1>1, CallIsActive
  <1>3. call[c].op = "start" /\ call[c].name \in Names /\ call[c].tenant \in Tenants
    BY <1>1, <1>2 DEF Active, Sound
  <1>4. CASE Goes(c, "reinspect") /\ UNCHANGED daemon
    BY <1>1, <1>3, <1>4, GoesKeepsInv
  <1>5. ASSUME NEW r \in Active, Sound(r, containers, created), call' = [call EXCEPT ![c] = r],
               Evolves(containers', created'), IdsIssued', created' \in 0 .. MaxContainers,
               late' \subseteq late \cup {[name |-> call[c].name, call |-> c]}
        PROVE  Inv'
    <2>1. r \in Call /\ r # Idle /\ call \in [Calls -> Call]
      BY CallTypes, ActiveIsNotIdle DEF Inv, TypeOK
    <2>2. /\ call' \in [Calls -> Call] /\ call'[c] = r
          /\ \A d \in Calls : d # c => call'[d] = call[d]
      BY <1>5, <2>1
    <2>3. late' \subseteq [name : Names, call : Calls \cup {"none"}]
      BY <1>3, <1>5 DEF Inv, TypeOK
    <2>4. LateHasCall'
      BY <1>5, <2>1, <2>2 DEF Inv, LateHasCall
    <2>5. \A d \in Calls : call'[d] # Idle => Sound(call'[d], containers, created)
      BY <1>5, <2>2 DEF Inv
    <2> QED
      BY <1>5, <2>2, <2>3, <2>4, <2>5, DaemonStep
  <1>6. CASE /\ Creates(call[c].name, "self", call[c].tenant) /\ UNCHANGED late
             /\ \/ call' = [call EXCEPT ![c].pc = "done", ![c].reply = "running",
                                        ![c].made = created']
                \/ call' = [call EXCEPT ![c].pc = "reinspect", ![c].made = created']
    <2>1. /\ Evolves(containers', created') /\ IdsIssued' /\ created' \in 0 .. MaxContainers
          /\ created' \in Nat
      BY <1>3, <1>6, CreatesIsNew DEF Evolves
    <2>2. CASE call' = [call EXCEPT ![c].pc = "done", ![c].reply = "running", ![c].made = created']
      <3> DEFINE r == [call[c] EXCEPT !.pc = "done", !.reply = "running", !.made = created']
      <3>1. r \in Active
        BY <1>2, <2>1 DEF Active, Pcs, Answers
      <3>2. r.pc = "done" /\ r.reply = "running" /\ r.docker_id = call[c].docker_id /\ r.ran = call[c].ran
        BY <1>2 DEF Active
      <3>3. call' = [call EXCEPT ![c] = r]
        BY <2>2 DEF Inv, TypeOK
      <3> HIDE DEF r
      <3>4. Sound(r, containers, created)
        BY <1>2, <3>2 DEF Sound
      <3> QED
        BY <1>5, <1>6, <2>1, <3>1, <3>3, <3>4
    <2>3. CASE call' = [call EXCEPT ![c].pc = "reinspect", ![c].made = created']
      <3> DEFINE r == [call[c] EXCEPT !.pc = "reinspect", !.made = created']
      <3>1. r \in Active
        BY <1>2, <2>1 DEF Active, Pcs
      <3>2. /\ r.pc = "reinspect" /\ r.op = call[c].op
            /\ r.docker_id = call[c].docker_id /\ r.ran = call[c].ran
        BY <1>2 DEF Active
      <3>3. call' = [call EXCEPT ![c] = r]
        BY <2>3 DEF Inv, TypeOK
      <3> HIDE DEF r
      <3>4. Sound(r, containers, created)
        BY <1>2, <1>3, <3>2 DEF Sound
      <3> QED
        BY <1>5, <1>6, <2>1, <3>1, <3>3, <3>4
    <2> QED
      BY <1>6, <2>2, <2>3
  <1>7. CASE /\ Goes(c, "reinspect") /\ UNCHANGED <<containers, created>>
             /\ late' = late \cup {[name |-> call[c].name, call |-> c]}
    <2> DEFINE r == [call[c] EXCEPT !.pc = "reinspect"]
    <2>1. /\ Evolves(containers', created') /\ IdsIssued' /\ created' \in 0 .. MaxContainers
      BY <1>7, NothingEvolves
    <2>2. r \in Active
      BY <1>2 DEF Active, Pcs
    <2>3. /\ r.pc = "reinspect" /\ r.op = call[c].op
          /\ r.docker_id = call[c].docker_id /\ r.ran = call[c].ran
      BY <1>2 DEF Active
    <2>4. call' = [call EXCEPT ![c] = r]
      BY <1>7 DEF Goes, Inv, TypeOK
    <2> HIDE DEF r
    <2>5. Sound(r, containers, created)
      BY <1>2, <1>3, <2>3 DEF Sound
    <2> QED
      BY <1>5, <1>7, <2>1, <2>2, <2>4, <2>5
  <1> QED
    BY <1>4, <1>6, <1>7 DEF Run

(* What a docker rm may change: containers with the id of the call go. *)
LEMMA RmRemovesTargets ==
    ASSUME Inv, NEW c \in Calls, Rm(c)
    PROVE  /\ Evolves(containers', created') /\ IdsIssued' /\ created' \in 0 .. MaxContainers
           /\ \A n \in Names : \/ containers'[n] = containers[n]
                               \/ containers'[n] = NoContainer /\ containers[n].id = call[c].docker_id
  <1>1. containers \in [Names -> Container \cup {NoContainer}]
    BY DEF Inv, TypeOK
  <1>2. /\ containers' \in [Names -> Container \cup {NoContainer}] /\ created' = created
        /\ \A n \in Names : \/ containers'[n] = containers[n]
                            \/ containers'[n] = NoContainer /\ containers[n].id = call[c].docker_id
    <2>1. \/ containers' = [n \in Names |-> IF n \in RmTarget(c) THEN NoContainer ELSE containers[n]]
          \/ containers' = containers
      BY DEF Rm
    <2>2. \A n \in RmTarget(c) : containers[n].id = call[c].docker_id
      BY DEF RmTarget
    <2>3. created' = created
      BY DEF Rm
    <2> QED
      BY <1>1, <2>1, <2>2, <2>3
  <1>3. created \in 0 .. MaxContainers /\ created \in Nat
    BY DockerAssumption DEF Inv, TypeOK
  <1>4. Evolves(containers', created')
    BY <1>2, <1>3 DEF Evolves, NoContainer
  <1>5. IdsIssued'
    BY <1>2 DEF Inv, IdsIssued, NoContainer
  <1> QED
    BY <1>2, <1>3, <1>4, <1>5

LEMMA RmKeepsInv ==
    ASSUME Inv, NEW c \in Calls, Rm(c)
    PROVE  Inv'
  <1>1. call[c].pc = "rm" /\ late' = late
    BY DEF Rm, At
  <1>2. call[c] \in Active /\ Sound(call[c], containers, created)
    BY <1>1, CallIsActive
  <1>3. /\ Evolves(containers', created') /\ IdsIssued' /\ created' \in 0 .. MaxContainers
        /\ \A n \in Names : \/ containers'[n] = containers[n] \/ containers'[n] = NoContainer
    BY RmRemovesTargets
  <1>4. created' = created /\ call[c].docker_id <= created' /\ call[c].ran <= created'
    BY <1>2 DEF Rm, Sound
  <1>5. PICK reply \in Answers :
          /\ Replies(c, reply)
          /\ reply = "timeout" =>
               call[c].op = "execute" /\ \A n \in Names : containers'[n].id # call[c].docker_id
    <2>1. call[c].op \in {"start", "execute", "status", "stop"}
      BY <1>2 DEF Active
    <2>2. RemoveReply(c, TRUE) \in Answers /\ (RemoveReply(c, TRUE) = "timeout" => call[c].op = "execute")
      BY <2>1 DEF RemoveReply, Answers
    <2>3. {"outcome_unknown", "unavailable"} \subseteq Answers \ {"timeout"}
      BY DEF Answers
    <2> QED
      BY <2>2, <2>3 DEF Rm, RmSucceeds
  <1>6. reply = "timeout" => call[c].ran # 0 /\ \A n \in Names : containers'[n].id # call[c].ran
    BY <1>1, <1>2, <1>3, <1>5 DEF Sound, NoContainer
  <1> DEFINE done == [call[c] EXCEPT !.pc = "done", !.reply = reply]
  <1>7. done \in Active /\ Sound(done, containers', created')
    BY <1>2, <1>4, <1>6, TimeoutIsSound
  <1>8. call \in [Calls -> Call] /\ call' = [call EXCEPT ![c] = done]
    BY <1>5 DEF Replies, Inv, TypeOK
  <1> HIDE DEF done
  <1>9. done \in Call /\ done # Idle
    BY <1>7, CallTypes, ActiveIsNotIdle
  <1>10. /\ call' \in [Calls -> Call] /\ call'[c] = done
         /\ \A d \in Calls : d # c => call'[d] = call[d]
    BY <1>8, <1>9
  <1>11. LateHasCall'
    BY <1>1, <1>9, <1>10 DEF Inv, LateHasCall
  <1>12. \A d \in Calls : call'[d] # Idle =>
           \/ Sound(call'[d], containers, created) \/ Sound(call'[d], containers', created')
    BY <1>7, <1>10 DEF Inv
  <1> QED
    BY <1>1, <1>3, <1>10, <1>11, <1>12, DaemonStep DEF Inv, TypeOK

LEMMA ReturnKeepsInv ==
    ASSUME Inv, NEW c \in Calls, Return(c)
    PROVE  Inv'
  <1>1. /\ Evolves(containers', created') /\ IdsIssued' /\ created' \in 0 .. MaxContainers
    BY NothingEvolves DEF Return
  <1>2. call \in [Calls -> Call] /\ Idle \in Call /\ call' = [call EXCEPT ![c] = Idle]
    BY CallTypes DEF Inv, TypeOK, Return
  <1>3. /\ call' \in [Calls -> Call] /\ call'[c] = Idle
        /\ \A d \in Calls : d # c => call'[d] = call[d]
    BY <1>2
  <1>4. ASSUME NEW run \in late'
        PROVE  /\ run \in [name : Names, call : Calls \cup {"none"}]
               /\ run.call \in Calls => run.call # c /\ call[run.call] # Idle
    <2>1. PICK old \in late : run = [old EXCEPT !.call = IF old.call = c THEN "none" ELSE old.call]
      BY <1>4 DEF Return
    <2>2. old \in [name : Names, call : Calls \cup {"none"}]
      BY DEF Inv, TypeOK
    <2>3. /\ run \in [name : Names, call : Calls \cup {"none"}]
          /\ run.call = IF old.call = c THEN "none" ELSE old.call
      BY <2>1, <2>2
    <2> QED
      BY <2>2, <2>3, DockerAssumption DEF Inv, LateHasCall
  <1>5. LateHasCall'
    BY <1>3, <1>4 DEF LateHasCall
  <1>6. \A d \in Calls : call'[d] # Idle => Sound(call'[d], containers, created)
    BY <1>3 DEF Inv
  <1> QED
    BY <1>1, <1>3, <1>4, <1>5, <1>6, DaemonStep

-----------------------------------------------------------------------------
(* Theorems *)

LEMMA InitHasInv == Init => Inv
  <1> SUFFICES ASSUME Init PROVE Inv
    OBVIOUS
  <1>1. TypeOK
    BY DockerAssumption, CallTypes DEF Init, TypeOK
  <1> QED
    BY <1>1 DEF Init, Inv, IdsIssued, LateHasCall, NoContainer

LEMMA NextKeepsInv == Inv /\ [Next]_vars => Inv'
  <1> SUFFICES ASSUME Inv, [Next]_vars PROVE Inv'
    OBVIOUS
  <1>1. CASE UNCHANGED vars
    BY <1>1 DEF vars, daemon, Inv, TypeOK, IdsIssued, LateHasCall
  <1>2. CASE \E c \in Calls, tenant \in Tenants, name \in Names,
                op \in {"start", "execute", "status", "stop"} : Begin(c, op, tenant, name)
    BY <1>2, BeginKeepsInv
  <1>3. CASE \E c \in Calls :
               Inspect(c) \/ Run(c) \/ Reinspect(c) \/ Exec(c) \/ Remove(c) \/ Rm(c) \/ Return(c)
    BY <1>3, InspectKeepsInv, RunKeepsInv, ReinspectKeepsInv, ExecKeepsInv, RemoveKeepsInv,
       RmKeepsInv, ReturnKeepsInv
  <1>4. CASE \E run \in late : LateRun(run)
    BY <1>4, LateRunKeepsInv
  <1>5. CASE \E n \in Names, tenant \in Tenants : ForeignRun(n, tenant)
    BY <1>5, ForeignRunKeepsInv
  <1>6. CASE \E n \in Names : Exits(n)
    BY <1>6, ExitsKeepsInv
  <1> QED
    BY <1>1, <1>2, <1>3, <1>4, <1>5, <1>6 DEF Next

LEMMA Invariance == Spec => []Inv
  BY InitHasInv, NextKeepsInv, PTL DEF Spec

(* The daemon's containers, the runs without a client and the calls keep   *)
(* their types.                                                            *)
THEOREM TypeCorrect == Spec => []TypeOK
  <1>1. Inv => TypeOK
    BY DEF Inv
  <1> QED
    BY <1>1, Invariance, PTL

(* execute: whatever happened to its name in between, an answer of Timeout *)
(* or LimitExceeded means that the container of its command is gone.       *)
THEOREM TimeoutKillsCommand == Spec => []TimedOutCommandIsGone
  <1>1. Inv => TimedOutCommandIsGone
    BY DEF Inv, Sound, TimedOutCommandIsGone, At
  <1> QED
    BY <1>1, Invariance, PTL

(* Only a docker rm removes containers. *)
LEMMA OnlyRmRemoves ==
    ASSUME Inv, Next, NEW n \in Names, containers[n] # NoContainer, containers'[n] = NoContainer
    PROVE  \E c \in Calls : Rm(c)
  <1>1. containers \in [Names -> Container \cup {NoContainer}] /\ containers[n] \in Container
    BY DEF Inv, TypeOK
  <1>2. ASSUME NEW m \in Names, NEW owner, NEW tenant, Creates(m, owner, tenant) PROVE FALSE
    BY <1>1, <1>2 DEF Creates
  <1>3. ASSUME NEW m \in Names, Exits(m) PROVE FALSE
    BY <1>1, <1>3 DEF Exits, Container, NoContainer
  <1>4. ASSUME NEW run \in late, LateRun(run) PROVE FALSE
    BY <1>2, <1>4 DEF LateRun, Inv, TypeOK
  <1>5. ASSUME NEW c \in Calls, Run(c) PROVE FALSE
    <2>1. call[c].name \in Names
      BY <1>5, CallIsActive DEF Run, At, Active
    <2> QED
      BY <1>2, <1>5, <2>1 DEF Run, daemon
  <1> QED
    BY <1>2, <1>3, <1>4, <1>5
       DEF Next, Begin, Inspect, Reinspect, Exec, Remove, Return, ForeignRun, daemon

(* remove_owned: whoever takes the name between the inspection and the     *)
(* docker rm, a call removes only a container of its own tenant and of     *)
(* this adapter.                                                           *)
THEOREM RemovalIsOwned == Spec => RemovesOnlyOwn
  <1>1. ASSUME Inv, [Next]_vars, NEW n \in Names,
               containers[n] # NoContainer, containers'[n] = NoContainer
        PROVE  \E c \in Calls : /\ At(c, "rm") /\ ~At(c, "rm")'
                                /\ containers[n].owner = "self"
                                /\ containers[n].tenant = call[c].tenant
    <2>1. Next
      BY <1>1 DEF vars, daemon
    <2>2. PICK c \in Calls : Rm(c)
      BY <1>1, <2>1, OnlyRmRemoves
    <2>3. call[c].pc = "rm"
      BY <2>2 DEF Rm, At
    <2>4. call[c] \in Active /\ Sound(call[c], containers, created)
      BY <1>1, <2>3, CallIsActive
    <2>5. containers[n].id = call[c].docker_id
      BY <1>1, <2>2, RmRemovesTargets
    <2>6. containers[n].owner = "self" /\ containers[n].tenant = call[c].tenant
      BY <2>3, <2>4, <2>5 DEF Sound
    <2>7. \E reply : Replies(c, reply)
      BY <2>2 DEF Rm
    <2>8. call'[c].pc = "done"
      BY <1>1, <2>4, <2>7 DEF Replies, Active, Inv, TypeOK
    <2> QED
      BY <2>3, <2>6, <2>8 DEF At
  <1>2. Inv /\ [Next]_vars =>
          [\A n \in Names : containers[n] # NoContainer /\ containers'[n] = NoContainer =>
             \E c \in Calls : /\ At(c, "rm") /\ ~At(c, "rm")'
                              /\ containers[n].owner = "self"
                              /\ containers[n].tenant = call[c].tenant]_vars
    BY <1>1
  <1> QED
    BY <1>2, Invariance, PTL DEF Spec, RemovesOnlyOwn

=============================================================================
