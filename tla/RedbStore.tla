----------------------------- MODULE RedbStore -----------------------------
(***************************************************************************)
(* RedbObjectStore: the same state in a database file, opened and closed   *)
(* by processes that may die between any two steps of open and in the      *)
(* middle of a commit.  open is three steps: it reserves the path with     *)
(* create_new, opens the database (which takes its exclusive lock), and    *)
(* initialises the schema or validates what it finds.                      *)
(*                                                                         *)
(* redb itself is external: one database handle at a time, transactions    *)
(* that are atomic, and a Database that serves nothing more after a commit *)
(* of it failed.                                                           *)
(***************************************************************************)
EXTENDS StorageState

CONSTANTS
    Processes,          \* each opens the path at most once at a time
    Callers,            \* callers of the operations of an open store
    LimitChoices        \* the limits a process may open the store with

ASSUME RedbAssumption ==
    \A limits \in LimitChoices : limits \in Limits /\ validate_limits(limits)

VARIABLES
    path,               \* what is at the path
    disk,               \* the tables as durable
    view,               \* the tables as the open database shows them
    handle,             \* where each process is with its store
    acknowledged,       \* history: versions each object may have by what was answered
    seen                \* the object each caller last saw

file == <<path, disk>>

answers == <<acknowledged, seen>>

vars == <<file, view, handle, answers>>

(* Nothing, a file of no length, a database without tables, and one with   *)
(* the tables of the schema.                                               *)
Paths == {"absent", "empty", "bare", "initialised"}

Closed == [pc |-> "closed"]

Handles == [pc : {"reserved", "locked", "open"}, fresh : BOOLEAN, limits : LimitChoices]
               \cup {Closed}

NothingSeen == [version |-> 0]

(* The path may be there before any store was opened. *)
Init ==
    /\ path \in {"absent", "empty", "bare"}
    /\ disk = EmptyState
    /\ view = EmptyState
    /\ handle = [p \in Processes |-> Closed]
    /\ acknowledged = [i \in Identities |-> {0}]
    /\ seen = [c \in Callers |-> NothingSeen]

-----------------------------------------------------------------------------
(* RedbObjectStore::open *)

At(p, pc) == handle[p].pc = pc

LockHeld == \E p \in Processes : At(p, "locked") \/ At(p, "open")

Closes(p) == handle' = [handle EXCEPT ![p] = Closed]

(* OpenOptions::create_new tells a new path from an existing one. *)
Reserve(p, limits) ==
    /\ At(p, "closed")
    /\ handle' = [handle EXCEPT ![p] =
           [pc |-> "reserved", fresh |-> path = "absent", limits |-> limits]]
    /\ path' = IF path = "absent" THEN "empty" ELSE path
    /\ UNCHANGED <<disk, view, answers>>

(* Database::create or Database::open, which refuses a file of no length;  *)
(* LockUnavailable while another process has the database.                 *)
OpenDatabase(p) ==
    /\ At(p, "reserved")
    /\ IF LockHeld \/ (~handle[p].fresh /\ path = "empty")
         THEN Closes(p) /\ UNCHANGED <<path, view>>
         ELSE /\ handle' = [handle EXCEPT ![p].pc = "locked"]
              /\ path' = IF path = "empty" THEN "bare" ELSE path
              /\ view' = disk
    /\ UNCHANGED <<disk, answers>>

(* Quotas of a set of objects under the limits of the handle. *)
Fits(st, limits) ==
    \A t \in Tenants : WithinLimits(limits, Count(st, OfTenant(Present(st), t)),
                                            Count(st, Present(st)))

Consistent(st) ==
    LET ids == Present(st) IN
    /\ \A t \in Tenants :
          st.tenants[t] = IF OfTenant(ids, t) = {} THEN NoRow
                          ELSE Count(st, OfTenant(ids, t))
    /\ st.global = Count(st, ids)
    /\ \A i \in ids : st.objects[i].version <= st.revision

validate_integrity(st, limits) == Fits(st, limits) /\ Consistent(st)

MayInitialize(p) == handle[p].fresh

Opened(p) == handle' = [handle EXCEPT ![p].pc = "open"]

(* schema_state, then initialize or validate_integrity.  An open that      *)
(* fails drops its database.                                               *)
CheckSchema(p) ==
    /\ At(p, "locked")
    /\ IF path = "bare" /\ MayInitialize(p)
         THEN path' = "initialised" /\ Opened(p)
       ELSE IF path = "initialised" /\ validate_integrity(view, handle[p].limits)
         THEN Opened(p) /\ UNCHANGED path
         ELSE Closes(p) /\ UNCHANGED path
    /\ UNCHANGED <<disk, view, answers>>

(* initialize commits, but reports an error or its process dies before it  *)
(* returns.                                                                *)
InitializeFails(p) ==
    /\ At(p, "locked")
    /\ path = "bare" /\ MayInitialize(p)
    /\ path' = "initialised"
    /\ Closes(p)
    /\ UNCHANGED <<disk, view, answers>>

(* The handle is dropped, or its process dies, in open or after it. *)
Stop(p) ==
    /\ ~At(p, "closed")
    /\ Closes(p)
    /\ UNCHANGED <<file, view, answers>>
-----------------------------------------------------------------------------
(* Operations on an open store *)

Sees(c, i, version) ==
    seen' = [seen EXCEPT ![c] =
        IF version = 0 THEN NothingSeen
        ELSE [id |-> i, version |-> version]]

Get(p, c, i) ==
    /\ At(p, "open")
    /\ UNCHANGED <<file, view, handle, acknowledged>>
    /\ Sees(c, i, view.objects[i].version)

PutConditions(c) ==
    {AnyCondition, IfAbsent} \cup
    {IfVersion(s.version) : s \in {s \in {seen[c]} : s # NothingSeen}}

DeleteConditions(c) == PutConditions(c) \ {IfAbsent}

Commit_Eventual(st) == view' = st /\ UNCHANGED disk

(* Durability::Immediate: what is committed is durable. *)
Commit(st) == view' = st /\ disk' = st

(* A put or a delete of i that its caller is told succeeded. *)
Applied(i, st) ==
    /\ Commit(st)
    /\ acknowledged' = [acknowledged EXCEPT ![i] = {st.objects[i].version}]
    /\ UNCHANGED <<path, handle>>

Put(p, c, i, bytes, condition) ==
    /\ At(p, "open")
    /\ PutOutcome(view, handle[p].limits, i, bytes, condition) \in Stored
    /\ Applied(i, AfterPut(view, i, bytes))
    /\ Sees(c, i, view'.revision)

Delete(p, c, i, condition) ==
    /\ At(p, "open")
    /\ DeleteOutcome(view, i, condition) = "Deleted"
    /\ Applied(i, AfterDelete(view, i))
    /\ Sees(c, i, 0)

(* The commit fails, or the process dies in it: the caller is told of no   *)
(* success, and the whole transaction is on disk or none of it is.         *)
Unacknowledged(p, i, st) ==
    /\ acknowledged' = [acknowledged EXCEPT ![i] = @ \cup {st.objects[i].version}]
    /\ disk' \in {disk, st}
    /\ Closes(p)
    /\ view' = disk'
    /\ UNCHANGED <<path, seen>>

PutFails(p, c, i, bytes, condition) ==
    /\ At(p, "open")
    /\ PutOutcome(view, handle[p].limits, i, bytes, condition) \in Stored
    /\ Unacknowledged(p, i, AfterPut(view, i, bytes))

DeleteFails(p, c, i, condition) ==
    /\ At(p, "open")
    /\ DeleteOutcome(view, i, condition) = "Deleted"
    /\ Unacknowledged(p, i, AfterDelete(view, i))

(* Every other outcome drops the transaction. *)
Refused(p, c, i) ==
    /\ At(p, "open")
    /\ \/ \E bytes \in ValueBytes, condition \in PutConditions(c) :
             PutOutcome(view, handle[p].limits, i, bytes, condition) \notin Stored
       \/ \E condition \in DeleteConditions(c) :
             DeleteOutcome(view, i, condition) # "Deleted"
    /\ UNCHANGED vars

Open(p) ==
    \/ \E limits \in LimitChoices : Reserve(p, limits)
    \/ OpenDatabase(p) \/ CheckSchema(p) \/ InitializeFails(p) \/ Stop(p)

Operate(p, c, i) ==
    \/ Get(p, c, i) \/ Refused(p, c, i)
    \/ \E bytes \in ValueBytes, condition \in PutConditions(c) :
          Put(p, c, i, bytes, condition) \/ PutFails(p, c, i, bytes, condition)
    \/ \E condition \in DeleteConditions(c) :
          Delete(p, c, i, condition) \/ DeleteFails(p, c, i, condition)

Next ==
    \E p \in Processes :
        \/ Open(p)
        \/ \E c \in Callers, i \in Identities : Operate(p, c, i)

Spec == Init /\ [][Next]_vars

-----------------------------------------------------------------------------
(* Properties *)

Seen == [id : Identities, version : Nat \ {0}] \cup {NothingSeen}

(* Type invariant of the file, the handles and the histories. *)
TypeOK ==
    /\ path \in Paths
    /\ disk \in State /\ view \in State
    /\ handle \in [Processes -> Handles]
    /\ acknowledged \in [Identities -> SUBSET (0 .. MaxRevision)]
    /\ seen \in [Callers -> Seen]

(* ImmediateCommit: whatever process opens the store after whichever stops *)
(* and failed commits, an object is what the last answered operation on it *)
(* left, or what an operation that was never answered since would have.    *)
AcknowledgedSurvives ==
    \A p \in Processes, i \in Identities :
        At(p, "open") => view.objects[i].version \in acknowledged[i]

(* What the operations leave on disk, interrupted or not, is a store that  *)
(* open's validation accepts exactly with limits that its objects fit:     *)
(* open never reports the store's own work as corrupt, and never admits    *)
(* more than the limits, also when they are lower than the ones under      *)
(* which it was written.                                                   *)
OwnStoreValidates ==
    path = "initialised" =>
        \A limits \in LimitChoices :
            validate_integrity(disk, limits) <=>
              /\ Count(disk, Present(disk)).objects <= limits.objects_global
              /\ Count(disk, Present(disk)).value_bytes <= limits.bytes_global
              /\ \A t \in Tenants :
                    LET own == Count(disk, OfTenant(Present(disk), t))
                    IN  /\ own.objects <= limits.objects_per_tenant
                        /\ own.value_bytes <= limits.bytes_per_tenant

Abstract == INSTANCE ObjectStore WITH
    Ids <- Identities,
    versions <- [i \in Identities |-> disk.objects[i].version],
    issued <- disk.revision

(* What is on disk implements the object store callers are promised,       *)
(* through stops, reopenings and failed commits.                           *)
ObjectStoreSpec == Abstract!Spec

=============================================================================
