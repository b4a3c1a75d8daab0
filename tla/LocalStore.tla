----------------------------- MODULE LocalStore -----------------------------
(***************************************************************************)
(* LocalObjectStore: State under one mutex, so that every operation is one *)
(* step, and callers that read, compare-and-set, delete and page through a *)
(* scope.  What a caller keeps between two of its calls (the version it    *)
(* saw, the cursor of a listing) is stale by the time it uses it: that is  *)
(* where this module looks.                                                *)
(***************************************************************************)
EXTENDS StorageState

CONSTANTS
    Callers,            \* callers of get, put and delete
    Listers,            \* callers that list a scope page by page
    StoreLimits,        \* the limits the store was built with
    PageLimit           \* the limit of every list request

ASSUME LocalAssumption ==
    /\ StoreLimits \in Limits /\ validate_limits(StoreLimits)
    /\ PageLimit \in Nat \ {0}

VARIABLES
    state,              \* the State behind the mutex
    seen,               \* the object each caller last saw
    listing,            \* the listing each lister is in
    writes              \* history: changes of each object

vars == <<state, seen, listing, writes>>

NothingSeen == [version |-> 0]

NotListing == [open |-> FALSE]

Init ==
    /\ state = EmptyState
    /\ seen = [c \in Callers |-> NothingSeen]
    /\ listing = [l \in Listers |-> NotListing]
    /\ writes = [i \in Identities |-> 0]

(* A caller remembers the version it was given, with the number of changes *)
(* the object had undergone then.                                          *)
Sees(c, i, version) ==
    seen' = [seen EXCEPT ![c] =
        IF version = 0 THEN NothingSeen
        ELSE [id |-> i, version |-> version, writes |-> writes'[i]]]

Get(c, i) ==
    /\ UNCHANGED <<state, listing, writes>>
    /\ Sees(c, i, state.objects[i].version)

(* The conditions a caller can ask for: a version only if it holds one. *)
PutConditions(c) ==
    {AnyCondition, IfAbsent} \cup
    {IfVersion(s.version) : s \in {s \in {seen[c]} : s # NothingSeen}}

Changed(i) == writes' = [writes EXCEPT ![i] = @ + 1]

Put(c, i, bytes, condition) ==
    /\ PutOutcome(state, StoreLimits, i, bytes, condition) \in Stored
    /\ state' = AfterPut(state, i, bytes)
    /\ Changed(i)
    /\ Sees(c, i, state'.revision)
    /\ UNCHANGED listing

(* A deleted key is no longer one that a listing must report. *)
Delete(c, i, condition) ==
    /\ DeleteOutcome(state, i, condition) = "Deleted"
    /\ state' = AfterDelete(state, i)
    /\ Changed(i)
    /\ Sees(c, i, 0)
    /\ listing' = [l \in Listers |->
           IF listing[l].open /\ IdentityOf(listing[l].scope, i.key) = i
             THEN [listing[l] EXCEPT !.steady = @ \ {i.key}]
             ELSE listing[l]]

(* Conflicts, absent objects and every error return without a change. *)
Refused(c, i) ==
    /\ \/ \E bytes \in ValueBytes, condition \in PutConditions(c) :
             PutOutcome(state, StoreLimits, i, bytes, condition) \notin Stored
       \/ \E condition \in PutConditions(c) \ {IfAbsent} :
             DeleteOutcome(state, i, condition) # "Deleted"
    /\ UNCHANGED vars

(* steady is history: the keys present ever since the listing began. *)
ListStart(l, scope) ==
    /\ ~listing[l].open
    /\ LET page == ListPage(state, scope, 0, PageLimit) IN
       listing' = [listing EXCEPT ![l] =
           [open |-> TRUE, scope |-> scope, found |-> page.keys, has_more |-> page.has_more,
            steady |-> KeysAfter(state, scope, 0)]]
    /\ UNCHANGED <<state, seen, writes>>

(* The next page starts after the last key of the previous ones. *)
ListMore(l) ==
    /\ listing[l].open /\ listing[l].has_more
    /\ LET last == CHOOSE k \in listing[l].found : \A j \in listing[l].found : j <= k
           page == ListPage(state, listing[l].scope, last, PageLimit) IN
       listing' = [listing EXCEPT ![l].found = @ \cup page.keys,
                                  ![l].has_more = page.has_more]
    /\ UNCHANGED <<state, seen, writes>>

ListDone(l) ==
    /\ listing[l].open /\ ~listing[l].has_more
    /\ listing' = [listing EXCEPT ![l] = NotListing]
    /\ UNCHANGED <<state, seen, writes>>

Next ==
    \/ \E c \in Callers, i \in Identities : Get(c, i) \/ Refused(c, i)
    \/ \E c \in Callers, i \in Identities, bytes \in ValueBytes :
          \E condition \in PutConditions(c) : Put(c, i, bytes, condition)
    \/ \E c \in Callers, i \in Identities :
          \E condition \in PutConditions(c) \ {IfAbsent} : Delete(c, i, condition)
    \/ \E l \in Listers, scope \in Scopes : ListStart(l, scope)
    \/ \E l \in Listers : ListMore(l) \/ ListDone(l)

Spec == Init /\ [][Next]_vars

-----------------------------------------------------------------------------
(* Properties *)

Seen == [id : Identities, version : Nat \ {0}, writes : Nat] \cup {NothingSeen}

(* Type invariant of the store's state and of what callers remember. *)
TypeOK ==
    /\ state \in State
    /\ seen \in [Callers -> Seen]
    /\ writes \in [Identities -> Nat]

(* The tenant rows and the global counters that put and delete maintain    *)
(* are what the stored objects add up to, and a tenant without objects has *)
(* no row: no sequence of creates, replacements and deletes makes them     *)
(* drift.                                                                  *)
CountersMatchObjects ==
    LET ids == Present(state) IN
    /\ state.global = Count(state, ids)
    /\ \A t \in Tenants :
          state.tenants[t] = IF OfTenant(ids, t) = {} THEN NoRow
                             ELSE Count(state, OfTenant(ids, t))

(* The number of objects stored never exceeds a quota of the store,        *)
(* however creates and deletes of several tenants are ordered.             *)
ObjectQuotaHolds ==
    /\ Cardinality(Present(state)) <= StoreLimits.objects_global
    /\ \A t \in Tenants :
          Cardinality(OfTenant(Present(state), t)) <= StoreLimits.objects_per_tenant

(* A version names one write for ever: an object that has the version a    *)
(* caller saw was not changed since (deleted and created again, say), so   *)
(* a put or a delete conditioned on it overwrites nothing unseen.          *)
VersionNamesWrite ==
    \A c \in Callers : seen[c] # NothingSeen =>
        (state.objects[seen[c].id].version = seen[c].version =>
            writes[seen[c].id] = seen[c].writes)

(* A listing that came to its end reported every key that was there all    *)
(* the while, whatever was put and deleted between its pages.              *)
ListingIsComplete ==
    \A l \in Listers : listing[l].open /\ ~listing[l].has_more =>
        listing[l].steady \subseteq listing[l].found

Abstract == INSTANCE ObjectStore WITH
    Ids <- Identities,
    versions <- [i \in Identities |-> state.objects[i].version],
    issued <- state.revision

(* The local adapter implements the object store callers are promised. *)
ObjectStoreSpec == Abstract!Spec

=============================================================================
