----------------------------- MODULE MCMemory -----------------------------
(***************************************************************************)
(* The memory surface for TLC: two tenants, two namespaces of which a      *)
(* tenant may hold one, and two records in it; contents around every       *)
(* ceiling of the projection.                                              *)
(***************************************************************************)
EXTENDS MemoryMcp

Context(tenant, principal) ==
    [tenant |-> tenant, principal |-> principal, request |-> "q", correlation |-> "c"]
MCContexts == {Context("t1", "p1"), Context("t2", "p1")}

(* t1 may do everything but ask for the status.  t2 may read; it holds the *)
(* write capability too, but its grant has the memory flag off.            *)
Entry(tenant, capability, memory) ==
    <<[tenant |-> tenant, principal |-> "p1", capability |-> capability],
      [tools |-> <<2, 1, 2>>, memory |-> memory, knowledge |-> FALSE, sandbox |-> FALSE,
       communication |-> FALSE]>>
MCGrants ==
    <<Entry("t1", "memory_remember", TRUE), Entry("t1", "memory_recall", TRUE),
      Entry("t1", "memory_search", TRUE), Entry("t1", "memory_forget", TRUE),
      Entry("t2", "memory_remember", FALSE), Entry("t2", "memory_recall", TRUE)>>

Content(bytes) == [bytes |-> bytes, json |-> bytes, terms |-> {}]
Plain == [kind |-> "Factual", content |-> Content(1), tags |-> <<>>, run |-> <<>>]

Request(namespace, key, over) ==
    [namespace |-> namespace, key |-> key] @@ over @@ Plain

MCRememberInputs ==
    {[bytes |-> 1] @@ r : r \in
       {Request("n1", 1, <<>>), Request("n2", 1, <<>>), Request("bad", 1, <<>>),
        Request("n1", 2, [kind |-> "Episodic", run |-> <<"r1">>]),
        Request("n1", 1, [content |-> Content(3)]), Request("n1", 1, [content |-> Content(0)]),
        Request("n1", 2, [tags |-> <<"r1">>]), Request("n1", 2, [tags |-> <<"bad">>])}}

MCTypedRequests ==
    {[metadata |-> {}] @@ r : r \in
       {[tenant |-> "t1"] @@ Request("n1", 1, [content |-> Content(6)]),
        [tenant |-> "t1"] @@ Request("n1", 2, [content |-> Content(6)]),
        [tenant |-> "t1"] @@ Request("n1", 3, [content |-> Content(12)]),
        [tenant |-> "t2"] @@ Request("n1", 1, [content |-> Content(9)])}}

MCConfig == [backend |-> "AgenticInProcess", default_namespace |-> "n1", max_query_limit |-> 2]

MCAddresses == [namespace : {"n1", "bad"}, key : {0, 1, 2, 3}, bytes : {1, 2}]

All(limit) ==
    [kinds |-> <<>>, tags |-> <<>>, term |-> <<>>, since |-> <<>>, until |-> <<>>,
     limit |-> limit]
MCSearchInputs ==
    {[namespace |-> "n1", bytes |-> 1, query |-> q] : q \in
       {All(1), All(2), All(3), [All(2) EXCEPT !.since = <<1>>, !.until = <<2>>],
        [All(2) EXCEPT !.since = <<2>>], [All(2) EXCEPT !.since = <<2>>, !.until = <<2>>],
        [All(2) EXCEPT !.kinds = <<"Episodic">>], [All(1) EXCEPT !.tags = <<"r1">>],
        [All(2) EXCEPT !.term = <<[bytes |-> 1, text |-> "x"]>>]}}

-----------------------------------------------------------------------------
(* No action reads the last answer and every property of it is about a      *)
(* step, so that states that differ in it alone need not be told apart.    *)
View == tenants

(* What the store holds, read back through the index. *)
Stored ==
    LET Keys(p) == {k \in DOMAIN p.ids : p.ids[k] \in DOMAIN p.nodes}
        Held(t) == {n \in DOMAIN tenants[t] : Keys(tenants[t][n]) # {}}
    IN  [t \in {u \in DOMAIN tenants : Held(u) # {}} |->
          [n \in Held(t) |->
            [k \in Keys(tenants[t][n]) |-> Head(get(tenants, t, n, k))]]]

StoredRecords ==
    {[tenant |-> c.tenant, namespace |-> r.namespace, key |-> r.key, kind |-> r.kind,
      content |-> r.content, tags |-> r.tags, metadata |-> {},
      provenance |-> IF r.run = <<>> THEN <<>> ELSE <<[run |-> Head(r.run), at |-> now]>>] :
        c \in MCContexts, r \in MCRememberInputs \cup MCTypedRequests, now \in Times}

Reference == INSTANCE InProcessStore WITH tenants <- Stored, Records <- StoredRecords

(* local.rs calls the in-process store the reference behaviour of the port: *)
(* what the agentic store holds changes only as that store would change it, *)
(* whatever the graph refuses on the way.                                   *)
ReferenceStore == Reference!Spec

(* Every index entry names a node that is in the graph and has its sidecar, *)
(* two keys never share a node, and no sidecar outlives its index entry,    *)
(* although superseded nodes may stay in the graph.                         *)
IndexMatchesGraph ==
    \A t \in DOMAIN tenants : \A n \in DOMAIN tenants[t] :
      LET p == tenants[t][n]
          indexed == {p.ids[k] : k \in DOMAIN p.ids}
      IN  /\ indexed \subseteq DOMAIN p.nodes
          /\ indexed = DOMAIN p.sidecars
          /\ Cardinality(indexed) = Cardinality(DOMAIN p.ids)
          /\ \A id \in DOMAIN p.nodes : id < p.next

(* What an answer says about the reads of the store. *)
HidesNothing ==
    LET t == Head(answer.trusted).tenant
        in == answer.input
        page == answer.result.value
        named == page.records \o page.deferred \o page.oversized
        expected == Reference!Query(t, in.namespace, in.query)
    IN  /\ answer.tool = "memory_search" /\ answer.result.ok =>
             /\ Len(named) = Len(expected)
             /\ ToSet(named) = {r.key : r \in ToSet(expected)}
        /\ answer.tool = "memory_search" /\ answer.result = Err("limit_exceeded") =>
             in.query.limit > service.value.result_ceiling \/ in.bytes > MaxRequestBytes
        /\ answer.tool = "memory_recall" /\ answer.result = Ok(<<>>) =>
             IsEmpty(Reference!Get(t, in.namespace, in.key))

(* serialize_search and recall_json never hide a record: a page names every *)
(* match within the limit exactly once, in its records, deferred or         *)
(* oversized keys, it always fits the response, and a recall reports null   *)
(* only when nothing is stored under the address.                           *)
ReadsHideNothing == [][HidesNothing']_vars

(* A tool answers, or changes the store, only under a decision the resolver *)
(* made for this context and this capability with the memory flag on, and   *)
(* then only in the tenant of the trusted context: a decision issued for    *)
(* another request, or changed after it was digested, is worth nothing.     *)
DecisionBindsCall ==
    [][answer'.tool \in Capabilities /\ (answer'.result.ok \/ tenants' # tenants) =>
         LET context == Head(answer'.trusted)
             decision == StaticAuthorize(resolver.value,
                                         [context |-> context, capability |-> answer'.tool])
         IN  /\ answer'.trusted # <<>>
             /\ decision.kind = "allow" /\ decision.grant.memory
             /\ \A t \in (DOMAIN tenants \cup DOMAIN tenants') \ {context.tenant} :
                  At(tenants, t) = At(tenants', t)]_vars

(* The contract of the port, clause 7: an operation that fails must not     *)
(* have applied a partial effect.                                           *)
FailureLeavesNoTrace == [][~answer'.result.ok => tenants' = tenants]_vars

=============================================================================
