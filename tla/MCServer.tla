------------------------------ MODULE MCServer ------------------------------
(***************************************************************************)
(* The parts of the MCP server for TLC: the stdio transport, the router    *)
(* over it, the project writer behind it, and the tokens of the auth       *)
(* brick.  They share no state, so a behaviour takes the steps of one of   *)
(* them.                                                                   *)
(***************************************************************************)
EXTENDS AggregateRouter, StdioTransport, Auth

MCWords == {"factory", "project", "validate", "plan", "capabilities", "schema", "a", "b"}

MCStreams ==
    {<<"m", " ", CR, LF, "m", LF>>, <<"m", " ", " ", LF, "m", LF>>, <<"m", LF, "m", " ", CR>>,
     <<"d", LF, "m", LF>>, <<"s", CR, LF, "m">>, <<"m", LF, "m", " ", CR, CR, LF>>,
     <<LF, "m", " ", CR, " ", LF>>, <<"d">>}

Offer(name, bytes) == [name |-> name, bytes |-> bytes]
Contribution(namespace, tools) == [namespace |-> namespace, tools |-> tools]

MCContributions ==
    {Contribution(PROJECT_NAMESPACE, [i \in 1 .. 4 |-> Offer(ProjectTools[i], 1)]),
     Contribution(FACTORY_NAMESPACE, <<Offer(<<"factory", "_", "a">>, 1)>>),
     Contribution(<<"a">>, <<Offer(<<"a", "_", "a">>, 1), Offer(<<"a", "_", "b", "_", "a">>, 1)>>),
     Contribution(<<"a", "_", "b">>, <<Offer(<<"a", "_", "b", "_", "a">>, 1)>>),
     Contribution(<<"a">>, <<Offer(<<"a", "_", "a">>, 1), Offer(<<"a", "_", "a">>, 1)>>),
     Contribution(<<"b">>, <<Offer(<<"b", "_", "a">>, 1)>>),
     Contribution(<<"b">>, <<Offer(<<"a", "_", "b">>, 1)>>),
     Contribution(<<"a", "_", "1">>, <<Offer(<<"a", "_", "1", "_", "a">>, 1)>>),
     Contribution(<<"b">>, <<Offer(<<"b", "_", "a">>, 15)>>)}

Blueprint(kind) ==
    [workspace_name |-> "w", package_name |-> "p", kind |-> kind, license |-> "MIT",
     description |-> <<>>]
Plain == Blueprint("library")
Refused ==
    {[Plain EXCEPT !.workspace_name = " "], [Plain EXCEPT !.package_name = "P!"],
     [Plain EXCEPT !.license = ""]}

MCToolArguments ==
    {<<>>} \cup {<<b>> : b \in {[Plain EXCEPT !.description = d] : d \in {<<" ">>, <<"d">>}} \cup Refused}

GenerateInput(blueprint, target) == [blueprint |-> blueprint, target |-> target]
MCGenerateInputs ==
    {GenerateInput(b, <<"t1">>) : b \in {Plain, Blueprint("binary")} \cup Refused}
      \cup {GenerateInput(Plain, t) : t \in {<<>>, <<"..">>, <<"t1", "t2">>}}

(* Tokens of mint; authority blocks with an identity that is missing, that  *)
(* occurs twice, is no string or is only derived, with a capability that is *)
(* derived, and with a tool that is no string; and blocks of holders that   *)
(* say more than the authority does.                                        *)
MintArguments(capabilities, tools, flags) ==
    [tenant |-> "t1", principal |-> "p1", capabilities |-> capabilities, tools |-> tools,
     flags |-> flags]
MCMints ==
    {MintArguments(<<"get">>, <<2, 1>>, <<"memory">>), MintArguments(<<"get", "list">>, <<>>, <<>>)}

Number(name) == [name |-> name, string |-> FALSE, value |-> 1]
Rule(body, head) == [body |-> body, head |-> head]
Who == <<Fact("tenant", "t1"), Fact("principal", "p1")>>
MCAuthorities ==
    {Block(Append(Who, Fact("capability", "get")), <<>>, <<2>>),
     Block(Who \o <<Fact("tenant", "t2"), Fact("capability", "get")>>, <<>>, <<>>),
     Block(Who \o <<Number("principal"), Fact("capability", "get")>>, <<>>, <<>>),
     Block(<<Fact("tenant", "t1"), Fact("capability", "get")>>,
           <<Rule(Fact("tenant", "t1"), Fact("principal", "p1"))>>, <<>>),
     Block(Who, <<Rule(Fact("role", "r"), Fact("capability", "get")),
                  Rule(Fact("tenant", "t1"), Fact("role", "r"))>>, <<>>),
     Block(Who \o <<Fact("capability", "list"), Number("allowed_tool")>>, <<>>, <<>>)}
MCHolderBlocks ==
    {Block(<<Fact("capability", "list")>>, <<>>, <<>>),
     Block(<<Fact("tenant", "t2"), Fact("allowed_tool", 3), Fact("grant", "sandbox")>>, <<>>, <<>>),
     Block(<<>>, <<Rule(Fact("tenant", "t1"), Fact("capability", "list"))>>, <<>>)}
MCAuthRequests ==
    {[request_id |-> "q1", correlation_id |-> "c", capability |-> "get"],
     [request_id |-> "q1", correlation_id |-> "c", capability |-> "list"],
     [request_id |-> "q2", correlation_id |-> "c", capability |-> "get"]}

-----------------------------------------------------------------------------
vars == <<transport, routing, scaffold, auth>>

MCInit == TransportInit /\ RouterInit /\ ScaffoldInit /\ AuthInit

TransportRests ==
    /\ stream = CHOOSE s \in Streams : TRUE
    /\ unread = stream /\ receiver = "idle" /\ faults = 0
    /\ \A s \in Senders : sends[s] = "new"
RouterRests == router = <<>> /\ builder = [bricks |-> <<>>, meta |-> <<>>]
ScaffoldRests == tree = <<>> /\ \A c \in Generators : generating[c] = Rest

AuthRests == token = Nothing /\ time = 1

ServeTransport ==
    /\ RouterRests /\ ScaffoldRests /\ AuthRests
    /\ TransportNext /\ UNCHANGED <<routing, scaffold, auth>>
ServeRouter ==
    /\ TransportRests /\ ScaffoldRests /\ AuthRests
    /\ RouterNext /\ UNCHANGED <<transport, scaffold, auth>>
ServeScaffold ==
    /\ TransportRests /\ RouterRests /\ AuthRests
    /\ ScaffoldNext /\ UNCHANGED <<transport, routing, auth>>
ServeAuth ==
    /\ TransportRests /\ RouterRests /\ ScaffoldRests
    /\ AuthNext /\ UNCHANGED <<transport, routing, scaffold>>

MCNext == ServeTransport \/ ServeRouter \/ ServeScaffold \/ ServeAuth

MCSpec == MCInit /\ [][MCNext]_vars

-----------------------------------------------------------------------------
(* The items of a stream that arrives at once. *)
Items(bytes) ==
    LET Byte(scan, b) ==
          IF b = LF THEN [items |-> Append(scan.items, scan.line), line |-> <<>>]
          ELSE [scan EXCEPT !.line = Append(@, b)]
        scan == FoldLeft(Byte, [items |-> <<>>, line |-> <<>>], bytes)
        Item(line) == IF payload_is_oversized(line) THEN "overflow" ELSE Parsed(line)
    IN  [i \in 1 .. Len(scan.items) + 1 |-> Item(Append(scan.items, scan.line)[i])]

(* The messages before the first line that ends the session. *)
Messages(bytes) ==
    LET items == Items(bytes)
        Ends(i) == items[i] \in {"overflow", "data"}
    IN  Cardinality({i \in DOMAIN items :
                       items[i] = "message" /\ \A j \in 1 .. i : ~Ends(j)})

(* The codec reaches the same verdict however the bytes arrive and whenever *)
(* a receive is dropped: when the loop ends the session itself, it has      *)
(* returned exactly the messages before the end of the stream, before the   *)
(* first line over the limit, or before the first that is no message.       *)
FramingIgnoresChunks ==
    [][/\ receiver = "reading" /\ closed' => delivered = Messages(stream)
       /\ delivered' <= Messages(stream)]_transport

(* A send that returned Ok has its whole frame in the output, in order,     *)
(* once and before the end; nothing follows the end.                        *)
SentIsWritten ==
    /\ \A i \in DOMAIN output : output[i] = EOF => i = Len(output)
    /\ \A s \in Senders :
         LET At(piece) == {i \in DOMAIN output : output[i] = <<s, piece>>}
         IN  /\ Cardinality(At(1)) <= 1 /\ Cardinality(At(2)) <= 1
             /\ \A i \in At(2) : i - 1 \in At(1)
             /\ sends[s] = "sent" => At(2) # {}

(* A router that was built lists each tool for one contribution, has no     *)
(* brick under the name of the factory, and is within its budgets; a call   *)
(* that reaches a contribution reaches the only one that declared exactly   *)
(* the name that was called, whatever namespaces are prefixes of others.    *)
CallsReachOwner ==
    router # <<>> /\ Head(router).ok =>
      LET served == Head(router).value
          all == builder.bricks \o builder.meta
          Declares(c, name) == \E t \in ToSet(c.tools) : t.name = name
          Declared(c) == {t.name : t \in ToSet(c.tools)}
      IN  /\ served.tools = UNION {Declared(all[i]) : i \in DOMAIN all}
          /\ Cardinality(served.tools) <= MAX_TOOLS
          /\ \A i, j \in DOMAIN all : i # j =>
               /\ all[i].namespace # all[j].namespace
               /\ Declared(all[i]) \cap Declared(all[j]) = {}
          /\ \A i \in DOMAIN all :
               /\ Cardinality(Declared(all[i])) = Len(all[i].tools)
               /\ is_factory_reserved(all[i].namespace) <=> i > Len(builder.bricks)
          /\ called # <<>> /\ Head(called).to # <<>> =>
               /\ Head(called).tool = Head(called).name
               /\ \E i \in DOMAIN all :
                    all[i] = Head(Head(called).to) /\ Declares(all[i], Head(called).name)

(* Once project_generate has said that it wrote a project, its target holds *)
(* exactly the files of the plan, whatever other calls for the same target  *)
(* do, fail at or clean up, and whenever the process ends.  The other       *)
(* directories below the root are those that one running call has reserved  *)
(* and those a crash or a failed removal has left; a call that failed       *)
(* otherwise has left nothing.                                              *)
TargetsAccounted ==
    LET active == {c \in Generators : generating[c].at \in {"writing", "removing"}}
        reserved == {generating[c].target : c \in active}
    IN  /\ \A t \in DOMAIN generated : t \in DOMAIN tree /\ tree[t] = generated[t]
        /\ Cardinality(reserved) = Cardinality(active)
        /\ DOMAIN tree \subseteq DOMAIN generated \cup reserved \cup abandoned
        /\ reserved \cap (DOMAIN generated \cup abandoned) = {}

(* Blocks that holders append only narrow a token: what it is allowed with  *)
(* them it was allowed without the last of them, in the same identity and   *)
(* with the same grant, and at every earlier time.                          *)
AttenuationNarrows ==
    \A request \in AuthRequests :
      LET decision == authorize_inner(request, token, time)
      IN  token # Nothing /\ decision.kind = "allow" =>
            \A n \in 1 .. Len(token.blocks), at \in 1 .. time :
              authorize_inner(request, Token(token.key, SubSeq(token.blocks, 1, n)), at) = decision

(* A decision that allows is verified for the request it was made for and   *)
(* for no other; its token was signed with the root key, had not expired,   *)
(* and names exactly the identity of the decision in its authority block.   *)
DecisionBindsRequest ==
    decided # <<>> /\ Head(decided).decision.kind = "allow" =>
      LET d == Head(decided)
          said == ToSet(Head(d.token.blocks).facts)
          Said(name) == {f.value : f \in {g \in said : g.name = name}}
      IN  /\ \A request \in AuthRequests :
               verify_decision(request, d.decision) <=> request = d.request
          /\ d.token.key = RootKey
          /\ Said("tenant") = {d.decision.context.tenant}
          /\ Said("principal") = {d.decision.context.principal}
          /\ \A block \in ToSet(d.token.blocks) : \A expiry \in ToSet(block.checks) : d.at <= expiry

(* "dispatching each call by looking up the contribution that owns the      *)
(* requested tool name": a call of a tool that is listed is dispatched.     *)
ListedIsDispatched ==
    called # <<>> /\ Head(called).name \in Head(router).value.tools => Head(called).to # <<>>

=============================================================================
