--------------------------- MODULE MCAgentRuntime ---------------------------
(* A small instance of AgentRuntime for TLC. *)
EXTENDS AgentRuntime, TLC

CONSTANTS c1, c2

CallerSymmetry == Permutations({c1, c2})

Definition(id, model, tools, granted) ==
    [id |-> id, texts_valid |-> TRUE, references_valid |-> TRUE, instructions |-> 1,
     model |-> model, skills |-> <<"s">>, steering |-> <<>>, tools |-> tools,
     memory |-> granted, max_items |-> 1,
     knowledge |-> granted, namespace |-> "n", max_results |-> 2,
     sandbox |-> granted, communication |-> FALSE,
     max_tool_calls |-> 2, max_output_bytes |-> 3]

(* A built-in that works, and one for each way in which a valid definition *)
(* cannot be invoked: a tool nobody registered, a reserved tool id, more   *)
(* tools than a request may declare, a prompt that is too long with the    *)
(* input, and no provider in the model's name.                             *)
SampleBuiltins ==
    << Definition("helper", "p.m", <<"grep">>, TRUE),
       Definition("lacking", "p.m", <<"ghost">>, FALSE),
       Definition("reserved", "p.m", <<RecallTool>>, FALSE),
       Definition("crowded", "p.m", <<"grep", "edit">>, TRUE),
       [Definition("wordy", "p.m", <<>>, FALSE) EXCEPT !.instructions = 2],
       Definition("nameless", "unknown", <<>>, FALSE) >>

(* Two versions of a user's agent, and one definition for each way to be   *)
(* refused by register.                                                    *)
SampleOffered ==
    LET mine == Definition("mine", "p.m", <<"grep", "edit", "grep">>, FALSE) IN
    { mine,
      [mine EXCEPT !.tools = <<>>, !.memory = TRUE],
      [mine EXCEPT !.max_output_bytes = 0],
      [mine EXCEPT !.references_valid = FALSE],
      [mine EXCEPT !.tools = <<"lost">>],
      [mine EXCEPT !.id = "helper"] }

SampleProvider == [model \in {"p.m", "unknown"} |-> IF model = "p.m" THEN "p" ELSE None]

SampleRequests ==
    LET narrow == [well_formed |-> TRUE, tools |-> <<"grep", "edit">>, memory |-> TRUE,
                   knowledge |-> FALSE, sandbox |-> FALSE, communication |-> TRUE]
        Request(tenant, agent, ceiling) ==
            [tenant |-> tenant, agent |-> agent, bytes |-> 1, ceiling |-> ceiling]
    IN  { Request("t", "helper", FullDefinition),
          Request("u", "helper", narrow),
          Request("t", "mine", FullDefinition),
          Request("t", "lacking", FullDefinition),
          Request("t", "reserved", FullDefinition),
          Request("t", "crowded", FullDefinition),
          [Request("t", "wordy", FullDefinition) EXCEPT !.bytes = 2],
          Request("t", "nameless", FullDefinition),
          Request("t", "helper", [narrow EXCEPT !.well_formed = FALSE]),
          [Request("t", "helper", FullDefinition) EXCEPT !.bytes = 3] }

SampleTexts == {"note", "n", "all", "long"}

SampleTextBytes == [text \in SampleTexts |->
    CASE text = "n" -> 1 [] text = "note" -> 2 [] text = "long" -> 3 [] OTHER -> 0]

(* Every text contains itself and the empty query `all`. *)
SampleContainment ==
    {<<text, "all">> : text \in SampleTexts} \cup {<<text, text>> : text \in SampleTexts}
      \cup {<<"note", "n">>}

ToolCall(name, fields, text) ==
    [name |-> name, fields |-> fields, text |-> text,
     json |-> SampleTextBytes[text] + 2]

SampleResponses ==
    LET usage == [prompt |-> <<1>>, completion |-> <<1>>, total |-> <<2>>]
        Response(calls) == [error |-> None, well_formed |-> TRUE, text |-> 1,
                            calls |-> calls, usage |-> usage]
        write == ToolCall(WriteTool, "value", "note")
        recall_all == ToolCall(RecallTool, "query", "all")
        find == ToolCall(SearchTool, "query", "n")
        grep == ToolCall("grep", "input", "note")
    IN  { Response(<<>>),
          Response(<<write, recall_all>>),
          Response(<<recall_all, find>>),
          Response(<<write, ToolCall(SearchTool, "query", "all")>>),
          Response(<<grep, ToolCall(ExecuteTool, "action_arguments", "note")>>),
          Response(<<write, ToolCall("edit", "input", "note")>>),
          Response(<<write, ToolCall(RecallTool, "value", "all")>>),
          Response(<<write, ToolCall(WriteTool, "value", "long")>>),
          Response(<<grep, grep, grep>>),
          [Response(<<write>>) EXCEPT !.usage.total = <<3>>],
          [Response(<<>>) EXCEPT !.well_formed = FALSE],
          [Response(<<>>) EXCEPT !.text = 4] }

Document(tenant, id, text) == [tenant |-> tenant, namespace |-> "n", id |-> id, text |-> text]

(* A result, one of another tenant, one out of order, and one too large. *)
SampleAnswers == {
    <<>>,
    <<Document("t", 1, "note")>>,
    <<Document("u", 1, "note")>>,
    <<Document("t", 1, "n"), Document("t", 1, "n")>>,
    <<Document("t", 1, "note"), Document("t", 2, "note")>> }

(* Fixtures: a write and a recall, a search, what the fixed ports answer,   *)
(* an error, and one that StaticFixture::new refuses.                      *)
SampleFixtures ==
    LET Fixture(calls) == [error |-> None, text |-> 1, calls |-> calls]
    IN  { Fixture(<<ToolCall(WriteTool, "value", "note"), ToolCall(RecallTool, "query", "all")>>),
          Fixture(<<ToolCall(SearchTool, "query", "n")>>),
          Fixture(<<ToolCall("grep", "input", "note"),
                    ToolCall(ExecuteTool, "action_arguments", "note")>>),
          [Fixture(<<>>) EXCEPT !.text = 5],
          [error |-> "RateLimited"] }

(* A corpus in no order, with more matches than a search may report, and    *)
(* corpora that StaticKnowledgeIndex::new refuses: a repeated key, and too  *)
(* much text.                                                              *)
SampleCorpora == {
    <<Document("t", 3, "n"), Document("u", 1, "note"), Document("t", 2, "n"),
      Document("t", 1, "n")>>,
    <<Document("t", 2, "note"), Document("t", 1, "note")>>,
    <<Document("t", 1, "n"), Document("t", 1, "note")>>,
    <<Document("t", 1, "note"), Document("t", 2, "note"), Document("t", 3, "note")>> }

SampleOutputs == [tool \in {"grep", "edit", RecallTool} |-> IF tool = "grep" THEN 1 ELSE 3]

=============================================================================
