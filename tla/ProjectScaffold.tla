-------------------------- MODULE ProjectScaffold --------------------------
(***************************************************************************)
(* The project brick: blueprints, the plan of files made from one, its MCP *)
(* tools, and the writer that materializes a plan below its root with      *)
(* several calls at once, failing file operations and crashes.             *)
(*                                                                         *)
(* A path is the sequence of its components.  The contents of a file are   *)
(* the values its template is filled with.                                 *)
(***************************************************************************)
EXTENDS McpContract

CONSTANTS
    CargoNames,             \* what is_cargo_name accepts
    GenerateInputs,         \* inputs of project_generate
    Generators              \* concurrent calls of it

VARIABLES
    tree,                   \* the files below each target directory
    generating,             \* where each call of project_generate is
    generated,              \* what successful calls said they wrote, by target
    abandoned               \* targets a crash or a failed removal left behind

scaffold == <<tree, generating, generated, abandoned>>

(******************************* blueprints *******************************)

Blank(text) == text \in {"", " "}
is_cargo_name(value) == value \in CargoNames

source_file(kind) == IF kind = "library" THEN <<"src", "lib.rs">> ELSE <<"src", "main.rs">>

Finding(code, severity, field) == [code |-> code, severity |-> severity, field |-> field]

validate_name(field, value) ==
    IF Blank(value) THEN <<Finding("empty_field", "error", field)>>
    ELSE IF ~is_cargo_name(value) THEN <<Finding("invalid_name", "error", field)>>
    ELSE <<>>

validate_required(field, value) ==
    IF Blank(value) THEN <<Finding("empty_field", "error", field)>> ELSE <<>>

validate(blueprint) ==
    validate_name("workspace_name", blueprint.workspace_name)
      \o validate_name("package_name", blueprint.package_name)
      \o validate_required("license", blueprint.license)
      \o IF blueprint.description # <<>> /\ Blank(Head(blueprint.description))
           THEN <<Finding("empty_description", "warning", "description")>> ELSE <<>>

is_valid(findings) == \A i \in DOMAIN findings : findings[i].severity # "error"

GeneratedFile(path, contents) == [path |-> path, contents |-> contents]

build_plan(blueprint) ==
    LET package_path == <<"crates", blueprint.package_name>>
        description == SelectSeq(blueprint.description, LAMBDA d : ~Blank(d))
    IN  [files |->
           <<GeneratedFile(<<".gitignore">>, <<>>),
             GeneratedFile(<<"Cargo.toml">>,
                           <<blueprint.package_name, blueprint.license>> \o description),
             GeneratedFile(<<"Makefile">>, <<>>),
             GeneratedFile(<<"README.md">>, <<blueprint.workspace_name>>),
             GeneratedFile(package_path \o <<"Cargo.toml">>, <<blueprint.package_name>>),
             GeneratedFile(package_path \o source_file(blueprint.kind), <<blueprint.kind>>)>>,
         quality_commands |-> <<<<"make", "check">>>>]

plan(blueprint) ==
    IF is_valid(validate(blueprint)) THEN Ok(build_plan(blueprint)) ELSE Err("InvalidBlueprint")

(* ProjectTarget::new: one normal component. *)
ProjectTarget(value) ==
    IF Len(value) = 1 /\ value[1] \notin {"/", ".", ".."} THEN Ok(value[1]) ELSE Err("Invalid")

validate_relative_path(path) == path # <<>> /\ ToSet(path) \cap {"..", "/"} = {}

(******************************** the tools *******************************)

tool_response(result) == IF result.ok THEN result.value ELSE [error |-> "generation_failed"]

validate_json(blueprint) ==
    Ok([valid |-> is_valid(validate(blueprint)), findings |-> validate(blueprint)])

plan_json(blueprint) == plan(blueprint)

PROJECT_NAMESPACE == <<"project">>
Tool(operation) == ToolName(PROJECT_NAMESPACE, <<operation>>).value
ProjectTools == <<Tool("validate"), Tool("plan"), Tool("capabilities"), Tool("schema")>>

fold_outcome(result) == DispatchOutcome(tool_response(result), FALSE)

(* dispatch of the contribution, which does not offer project_generate. *)
dispatch(tool, arguments) ==
    IF tool \in {Tool("validate"), Tool("plan")}
      THEN IF arguments = <<>> THEN Err("MalformedArguments")
           ELSE IF tool = Tool("validate") THEN Ok(fold_outcome(validate_json(arguments[1])))
           ELSE Ok(fold_outcome(plan_json(arguments[1])))
    ELSE IF tool = Tool("capabilities")
      THEN Ok(fold_outcome(Ok([namespace |-> PROJECT_NAMESPACE, tools |-> ProjectTools])))
    ELSE IF tool = Tool("schema") THEN Ok(fold_outcome(Ok([schema |-> "BlueprintInput"])))
    ELSE Err("UnknownTool")

(******************************** the writer ******************************)

Rest == [at |-> "idle"]
Answered(result) == [at |-> "answered", result |-> result]

ScaffoldInit ==
    /\ tree = <<>> /\ generated = <<>> /\ abandoned = {}
    /\ generating = [c \in Generators |-> Rest]

Step(c, call) == generating' = [generating EXCEPT ![c] = call]

(* generate_json up to the writer. *)
Generate(c, input) ==
    LET planned == plan(input.blueprint)
        target == ProjectTarget(input.target)
    IN  /\ generating[c] = Rest
        /\ Step(c, IF planned.ok /\ target.ok
                     THEN [at |-> "planned", target |-> target.value,
                           files |-> planned.value.files, written |-> 0]
                   ELSE Answered(Err("generation_failed")))
        /\ UNCHANGED <<tree, generated, abandoned>>

(* A writer that cleans up after a reservation that failed, too. *)
Reserve_CleansUp(c) ==
    LET call == generating[c]
    IN  /\ call.at = "planned"
        /\ \/ /\ call.target \notin DOMAIN tree
              /\ tree' = (call.target :> {}) @@ tree
              /\ Step(c, [call EXCEPT !.at = "writing"])
           \/ Step(c, [call EXCEPT !.at = "removing"]) /\ UNCHANGED tree
        /\ UNCHANGED <<generated, abandoned>>

(* create_dir reserves the target; it exists, or cannot be created. *)
Reserve(c) ==
    LET call == generating[c]
    IN  /\ call.at = "planned"
        /\ \/ /\ call.target \notin DOMAIN tree
              /\ tree' = (call.target :> {}) @@ tree
              /\ Step(c, [call EXCEPT !.at = "writing"])
           \/ Step(c, Answered(Err("generation_failed"))) /\ UNCHANGED tree
        /\ UNCHANGED <<generated, abandoned>>

(* write_plan, a file at a time: a path is refused, or its parent or the   *)
(* file itself cannot be written, which may leave part of it.              *)
WriteFile(c) ==
    LET call == generating[c]
        file == call.files[call.written + 1]
        Written(contents) ==
          tree' = [tree EXCEPT ![call.target] = @ \cup {GeneratedFile(file.path, contents)}]
    IN  /\ call.at = "writing" /\ call.written < Len(call.files)
        /\ \/ /\ validate_relative_path(file.path)
              /\ Written(file.contents) /\ Step(c, [call EXCEPT !.written = @ + 1])
           \/ Written(<<"partial">>) /\ Step(c, [call EXCEPT !.at = "removing"])
           \/ UNCHANGED tree /\ Step(c, [call EXCEPT !.at = "removing"])
        /\ UNCHANGED <<generated, abandoned>>

Materialized(c) ==
    LET call == generating[c]
    IN  /\ call.at = "writing" /\ call.written = Len(call.files)
        /\ generated' = (call.target :> ToSet(call.files)) @@ generated
        /\ Step(c, Answered(Ok(call.target)))
        /\ UNCHANGED <<tree, abandoned>>

(* remove_dir_all: the files one by one, then the directory. *)
RemoveTree(c) ==
    LET call == generating[c]
        target == call.target
    IN  /\ call.at = "removing"
        /\ IF target \in DOMAIN tree /\ tree[target] # {}
             THEN \E file \in tree[target] :
                    tree' = [tree EXCEPT ![target] = @ \ {file}] /\ UNCHANGED generating
           ELSE /\ tree' = [t \in DOMAIN tree \ {target} |-> tree[t]]
                /\ Step(c, Answered(Err("generation_failed")))
        /\ UNCHANGED <<generated, abandoned>>

(* The result of remove_dir_all is ignored. *)
RemoveFails(c) ==
    LET call == generating[c]
    IN  /\ call.at = "removing"
        /\ abandoned' = abandoned \cup {call.target}
        /\ Step(c, Answered(Err("generation_failed")))
        /\ UNCHANGED <<tree, generated>>

Return(c) ==
    /\ generating[c].at = "answered" /\ Step(c, Rest)
    /\ UNCHANGED <<tree, generated, abandoned>>

(* The process ends and is started again. *)
Crash ==
    /\ \E c \in Generators : generating[c].at \in {"writing", "removing"}
    /\ abandoned' = abandoned \cup {generating[c].target :
         c \in {g \in Generators : generating[g].at \in {"writing", "removing"}}}
    /\ generating' = [c \in Generators |-> Rest]
    /\ UNCHANGED <<tree, generated>>

ScaffoldNext ==
    \/ \E c \in Generators :
         \/ \E input \in GenerateInputs : Generate(c, input)
         \/ Reserve(c) \/ WriteFile(c) \/ Materialized(c) \/ RemoveTree(c) \/ RemoveFails(c)
         \/ Return(c)
    \/ Crash

=============================================================================
