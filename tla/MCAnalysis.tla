------------------------------ MODULE MCAnalysis ------------------------------
(***************************************************************************)
(* Two GitHub workflows, an action with both of its possible files and a   *)
(* second action; the actions may use each other.  The workspace is an     *)
(* action itself, which a workflow uses as `./`.  An Azure pipeline with   *)
(* templates below it, one of which is reached by `../`.                   *)
(***************************************************************************)
EXTENDS AnalysisSession, TLC

Text(shape, items, finding) ==
    [shape |-> shape, items |-> items, lines |-> <<>>, finding |-> finding]
Line(form, word) == [form |-> form, word |-> word]
With(text, lines) == [text EXCEPT !.lines = lines]

Workflow(name) == <<".github", "workflows", name>>
ActionFile(action, file) == <<".github", "actions", action, file>>
MCYamlNames == {"ci.yml", "release.yml", "action.yml", "action.yaml", "azure-pipelines.yml",
                "steps.yml", "deploy.yml", "shared.yml"}
Own == <<"action.yml">>
Pipe(name) == <<"ci", "jobs", name>>
Shared == <<"ci", "shared.yml">>
MCPaths == <<ActionFile("build", "action.yaml"), ActionFile("build", "action.yml"),
             ActionFile("deploy", "action.yml"), Workflow("ci.yml"), Workflow("release.yml"),
             Own, <<"azure-pipelines.yml">>, Pipe("deploy.yml"), Pipe("steps.yml"), Shared>>

UsesBuild == Item("uses", <<".", ".github", "actions", "build">>)
UsesDeploy == Item("uses", <<".", ".github", "actions", "deploy">>)
Remote == [Item("uses", <<"actions", "checkout">>) EXCEPT !.at = "alias"]
UsesOwn == Item("uses", <<".", "">>)
Outer == Item("template", <<"..", "..", "outside.yml">>)

Jobs == <<Line("job", "a"), Line("step", "s"), Line("job", "c"), Line("needs", "a")>>
Titled == <<Line("job", "a"), Line("titled", "b"), Line("titled", "a")>>
Waiting == <<Line("job", "a"), Line("job", "c"), Line("needs", "b")>>
Caller == With(Text("clean", {UsesBuild, Remote}, TRUE), Jobs)
Build == Text("repeated", {UsesDeploy}, FALSE)
Deploy == Text("clean", {UsesBuild}, TRUE)
Pipeline == Text("clean", {Item("template", Pipe("steps.yml")), Item("task", <<"Cache">>)}, FALSE)
Climbing == Item("template", <<"..", "shared.yml">>)
Steps == Text("clean", {Item("template", <<"deploy.yml">>),
                        [Item("template", <<"x.yml">>) EXCEPT !.at = "alias"]}, FALSE)

MCTexts(path) ==
    CASE path = Workflow("ci.yml") ->
             {Caller, With(Text("clean", {UsesOwn}, FALSE), Waiting)}
      [] path = Workflow("release.yml") ->
             {With(Caller, <<Line("mention", "a")>>), With(Text("clean", {}, FALSE), Titled),
              Text("unmarked", {}, FALSE)}
      [] path = ActionFile("build", "action.yml") -> {Text("empty", {}, FALSE), Build}
      [] path = ActionFile("deploy", "action.yml") ->
             {With(Deploy, <<Line("step", "a"), Line("step", "b")>>), Text("region", {}, FALSE)}
      [] path = Pipe("steps.yml") -> {[Steps EXCEPT !.items = @ \cup {Climbing}]}
      [] path = Shared -> {Text("clean", {Outer}, FALSE)}
      [] OTHER -> {Text("clean", {}, FALSE)}

MCOpened ==
    {Empty,
     (Workflow("ci.yml") :> Caller) @@ (ActionFile("build", "action.yml") :> Build)
       @@ (ActionFile("deploy", "action.yml") :> Deploy),
     (<<"azure-pipelines.yml">> :> Pipeline) @@ (Pipe("steps.yml") :> Steps)
       @@ (Pipe("deploy.yml") :> Text("clean", {}, FALSE)) @@ (Shared :> Text("clean", {}, TRUE))}
MCRenames == {<<"a", "b">>}
MCExcluded == {Pipe("deploy.yml")}
=============================================================================
