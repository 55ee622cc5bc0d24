----------------------------- MODULE AzureLowering -----------------------------
(***************************************************************************)
(* lower_azure: a pipeline document to its graph.  Jobs are listed with    *)
(* the stage that holds them, 0 being the pipeline itself.                 *)
(***************************************************************************)
EXTENDS Lowering

AzureTask(profile, class, lock) ==
    LET is(caps, effects) == [profile |-> profile, class |-> class, lock |-> lock,
                              target |-> {},
                              caps |-> caps, effects |-> effects]
    IN  CASE profile = "checkout" -> is({"repository_read", "filesystem_write"}, {"file_write"})
          [] profile = "template" -> is({}, {})
          [] profile = "repository" -> is({"repository_read", "network"}, {})
          [] profile = "publish" -> is({"artifact_write", "network"}, {"artifact_publish"})
          [] profile = "download" -> is({"artifact_read", "network"}, {"file_write"})
          [] profile = "cache" -> is({"cache_read", "cache_write"}, {"cache_publish"})
          [] profile = "cloud" -> is({"cloud_credential", "network", "shell"},
                                     {"credential_use", "network_request", "command_execution"})
          [] OTHER -> is({"shell"}, {"command_execution"})

-----------------------------------------------------------------------------
(* A parameter: the references in its default, if it has one.              *)
AddAzureParameter(g, owner, at, default) ==
    LET value == IF default = <<>> THEN UnknownAbstract("external")
                 ELSE TextValue("azure", default[1])
    IN  AddEdge(AddNode(g, [Simple(at, "parameter", "compile") EXCEPT !.attributes = {value}]),
                "data", at, owner.at)

AddAzureVariable(g, owner, at, names) ==
    AddEdge(AddNode(g, [Simple(at, "resource", owner.phase) EXCEPT
                          !.name = <<"variable">>, !.attributes = {TextValue("azure", names)}]),
            "data", at, owner.at)
AddAzureVariables(g, owner, at, variables) ==
    FoldLeftDomain(LAMBDA h, k : AddAzureVariable(h, owner, at + k, variables[k]), g, variables)

AddRepository(g, workflow, at, call) ==
    LET resource == [Simple(at, "resource", "compile") EXCEPT
                       !.name = <<"repository">>, !.caps = {"repository_read"}]
        read == AddEdge(AddNode(g, resource), "read", at, workflow.at)
    IN  AddCallTo(read, resource, CallNode(at + 1, "compile", call))

(* What the front end cannot lower becomes an opaque node, with a reason.  *)
AddOpaque(g, owner, at, phase) ==
    AddControl(AddNode(g, [Simple(at, "opaque", phase) EXCEPT !.unknown = {"unsupported"}]),
               owner.at, at)

-----------------------------------------------------------------------------
AzurePlace(j) == 1000 * j
AzureStage(s) == 200 + 20 * s

AddAzureAction(g, step, body) ==
    LET at == step.at + 20
    IN  CASE body.kind = "call" ->
               AddCallTo(g, step, CallNode(at, IF body.call.profile = "template"
                                               THEN "compile" ELSE "run", body.call))
          [] body.kind = "script" -> AddCommand(g, "azure", step, at, body.script)
          [] OTHER -> AddOpaque(g, step, at, "run")

AddAzureSteps(g, job, steps) ==
    LET step(s) == Simple(job.at + 100 * s, "step", "run")
        placed == FoldLeftDomain(LAMBDA h, s : AddControl(AddNode(h, step(s)), job.at, step(s).at),
                                 g, steps)
        sequenced == FoldLeftDomain(LAMBDA h, s : IF s = 1 THEN h
                                                  ELSE AddControl(h, step(s - 1).at, step(s).at),
                                    placed, steps)
    IN  FoldLeftDomain(LAMBDA h, s : AddAzureAction(AddGates(h, "azure", step(s), step(s).at + 10,
                                                             steps[s].gate), step(s), steps[s]),
                       sequenced, steps)

AzureJobNode(doc, j) ==
    [JobNode(AzurePlace(j), j) EXCEPT
       !.caps = DeploymentGrant(doc.jobs[j].deployment),
       !.effects = Deploys(doc.jobs[j].deployment)]

AddAzureJob(g, doc, j) ==
    LET body == doc.jobs[j]
        job == AzureJobNode(doc, j)
        gated == AddGates(g, "azure", job, job.at + 10, body.gate)
        bound == AddAzureVariables(gated, job, job.at + 30, body.variables)
        varied == FoldLeftDomain(
            LAMBDA h, k : AddEdge(AddNode(h, Simple(job.at + 50 + k, "parameter", "plan")),
                                  "data", job.at + 50 + k, job.at), bound, body.matrix)
        placed == IF body.environment THEN AddEnvironment(varied, job, job.at + 60) ELSE varied
    IN  AddAzureSteps(placed, job, body.steps)

AzureNeeds(units) == [u \in DOMAIN units |-> units[u].needs]

LowerAzure(doc) ==
    LET workflow == Simple(1, "workflow", "compile")
        root == [AddNode(EmptyGraph, workflow) EXCEPT !.entrypoints = {1}]
        triggered == FoldLeftDomain(
            LAMBDA h, k : AddControl(AddNode(h, Simple(10 + k, "trigger", "source")), 10 + k, 1),
            root, doc.triggers)
        given == FoldLeftDomain(LAMBDA h, k : AddAzureParameter(h, workflow, 20 + k, doc.parameters[k]),
                                triggered, doc.parameters)
        known == FoldLeftDomain(LAMBDA h, k : AddRepository(h, workflow, 40 + 10 * k, doc.repositories[k]),
                                AddAzureVariables(given, workflow, 30, doc.variables),
                                doc.repositories)
        directed == FoldLeftDomain(LAMBDA h, k : AddOpaque(h, workflow, 100 + k, "compile"),
                                   known, doc.directives)
        stage(s) == Simple(AzureStage(s), "stage", "plan")
        staged == FoldLeftDomain(LAMBDA h, s : AddControl(AddNode(h, stage(s)), 1, stage(s).at),
                                 directed, doc.stages)
        ordered == LinkDependencies(staged, DOMAIN doc.stages,
                                    [s \in DOMAIN doc.stages |-> AzureStage(s)], AzureNeeds(doc.stages))
        gated == FoldLeftDomain(LAMBDA h, s : AddGates(h, "azure", stage(s), stage(s).at + 10,
                                                       doc.stages[s].gate), ordered, doc.stages)
        parent(j) == IF doc.jobs[j].stage = 0 THEN 1 ELSE AzureStage(doc.jobs[j].stage)
        placed == FoldLeftDomain(LAMBDA h, j : AddControl(AddNode(h, AzureJobNode(doc, j)),
                                                          parent(j), AzurePlace(j)), gated, doc.jobs)
        linked == LinkDependencies(placed, DOMAIN doc.jobs,
                                   [j \in DOMAIN doc.jobs |-> AzurePlace(j)], AzureNeeds(doc.jobs))
    IN  FoldLeftDomain(LAMBDA h, j : AddAzureJob(h, doc, j), linked, doc.jobs)

AzureProblems(doc) ==
    DependencyProblems(DOMAIN doc.stages, AzureNeeds(doc.stages))
      \cup DependencyProblems(DOMAIN doc.jobs, AzureNeeds(doc.jobs))
=============================================================================
