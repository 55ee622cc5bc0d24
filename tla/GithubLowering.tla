---------------------------- MODULE GithubLowering ----------------------------
(***************************************************************************)
(* lower_github: a workflow document to its graph.  A document is the      *)
(* fields the code reads; a field that may be absent is a sequence of at   *)
(* most one member.                                                        *)
(***************************************************************************)
EXTENDS Lowering

(* The capabilities that a map of permissions grants.                      *)
ScopeGrants(scope, access) ==
    CASE access = "none" -> {}
      [] scope = "id-token" /\ access = "write" -> {"oidc"}
      [] scope = "models" -> {"ai_tool", "network"}
      [] scope = "attestations" -> {IF access = "write" THEN "artifact_write" ELSE "artifact_read"}
      [] scope = "deployments" /\ access = "write" -> {"deployment", "token_write"}
      [] access = "write" -> {"repository_write", "token_write"}
      [] OTHER -> {"repository_read", "token_read"}
GithubPermissions(permissions) == UNION {ScopeGrants(p[1], p[2]) : p \in permissions}

(* What an action is known, by its name, to need and to do.                *)
GithubCall(profile, class, lock) ==
    LET is(caps, effects) == [profile |-> profile, class |-> class, lock |-> lock,
                              target |-> {},
                              caps |-> caps, effects |-> effects]
    IN  CASE profile = "local" -> is({}, {})
          [] profile = "checkout" -> is({"repository_read", "filesystem_write"}, {"file_write"})
          [] profile = "attest" -> is({"oidc", "artifact_write", "filesystem_read",
                                       "filesystem_write", "network"},
                                      {"credential_use", "artifact_publish", "file_write",
                                       "network_request"})
          [] profile = "upload" -> is({"artifact_write", "filesystem_read", "network"},
                                      {"artifact_publish", "network_request"})
          [] profile = "download" -> is({"artifact_read", "filesystem_write", "network"},
                                        {"file_write", "network_request"})
          [] profile = "cache" -> is({"cache_read", "cache_write", "filesystem_read",
                                      "filesystem_write"}, {"cache_publish"})
          [] profile = "login" -> is({"network", "secret_access"}, {"credential_use"})
          [] profile = "agent" -> is({"ai_tool", "network", "secret_access", "repository_write"},
                                     {"ai_agent_execution", "network_request", "workflow_change"})
          [] OTHER -> is({"network"}, {})

-----------------------------------------------------------------------------
JobPlace(j) == 1000 * j
StepPlace(j, s) == JobPlace(j) + 100 * s

GithubJobNode(doc, j) ==
    LET job == doc.jobs[j]
        granted == IF job.permissions = <<>> THEN doc.permissions ELSE job.permissions[1]
    IN  [JobNode(JobPlace(j), j) EXCEPT
           !.caps = GithubPermissions(granted) \cup DeploymentGrant(job.environment)
                      \cup (IF job.selfHosted THEN {"self_hosted_persistence"} ELSE {}),
           !.effects = Deploys(job.environment)]

AddMatrix(g, job, at, dynamic) ==
    LET value == IF dynamic THEN UnknownAbstract("dynamic") ELSE WorkflowText
    IN  AddEdge(AddNode(g, [Simple(at, "parameter", "plan") EXCEPT !.attributes = {value}]),
                "data", at, job.at)

AddOutput(g, job, at, names) ==
    LET output == [Simple(at, "resource", "post") EXCEPT !.name = <<"job output", at>>]
    IN  AddReferences(AddEdge(AddNode(g, output), "write", job.at, at),
                      "github", output, names, At(names, "post"))

AddJobResources(g, job, body) ==
    LET withEnvironment == IF body.environment THEN AddEnvironment(g, job, job.at + 30) ELSE g
    IN  FoldLeftDomain(LAMBDA h, k : AddOutput(h, job, job.at + 30 + 10 * k, body.outputs[k]),
                       withEnvironment, body.outputs)

(* A binding of the environment of a run step: the variable's node takes   *)
(* the references in its value and feeds the command.                      *)
AddBinding(g, target, at, binding) ==
    LET node == [Simple(at, "resource", target.phase) EXCEPT
                   !.name = <<"env", binding.name>>, !.attributes = {WorkflowText}]
    IN  AddReferences(AddEdge(AddNode(g, node), "data", at, target.at),
                      "github", node, binding.names,
                      At(binding.names, target.phase))

AddStepCall(g, step, call) ==
    LET node == CallNode(step.at + 70, "run", call.of)
    IN  AddReferences(AddCallTo(g, step, node), "github", node, call.names,
                      At(call.names, "run"))

AddRun(g, step, script, env) ==
    LET at == step.at + 80
        withCommand == AddCommand(g, "github", step, at, script)
        command == Simple(at, "command", "run")
    IN  FoldLeftDomain(LAMBDA h, k : AddBinding(h, command, step.at + 20 + 10 * k, env[k]),
                       withCommand, env)

AddGithubStep(g, job, j, s, body) ==
    LET step == Simple(StepPlace(j, s), "step", "run")
        placed == AddControl(AddNode(g, step), job.at, step.at)
        sequenced == IF s > 1 THEN AddControl(placed, StepPlace(j, s - 1), step.at) ELSE placed
        gated == AddGates(sequenced, "github", step, step.at + 10, body.gate)
        called == FoldLeft(LAMBDA h, c : AddStepCall(h, step, c), gated, body.call)
    IN  FoldLeft(LAMBDA h, script : AddRun(h, step, script, body.env), called, body.run)

AddGithubJob(g, doc, j) ==
    LET body == doc.jobs[j]
        job == GithubJobNode(doc, j)
        gated == AddGates(g, "github", job, job.at + 10, body.gate)
        varied == FoldLeft(LAMBDA h, m : AddMatrix(h, job, job.at + 20, m), gated, body.matrix)
        called == FoldLeft(LAMBDA h, c : AddCallTo(h, job, CallNode(job.at + 60, "plan", c)),
                           AddJobResources(varied, job, body), body.call)
    IN  FoldLeftDomain(LAMBDA h, s : AddGithubStep(h, job, j, s, body.steps[s]),
                       called, body.steps)

LowerGithub(doc) ==
    LET owners == DOMAIN doc.jobs
        workflow == [Simple(1, "workflow", "compile") EXCEPT
                       !.caps = GithubPermissions(doc.permissions)]
        trigger == Simple(11, "trigger", "source")
        root == [AddControl(AddNode(AddNode(EmptyGraph, workflow), trigger), 11, 1) EXCEPT
                   !.entrypoints = {1}]
        placed == FoldLeftDomain(LAMBDA g, j : AddControl(AddNode(g, GithubJobNode(doc, j)),
                                                          1, JobPlace(j)), root, doc.jobs)
        linked == LinkDependencies(placed, owners, [o \in owners |-> JobPlace(o)],
                                   [o \in owners |-> doc.jobs[o].needs])
    IN  FoldLeftDomain(LAMBDA g, j : AddGithubJob(g, doc, j), linked, doc.jobs)

GithubProblems(doc) ==
    DependencyProblems(DOMAIN doc.jobs, [o \in DOMAIN doc.jobs |-> doc.jobs[o].needs])
=============================================================================
