---------------------------- MODULE GitlabLowering ----------------------------
(***************************************************************************)
(* lower_gitlab: a pipeline document to its graph.  The body of a job or   *)
(* of a template is a function whose domain is the fields that are present. *)
(* A stage is the rank of its name in the alphabet, the order in which the *)
(* code, which keeps the names in a sorted set, chains them.               *)
(***************************************************************************)
EXTENDS Lowering

TestStage == 5
DefaultStages == 1..5     \* .post, .pre, build, deploy, test

(* A field of a body, or else of the last template it extends that has it. *)
EffectiveField(doc, field, body) ==
    LET templates == doc.templates
        lookup[of \in Range(templates) \cup {body}, visited \in SUBSET DOMAIN templates] ==
            IF field \in DOMAIN of THEN <<of[field]>>
            ELSE LET parents == IF "extends" \in DOMAIN of THEN Reverse(of.extends) ELSE <<>>
                     known == SelectSeq(parents, LAMBDA t : t \in DOMAIN templates \ visited)
                     inherited(t) == lookup[templates[t], visited \cup {t}]
                 IN  FoldLeft(LAMBDA found, t : IF found = <<>> THEN inherited(t) ELSE found,
                              <<>>, known)
    IN  lookup[body, {}]

GitlabStages(doc) ==
    IF doc.stages # {} THEN doc.stages
    ELSE DefaultStages \cup UNION {Range(EffectiveField(doc, "stage", doc.jobs[j])) :
                                     j \in DOMAIN doc.jobs}
GitlabNeeds(doc, j) == UNION Range(EffectiveField(doc, "needs", doc.jobs[j]))

-----------------------------------------------------------------------------
GitlabPlace(j) == 1000 * j

AddVariables(g, owner, at, names) ==
    FoldSet(LAMBDA r, h :
              LET variable == [Simple(at + PlaceOf[r], "resource", owner.phase) EXCEPT
                                 !.name = <<"variable", r>>]
              IN  AddEdge(AddNode(h, variable), "data", variable.at, owner.at), g, names)

(* Only the first rule that has a condition becomes a gate.                *)
AddRuleGate(g, doc, owner, at, body) ==
    LET rules == FlattenSeq(EffectiveField(doc, "rules", body))
        conditions == SelectSeq(rules, LAMBDA rule : rule.if # <<>>)
    IN  IF conditions = <<>> THEN g ELSE AddGates(g, "gitlab", owner, at, Head(conditions).if)

ManualGate(at, phase) ==
    [Simple(at, "gate", phase) EXCEPT !.name = <<"manual">>,
                                      !.attributes = {StringConstant("manual", Trusted, Public)}]
AddManualGate(g, doc, job, at, body) ==
    IF EffectiveField(doc, "when", body) = <<"manual">>
    THEN InsertGate(g, job.at, ManualGate(at, job.phase)) ELSE g

AddPlainMatrix(g, job, at) ==
    AddEdge(AddNode(g, Simple(at, "parameter", "plan")), "data", at, job.at)

AddStore(g, job, at, phase, label, caps, effect) ==
    AddEdge(AddNode(g, [Simple(at, "resource", phase) EXCEPT
                          !.name = <<label, job.at>>, !.caps = caps, !.effects = {effect}]),
            "write", job.at, at)

AddGitlabResources(g, doc, job, body) ==
    LET has(field) == EffectiveField(doc, field, body) # <<>>
        bound == FoldLeft(LAMBDA h, names : AddVariables(h, job, job.at + 60, names),
                          g, EffectiveField(doc, "variables", body))
        deployed == IF has("environment") THEN AddEnvironment(bound, job, job.at + 70) ELSE bound
        cached == IF has("cache")
                  THEN AddEdge(AddStore(deployed, job, job.at + 80, "run", "cache",
                                        {"cache_read", "cache_write"}, "cache_publish"),
                               "read", job.at + 80, job.at)
                  ELSE deployed
    IN  IF has("artifacts")
        THEN AddStore(cached, job, job.at + 90, "post", "artifact",
                      {"artifact_write"}, "artifact_publish")
        ELSE cached

(* The three script sections make one sequence of steps.                   *)
AddGitlabScript(g, job, s, script) ==
    LET step == Simple(job.at + 100 * s, "step", "run")
        placed == AddControl(AddNode(g, step), job.at, step.at)
        sequenced == IF s > 1 THEN AddControl(placed, step.at - 100, step.at) ELSE placed
    IN  AddCommand(sequenced, "gitlab", step, step.at + 10, script)

AddGitlabScripts(g, doc, job, body) ==
    LET section(field) == LET own == EffectiveField(doc, field, body)
                          IN  IF own = <<>> /\ field \in DOMAIN doc.default
                              THEN doc.default[field] ELSE FlattenSeq(own)
        scripts == section("before_script") \o section("script") \o section("after_script")
    IN  FoldLeftDomain(LAMBDA h, s : AddGitlabScript(h, job, s, scripts[s]), g, scripts)

GitlabJobNode(doc, j) ==
    LET deploys == EffectiveField(doc, "environment", doc.jobs[j]) # <<>>
    IN  [JobNode(GitlabPlace(j), j) EXCEPT !.caps = DeploymentGrant(deploys),
                                                      !.effects = Deploys(deploys)]

CompileCall(at, unknown) ==
    [Simple(at, "call", "compile") EXCEPT !.name = <<"unknown", "other">>, !.unknown = unknown]

AddGitlabJob(g, doc, j) ==
    LET body == doc.jobs[j]
        job == GitlabJobNode(doc, j)
        ruled == AddRuleGate(g, doc, job, job.at + 10, body)
        gated == AddManualGate(ruled, doc, job, job.at + 20, body)
        extended == IF "extends" \in DOMAIN body
                    THEN FoldLeftDomain(LAMBDA h, k : AddCallTo(h, job, CompileCall(job.at + 30 + k, {})),
                                        gated, body.extends)
                    ELSE gated
        triggered == FoldLeft(LAMBDA h, call : AddCallTo(h, job, CallNode(job.at + 40, "compile", call)),
                              extended, EffectiveField(doc, "trigger", body))
        varied == FoldLeft(LAMBDA h, m : AddPlainMatrix(h, job, job.at + 50), triggered,
                           EffectiveField(doc, "parallel", body))
    IN  AddGitlabScripts(AddGitlabResources(varied, doc, job, body), doc, job, body)

-----------------------------------------------------------------------------
LowerGitlab(doc) ==
    LET workflow == Simple(1, "workflow", "compile")
        root == [AddNode(EmptyGraph, workflow) EXCEPT !.entrypoints = {1}]
        ruled == AddRuleGate(AddVariables(root, workflow, 10, doc.variables), [doc EXCEPT !.templates = <<>>],
                             workflow, 20, doc.workflow)
        templates == FoldSet(LAMBDA t, h : AddNode(h, Simple(40 + t, "resource", "compile")),
                             ruled, DOMAIN doc.templates)
        names == Ascending(GitlabStages(doc))
        stageAt(name) == 100 + 10 * name
        staged == FoldLeftDomain(
            LAMBDA h, k : AddControl(AddNode(h, [Simple(stageAt(names[k]), "stage", "plan") EXCEPT
                                                   !.attributes = {WorkflowText}]),
                                     IF k = 1 THEN 1 ELSE stageAt(names[k - 1]),
                                     stageAt(names[k])), templates, names)
        owner(j) == (EffectiveField(doc, "stage", doc.jobs[j]) \o <<TestStage>>)
        attached(h, j) ==
            LET known == SelectSeq(owner(j), LAMBDA s : s \in GitlabStages(doc))
            IN  IF known = <<>> THEN h ELSE AddControl(h, stageAt(Head(known)), GitlabPlace(j))
        placed == FoldLeftDomain(LAMBDA h, j : attached(AddNode(h, GitlabJobNode(doc, j)), j),
                                 staged, doc.jobs)
        linked == LinkDependencies(placed, DOMAIN doc.jobs,
                                   [o \in DOMAIN doc.jobs |-> GitlabPlace(o)],
                                   [o \in DOMAIN doc.jobs |-> GitlabNeeds(doc, o)])
        lowered == FoldLeftDomain(LAMBDA h, j : AddGitlabJob(h, doc, j), linked, doc.jobs)
    IN  FoldLeftDomain(LAMBDA h, k : AddCallTo(h, workflow, CallNode(50 + k, "compile",
                                                                     doc.dependencies[k])),
                       lowered, doc.dependencies)

(* The front end's complaints; a cycle of needs is none of them.           *)
GitlabProblems(doc) ==
    LET stage(j) == Head(EffectiveField(doc, "stage", doc.jobs[j]) \o <<TestStage>>)
        extends(j) == IF "extends" \in DOMAIN doc.jobs[j] THEN Range(doc.jobs[j].extends) ELSE {}
        jobs == DOMAIN doc.jobs
    IN  (IF \E j \in jobs : stage(j) \notin GitlabStages(doc) THEN {"stage"} ELSE {})
          \cup (IF \E j \in jobs : ~(GitlabNeeds(doc, j) \subseteq jobs) THEN {"needs"} ELSE {})
          \cup (IF \E j \in jobs : ~(extends(j) \subseteq DOMAIN doc.templates)
                THEN {"extends"} ELSE {})
=============================================================================
