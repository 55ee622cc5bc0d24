--------------------------- MODULE CircleciLowering ---------------------------
(***************************************************************************)
(* lower_circleci: a configuration to its graph.  Commands and jobs are    *)
(* units with parameters and steps; a workflow is a sequence of            *)
(* invocations.                                                            *)
(***************************************************************************)
EXTENDS Lowering

BuiltinProfile(name) ==
    LET is(caps, effects, edge) == [caps |-> caps, effects |-> effects, edge |-> edge]
    IN  CASE name = "checkout" -> is({"repository_read", "filesystem_write"}, {"file_write"}, "read")
          [] name = "save_cache" -> is({"cache_write", "filesystem_read"}, {"cache_publish"}, "write")
          [] name = "restore_cache" -> is({"cache_read", "filesystem_write"}, {"file_write"}, "read")
          [] name = "store_artifacts" ->
                 is({"artifact_write", "filesystem_read"}, {"artifact_publish"}, "write")
          [] name = "persist_to_workspace" ->
                 is({"artifact_write", "filesystem_read"}, {"artifact_publish"}, "persist")
          [] name = "attach_workspace" ->
                 is({"artifact_read", "filesystem_write"}, {"file_write"}, "read")
          [] OTHER -> is({}, {}, "call")

-----------------------------------------------------------------------------
(* A declared parameter: whether it has a default, and whose it is.        *)
AddParameters(g, owner, at, parameters, pipeline) ==
    LET value(p) == IF ~p.default THEN UnknownAbstract("external")
                    ELSE StringConstant("text", IF pipeline THEN Untrusted ELSE Trusted, Public)
        add(h, k) == AddEdge(AddNode(h, [Simple(at + k, "parameter", "compile") EXCEPT
                                           !.name = <<parameters[k].name>>,
                                           !.attributes = {value(parameters[k])}]),
                             "data", at + k, owner.at)
    IN  FoldLeftDomain(add, g, parameters)

(* The places of the declared parameters that have a name.                 *)
BoundAt(unit, name) == {unit.at + 10 + k : k \in {i \in DOMAIN unit.parameters :
                                                     unit.parameters[i].name = name}}

(* An argument feeds the parameter it is for; any other is dropped.        *)
BindArguments(g, unit, at, arguments) ==
    LET argument(k) == [Simple(at + k, "parameter", "compile") EXCEPT
                          !.attributes = {TextValue("circleci", arguments[k].names)}]
        bind(h, k) == FoldSet(LAMBDA p, i : AddEdge(AddNode(i, argument(k)), "data", at + k, p),
                              h, BoundAt(unit, arguments[k].name))
    IN  FoldLeftDomain(bind, g, arguments)

AddCircleciRun(g, unit, step, script) ==
    LET local == ScriptReferences(script) \cap {"param"}
        undeclared == {r \in local : BoundAt(unit, r) = {}}
        plain == CommandNode("circleci", step.at + 10, script)
        command == [plain EXCEPT !.attributes =
                      IF undeclared = {} THEN @
                      ELSE {JoinAssign(v, UnknownAbstract("external")) : v \in @}]
    IN  FoldSet(LAMBDA p, h : AddEdge(h, "data", p, command.at),
                PlaceCommand(g, "circleci", step, command),
                UNION {BoundAt(unit, r) : r \in local})

CircleciCall(at, class, name, profile, unknown) ==
    [Simple(at, "call", "run") EXCEPT !.name = <<class, name>>, !.unknown = unknown,
                                      !.caps = profile.caps, !.effects = profile.effects]

(* The call of a step that is a built-in or the command of an orb, and the *)
(* edge from the latter to the orb.                                        *)
OrbsOf(doc, body) == {k \in DOMAIN doc.dependencies : k = body.orb}
ProvidedCall(doc, at, body) ==
    IF OrbsOf(doc, body) = {} THEN CircleciCall(at, "builtin", body.name, BuiltinProfile(body.name), {})
    ELSE ApplyLock(CircleciCall(at, "unknown", body.name, BuiltinProfile(body.name), {"unresolved"}),
                   doc.dependencies[body.orb].lock)
LinkOrb(g, doc, at, body) ==
    FoldSet(LAMBDA k, h : AddEdge(h, "call", at, 40 + 10 * k), g, OrbsOf(doc, body))

(* A step written as a word, whose edge has a kind of its own.             *)
AddBuiltin(g, doc, step, body) ==
    LET at == step.at + 10
        placed == AddEdge(AddNode(g, ProvidedCall(doc, at, body)),
                          BuiltinProfile(body.name).edge, step.at, at)
    IN  LinkOrb(AddControl(placed, step.at, at), doc, at, body)

(* A step written as a mapping: a command of the configuration, which the  *)
(* call is linked to by a call edge and whose parameters its arguments     *)
(* feed, or else what a word may name too.                                 *)
AddInvokedCommand(g, doc, commands, step, body) ==
    LET defined == {k \in DOMAIN commands : k = body.command}
        at == step.at + 10
        call == IF defined = {} THEN ProvidedCall(doc, at, body)
                ELSE CircleciCall(at, "unknown", "command", BuiltinProfile(body.name), {})
        placed == AddCallTo(g, step, call)
        linked == IF defined = {} THEN LinkOrb(placed, doc, at, body)
                  ELSE FoldSet(LAMBDA k, h : BindArguments(AddEdge(h, "call", at, commands[k].at),
                                                           commands[k], at + 10, body.arguments),
                               placed, defined)
        names == UNION {body.arguments[k].names : k \in DOMAIN body.arguments}
    IN  AddReferences(linked, "circleci", call, names, At(names, "compile"))

AddCircleciSteps(g, doc, commands, unit, steps) ==
    LET step(s) == Simple(unit.at + 100 * s, "step", "run")
        placed == FoldLeftDomain(LAMBDA h, s : AddControl(AddNode(h, step(s)), unit.at, step(s).at),
                                 g, steps)
        sequenced == FoldLeftDomain(LAMBDA h, s : IF s = 1 THEN h
                                                  ELSE AddControl(h, step(s - 1).at, step(s).at),
                                    placed, steps)
        act(h, s) ==
            LET body == steps[s]
            IN  CASE body.kind = "run" -> AddCircleciRun(h, unit, step(s), body.script)
                  [] body.kind = "word" -> AddBuiltin(h, doc, step(s), body)
                  [] OTHER -> AddInvokedCommand(h, doc, commands, step(s), body)
    IN  FoldLeftDomain(act, sequenced, steps)

-----------------------------------------------------------------------------
(* Where a unit stands, with its parameters: a job of the configuration or *)
(* one of its commands.                                                    *)
Unit(at, body) == [at |-> at, parameters |-> body.parameters]
JobUnits(doc) == [j \in DOMAIN doc.jobs |-> Unit(10000 + 1000 * j, doc.jobs[j])]
CommandUnits(doc) == [k \in DOMAIN doc.commands |-> Unit(1000 * k, doc.commands[k])]

AddUnit(g, doc, unit, node, body) ==
    AddCircleciSteps(AddParameters(AddNode(g, node), node, unit.at + 10, body.parameters, FALSE),
                     doc, CommandUnits(doc), unit, body.steps)

AddDefinition(g, doc, k) ==
    LET unit == CommandUnits(doc)[k]
    IN  AddUnit(AddControl(g, 1, unit.at), doc, unit, Simple(unit.at, "resource", "compile"),
                doc.commands[k])

ExecutorAt(k) == 30 + k
AddCircleciJob(g, doc, j) ==
    LET unit == JobUnits(doc)[j]
        named == doc.jobs[j].executor \cap DOMAIN doc.executors
    IN  FoldSet(LAMBDA k, h : AddEdge(h, "read", ExecutorAt(k), unit.at),
                AddUnit(g, doc, unit, JobNode(unit.at, j), doc.jobs[j]), named)

(* What an invocation runs: a gate for an approval, the job it names, or,  *)
(* for a name no job has, an opaque node.  A job is one node however often *)
(* it is invoked.                                                          *)
TargetNode(doc, at, invocation) ==
    IF invocation.approval
    THEN [Simple(at, "gate", "plan") EXCEPT !.name = <<"approval">>,
                                            !.guard = AtomCondition("approval")]
    ELSE IF invocation.job \in DOMAIN doc.jobs
    THEN JobNode(JobUnits(doc)[invocation.job].at, invocation.job)
    ELSE [Simple(at, "opaque", "plan") EXCEPT !.unknown = {"unresolved"}]

AddInvocation(g, doc, workflow, at, invocation) ==
    LET target == TargetNode(doc, at, invocation)
        known == \E n \in g.nodes : n.at = target.at
        placed == AddControl(IF known THEN g ELSE AddNode(g, target), workflow.at, target.at)
        varied == FoldLeftDomain(
            LAMBDA h, k : AddEdge(AddNode(h, Simple(at + 10 + k, "parameter", "plan")),
                                  "data", at + 10 + k, target.at), placed, invocation.matrix)
    IN  IF target.kind = "job"
        THEN BindArguments(varied, JobUnits(doc)[invocation.job], at + 20, invocation.arguments)
        ELSE varied

(* A requirement is an alias; the first invocation that has it is meant.   *)
Meant(invocations, alias) ==
    LET having == {i \in DOMAIN invocations : alias \in invocations[i].aliases}
    IN  {i \in having : \A k \in having : i <= k}

AddWorkflow(g, doc, w) ==
    LET body == doc.workflows[w]
        workflow == Simple(100000 * w, "workflow", "plan")
        at(i) == workflow.at + 100 * i
        target(i) == TargetNode(doc, at(i), body.invocations[i])
        placed == AddGates(AddControl(AddNode(g, workflow), 1, workflow.at), "circleci",
                           workflow, workflow.at + 10, body.gate)
        invoked == FoldLeftDomain(
            LAMBDA h, i : AddInvocation(h, doc, workflow, at(i), body.invocations[i]),
            placed, body.invocations)
        links == {l \in (DOMAIN body.invocations) \X (DOMAIN body.invocations) :
                    \E alias \in body.invocations[l[2]].requires :
                        l[1] \in Meant(body.invocations, alias)}
        linked == FoldSet(LAMBDA l, h : AddControl(h, target(l[1]).at, target(l[2]).at),
                          invoked, links)
    IN  FoldLeftDomain(LAMBDA h, k :
                         LET i == Len(body.invocations) + 1 - k
                         IN  AddGates(h, "circleci", target(i), at(i) + 40,
                                      body.invocations[i].filters),
                       linked, body.invocations)

LowerCircleci(doc) ==
    LET config == Simple(1, "workflow", "compile")
        root == [AddNode(EmptyGraph, config) EXCEPT !.entrypoints = {1}]
        depending == FoldLeftDomain(
            LAMBDA g, k : AddCallTo(g, config, CallNode(40 + 10 * k, "compile", doc.dependencies[k])),
            root, doc.dependencies)
        setup == IF doc.setup
                 THEN AddControl(AddNode(depending, [Simple(11, "effect", "compile") EXCEPT
                                                       !.effects = {"workflow_change"}]), 1, 11)
                 ELSE depending
        given == AddParameters(setup, config, 20, doc.parameters, TRUE)
        equipped == FoldLeftDomain(
            LAMBDA g, k : AddControl(AddNode(g, [Simple(ExecutorAt(k), "resource", "compile") EXCEPT
                                                   !.caps = {"filesystem_read", "filesystem_write"}]),
                                     1, ExecutorAt(k)), given, doc.executors)
        defined == FoldLeftDomain(LAMBDA g, k : AddDefinition(g, doc, k), equipped, doc.commands)
        employed == FoldLeftDomain(LAMBDA g, j : AddCircleciJob(g, doc, j), defined, doc.jobs)
    IN  FoldLeftDomain(LAMBDA g, w : AddWorkflow(g, doc, w), employed, doc.workflows)

CircleciProblems(doc) ==
    UNION {LET invocations == doc.workflows[w].invocations
               aliases == UNION {i.aliases : i \in Range(invocations)}
               wants == [a \in aliases |-> UNION {invocations[i].requires :
                                                    i \in Meant(invocations, a)}]
           IN  DependencyProblems(aliases, wants)
                 \cup (IF \E i \in Range(invocations) :
                              ~i.approval /\ i.job \notin DOMAIN doc.jobs
                       THEN {"job"} ELSE {}) : w \in DOMAIN doc.workflows}
=============================================================================
