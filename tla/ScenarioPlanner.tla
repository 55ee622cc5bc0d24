---------------------------- MODULE ScenarioPlanner ----------------------------
(***************************************************************************)
(* From a scenario to a plan for the sandbox (sandbox/planner.rs,          *)
(* sandbox/runner_plan.rs, build_sandbox_plan in application/mod.rs): a    *)
(* job of the composed graph is selected with the jobs it needs, what the  *)
(* scenario lets run is found by a work list over the graph, put in order  *)
(* and made into steps, and everything that stands in the way of running   *)
(* them is a reason for the plan to be incomplete.                         *)
(***************************************************************************)
EXTENDS Frontends, RunnerProtocol

CONSTANT Scenarios   \* records: see MCPlanner

(* A program is a finite graph.  Of a request the backend is one of the    *)
(* known, and the configuration takes no exclusion that is empty           *)
(* (parse_exclusions).                                                     *)
Plannable(g) ==
    /\ NodesOf(g) \subseteq Int /\ IsFiniteSet(NodesOf(g)) /\ IsFiniteSet(g.edges)
    /\ \A e \in g.edges : {e.from, e.to} \subseteq NodesOf(g)
ASSUME ScenarioAssumption ==
    \A s \in Scenarios :
        /\ Plannable(GraphOf(s.program))
        /\ s.backend \in DOMAIN SystemOf
        /\ {s.capsule, s.network, s.destinations, s.helper, s.boot, s.installed,
             s.host.available} \subseteq BOOLEAN
        /\ s.exclusions \in Seq(Range(s.exclusions)) /\ Blank \notin Range(s.exclusions)

VARIABLES
    scenario,   \* the request that is planned
    graph,      \* the composed program
    stage,      \* "select", "walk", "order", "launch" or "done"
    closure,    \* the selected job and the jobs it needs
    queue,      \* the work list: a node, whether local jobs are let in, a truth
    truths,     \* what the walk has found, by node and permission
    order,      \* the nodes emitted so far
    plan,       \* empty, or the one plan or refusal
    launch      \* empty, or what came of running the plan

plannerVars == <<scenario, graph, stage, closure, queue, truths, order, plan, launch>>

(* The truth values, from the least.                                       *)
False == 0
Unsure == 1
True == 2
And(a, b) == IF a < b THEN a ELSE b
Or(a, b) == IF a > b THEN a ELSE b

(* Conditions are evaluated on what the scenario settles, the event: they  *)
(* are true when every way of settling the rest makes them so.             *)
Possible == {v \in Valuations : ("pushed" \in v) <=> (scenario.event = "push")}
Evaluate(guard) == IF Possible \subseteq guard THEN True
                   ELSE IF Possible \cap guard = {} THEN False ELSE Unsure

OfJob(name) == {n \in NodesOf(graph) : /\ graph.node[n].kind = "job"
                                       /\ graph.node[n].name = <<"job", name>>}
IsControl(e) == e.kind = "control"
FlowKinds == {"control", "call"}

-----------------------------------------------------------------------------
(* The program is one graph, whose path is that of its first source.       *)
Refusals ==
    CASE ~(scenario.granted \subseteq scenario.secrets) -> {"grant"}
      [] scenario.entry # 1 -> {"entrypoint"}
      [] OfJob(scenario.job) = {} -> {"no job"}
      [] Cardinality(OfJob(scenario.job)) > 1 -> {"ambiguous"}
      [] OTHER -> {"disappeared" : n \in {m \in OfJob(scenario.job) :
                                            SourceOf(graph.node[m].at) # 1}}

JobClosure(jobs) ==
    LET closed[seen \in SUBSET Int] ==
            LET needed == {e.from : e \in {x \in graph.edges : IsControl(x) /\ x.to \in seen}}
                more == {n \in needed : graph.node[n].kind = "job"}
            IN  IF more \subseteq seen THEN seen ELSE closed[seen \cup more]
    IN  closed[jobs]

(* A slip a maintainer could make: the walk starts behind the gates.       *)
Starts_Behind(jobs) == [i \in 1..Cardinality(jobs) |-> <<Ascending(jobs)[i], FALSE, True>>]
(* The walk starts from the gates right before each job, or from the job.  *)
Starts(jobs) ==
    LET gates(j) == {e.from : e \in {x \in graph.edges : /\ IsControl(x) /\ x.to = j
                                                         /\ x.label = "gate"
                                                         /\ graph.node[x.from].kind = "gate"}}
        start(j) == Ascending(IF gates(j) = {} THEN {j} ELSE gates(j))
        starts == FlattenSeq([i \in 1..Cardinality(jobs) |-> start(Ascending(jobs)[i])])
    IN  [i \in DOMAIN starts |-> <<starts[i], FALSE, True>>]

PlannerInit ==
    /\ scenario \in Scenarios
    /\ graph = GraphOf(scenario.program)
    /\ stage = "select"
    /\ closure = {} /\ queue = <<>> /\ truths = <<>> /\ order = <<>> /\ plan = <<>> /\ launch = <<>>

Refuse ==
    /\ stage = "select" /\ Refusals # {}
    /\ plan' = <<[refused |-> Refusals]>>
    /\ stage' = "done"
    /\ UNCHANGED <<scenario, graph, closure, queue, truths, order, launch>>

Select ==
    /\ stage = "select" /\ Refusals = {}
    /\ closure' = JobClosure(OfJob(scenario.job))
    /\ queue' = Starts(closure')
    /\ stage' = "walk"
    /\ UNCHANGED <<scenario, graph, truths, order, plan, launch>>

-----------------------------------------------------------------------------
(* A job that is not in the closure is entered only below a local call.    *)
Enters(target, local) ==
    graph.node[target].kind = "job" /\ target \notin closure => local
Targets(n, kind, label) ==
    {e.to : e \in {x \in graph.edges : /\ x.from = n /\ x.kind = kind
                                       /\ (x.label = "local-unit") = label}}
Pushed(n, local, truth) ==
    LET along(kind, label) ==
            LET entered == Ascending({t \in Targets(n, kind, label) : Enters(t, local \/ label)})
            IN  [i \in DOMAIN entered |-> <<entered[i], local \/ label, truth>>]
    IN  along("control", FALSE) \o along("control", TRUE)
          \o along("call", FALSE) \o along("call", TRUE)

(* A slip a maintainer could make: what was found first is kept.           *)
Merged_First(key, truth) == IF key \in DOMAIN truths THEN truths[key] ELSE truth
Merged(key, truth) == IF key \in DOMAIN truths THEN Or(truths[key], truth) ELSE truth

(* An edge out of a gate holds when the gate does and any other holds, so  *)
(* what an edge adds is in the truth of the node it leaves.                *)
VisitNode ==
    /\ stage = "walk" /\ queue # <<>>
    /\ LET n == Head(queue)[1]
           local == Head(queue)[2]
           truth == Merged(<<n, local>>, And(Head(queue)[3], Evaluate(graph.node[n].guard)))
           known == <<n, local>> \in DOMAIN truths /\ truths[<<n, local>>] = truth
       IN  /\ truths' = [key \in (DOMAIN truths) \cup {<<n, local>>} |->
                            IF key = <<n, local>> THEN truth ELSE truths[key]]
           /\ queue' = IF known \/ truth = False THEN Tail(queue)
                       ELSE Tail(queue) \o Pushed(n, local, truth)
    /\ UNCHANGED <<scenario, graph, stage, closure, order, plan, launch>>

EndWalk ==
    /\ stage = "walk" /\ queue = <<>>
    /\ stage' = "order"
    /\ UNCHANGED <<scenario, graph, closure, queue, truths, order, plan, launch>>

-----------------------------------------------------------------------------
Found(n) == {truths[key] : key \in {k \in DOMAIN truths : k[1] = n}}
Truth(n) == Max(Found(n) \cup {False})
Selected == {n \in NodesOf(graph) : Truth(n) # False}

(* A slip a maintainer could make: a node waits for all before it, whether *)
(* they are selected or not.                                               *)
Ready_WaitsForAll(remaining) ==
    {n \in remaining : \A e \in graph.edges : e.kind \in FlowKinds /\ e.to = n => e.from \in Range(order)}
Ready(remaining) ==
    {n \in remaining :
       \A e \in graph.edges : e.kind \in FlowKinds /\ e.to = n /\ e.from \in Selected
                                => e.from \in Range(order)}

(* A slip a maintainer could make: no way out of a cycle.                  *)
Batch_Stuck(remaining) == Ascending(Ready(remaining))
(* Nodes that all wait for one another are emitted together.               *)
Batch(remaining) == Ascending(IF Ready(remaining) = {} THEN remaining ELSE Ready(remaining))

Emit ==
    /\ stage = "order" /\ Range(order) # Selected
    /\ order' = order \o Batch(Selected \ Range(order))
    /\ UNCHANGED <<scenario, graph, stage, closure, queue, truths, plan, launch>>

-----------------------------------------------------------------------------
Commands == {n \in NodesOf(graph) : graph.node[n].kind = "command"}
ScriptOf(n) == graph.node[n].script[1]

(* Inputs, matrix values and variables are put in the place of their       *)
(* expressions, and a secret's by a reference to the environment; what the *)
(* scenario has no value for is left as it stands.                         *)
Concrete(n) == ScriptOf(n).substituted \subseteq scenario.bound \cup scenario.secrets
Supported(n) == ScriptOf(n).shell = "posix" /\ Concrete(n)

Unsupported(n) ==
    LET node == graph.node[n]
    IN  \/ node.kind = "call" /\ node.unknown # {}
        \/ node.kind = "opaque" /\ node.phase = "run"
        \/ node.kind = "resource" /\ node.name # <<>>
             /\ Head(node.name) \in {"service", "cache", "artifact", "deployment"}

PlannerReasons ==
    {<<"unsupported", n>> : n \in {m \in Selected : Unsupported(m)}}
      \cup {<<"unknown expression", n>> : n \in {m \in Commands : Truth(m) = Unsure}}

Sure == {n \in Commands : Truth(n) = True}
Among(emitted, nodes) == SelectSeq(emitted, LAMBDA n : n \in nodes)
PlannedSteps == Among(order, Sure)

(* Every call of the program, planned or not, has to be resolved by the    *)
(* lock or by a file of the program, except CircleCI's built-in steps.     *)
Dependencies == {n \in NodesOf(graph) : /\ graph.node[n].kind = "call"
                                        /\ graph.node[n].name[1] # "builtin"}
Resolved(n) == graph.node[n].attributes # {} \/ graph.node[n].target # {}

Image == IF scenario.capsule THEN "image" ELSE Unresolved
Workloads == IF Range(PlannedSteps) = {} THEN Unresolved ELSE Image

(* The command line gives the plan no digest of a helper or of a boot      *)
(* image, which only the OCI back end does without; a caller of the        *)
(* library may.                                                            *)
BuildReasons ==
    {<<"dependency", n>> : n \in {m \in Dependencies : ~Resolved(m)}}
      \cup {<<"step", n>> : n \in {m \in Range(PlannedSteps) : ~Supported(m)}}
      \cup {<<"capsule", n>> : n \in {m \in Range(PlannedSteps) : ~scenario.capsule}}
      \cup (IF Workloads = Unresolved THEN {<<"workload">>} ELSE {})
      \cup (IF scenario.backend # "oci" /\ ~scenario.helper THEN {<<"helper">>} ELSE {})
      \cup (IF scenario.backend = "macos" /\ ~scenario.boot THEN {<<"boot">>} ELSE {})
      \cup {<<"secret", s>> : s \in scenario.secrets \ scenario.granted}
AllReasons == PlannerReasons \cup BuildReasons

(* A request that contradicts itself is refused, not incomplete.           *)
Contradictions ==
    (IF SystemOf[scenario.backend] # scenario.os THEN {"platform"} ELSE {})
      \cup (IF scenario.network # scenario.destinations THEN {"network"} ELSE {})

Wire ==
    [backend |-> scenario.backend, engine |-> scenario.engine, platform |-> scenario.os,
     kind |-> RuntimeKind[scenario.backend], jobs |-> {graph.node[j].name[2] : j \in closure},
     controls |-> Controls(scenario.backend, scenario.network),
     mode |-> IF scenario.network THEN "allowlist" ELSE "deny",
     destinations |-> scenario.destinations, secrets |-> scenario.secrets,
     workload |-> Workloads, rootfs |-> Rootfs(scenario.backend, Workloads),
     helper |-> scenario.helper, boot |-> IF scenario.boot THEN {"boot"} ELSE {},
     dependencies |-> {Resolved(n) : n \in Dependencies},
     steps |-> {[supported |-> Supported(n), image |-> Image] : n \in Range(PlannedSteps)},
     complete |-> AllReasons = {}]

Build ==
    /\ stage = "order" /\ Range(order) = Selected
    /\ LET refused == IF Contradictions # {} THEN Contradictions
                      ELSE IF Validated(Wire) THEN {} ELSE {"wire"}
       IN  /\ plan' = <<IF refused # {} THEN [refused |-> refused]
                        ELSE [refused |-> {}, steps |-> PlannedSteps, wire |-> Wire, reasons |-> AllReasons]>>
           /\ stage' = IF refused = {} THEN "launch" ELSE "done"
    /\ UNCHANGED <<scenario, graph, closure, queue, truths, order, launch>>

(* `sandbox run`: an incomplete plan is not handed to a helper, and a      *)
(* helper that does not start the steps is an infrastructure failure.      *)
RunPlan ==
    /\ stage = "launch"
    /\ LET wire == plan[1].wire
           arguments == Arguments(wire, scenario.exclusions)
           refused == IF ~wire.complete THEN {"incomplete"}
                      ELSE IF ~scenario.installed THEN {"infrastructure"}
                      ELSE Refused(wire, arguments, scenario.host)
       IN  launch' = <<IF refused # {} THEN [refused |-> refused]
                       ELSE [refused |-> {}, steps |-> plan[1].steps, network |-> StepNetwork(wire),
                             excluded |-> Exclusions(arguments),
                             environment |-> HelperEnvironment(wire, scenario.environment)]>>
    /\ stage' = "done"
    /\ UNCHANGED <<scenario, graph, closure, queue, truths, order, plan>>

PlannerNext == Refuse \/ Select \/ VisitNode \/ EndWalk \/ Emit \/ Build \/ RunPlan
PlannerSpec == PlannerInit /\ [][PlannerNext]_plannerVars /\ WF_plannerVars(PlannerNext)

-----------------------------------------------------------------------------
(* What the walk finds, said without a work list: a node has a truth at    *)
(* least k exactly when some walk from a start, let in by the same rule,   *)
(* passes only nodes whose condition has.                                  *)
Onto(s, e) == <<e.to, s[2] \/ e.label = "local-unit">>
WalkedAt(k, starts) ==
    LET walked[seen \in SUBSET (Int \X BOOLEAN)] ==
            LET next == {Onto(p[1], p[2]) : p \in
                           {p \in seen \X graph.edges : p[2].kind \in FlowKinds /\ p[2].from = p[1][1]}}
                open == {s \in next : Enters(s[1], s[2]) /\ Evaluate(graph.node[s[1]].guard) >= k}
            IN  IF open \subseteq seen THEN seen ELSE walked[seen \cup open]
    IN  walked[starts]
Reached(k) ==
    WalkedAt(k, {<<start[1], FALSE>> : start \in
                   {s \in Range(Starts(closure)) : Evaluate(graph.node[s[1]].guard) >= k}})

(* Whatever order the work list takes, whatever cycles the program has, a  *)
(* node is found true when and only when some chain of true conditions     *)
(* leads to it from a selected job, and in doubt when only doubt does: no  *)
(* later visit takes back or overstates what a command is planned for.     *)
TruthIsBestWalk ==
    stage = "order" =>
        \A n \in NodesOf(graph), k \in {Unsure, True} :
            Truth(n) >= k <=> \E s \in Reached(k) : s[1] = n

(* The nodes are emitted once each, and where they do not wait for one     *)
(* another each after all it waits for.  And a level is emitted whole: what *)
(* waits for one node only comes before whatever is two edges behind that  *)
(* node.  So the command of a step comes before that of the next step,     *)
(* though no edge leads from the one to the other.  Of the commands of two *)
(* jobs nothing follows: what a job needs leads to the job itself, and its *)
(* first command may come before the last one of a job it needs.           *)
Cyclic == \E n \in Selected : \E e \in graph.edges :
              /\ e.kind \in FlowKinds /\ e.from = n /\ e.to \in Selected
              /\ n \in Spread(graph, FlowKinds, NodesOf(graph) \ Selected, {e.to})
Flows == {e \in graph.edges : e.kind \in FlowKinds /\ {e.from, e.to} \subseteq Selected}
WaitsOnlyFor(n, m) == \A e \in Flows : e.to = n => e.from = m
Before(a, b) == \E i, j \in DOMAIN order : order[i] = a /\ order[j] = b /\ i < j
OrderFollowsEdges ==
    stage = "order" /\ Range(order) = Selected =>
        /\ Len(order) = Cardinality(Selected)
        /\ ~Cyclic =>
             /\ \A e \in Flows : Before(e.from, e.to)
             /\ \A e \in Flows : \A f \in {x \in Flows : x.from = e.to} :
                  \A n \in {m \in Selected : WaitsOnlyFor(m, e.from)} : Before(n, f.to)

-----------------------------------------------------------------------------
(* The scope of a GitHub scenario, read from the document: the job and     *)
(* what it needs, and of them the run steps that no condition keeps out.   *)
Document == scenario.program[1][2]
Scope(jobs) ==
    LET scope[seen \in SUBSET Nat] ==
            LET more == UNION {Document.jobs[j].needs : j \in seen} \cap DOMAIN Document.jobs
            IN  IF more \subseteq seen THEN seen ELSE scope[seen \cup more]
    IN  scope[jobs]
Holds(gates) == \A i \in DOMAIN gates : Evaluate(gates[i].models) = True
InScope ==
    UNION {LET body == Document.jobs[j]
           IN  IF ~Holds(body.gate) THEN {}
               ELSE {SourceWidth + GH!StepPlace(j, s) + 80 : s \in
                       {t \in DOMAIN body.steps : body.steps[t].run # <<>>
                                                  /\ Holds(body.steps[t].gate)}} :
             j \in Scope({scenario.job})}
Planned == plan # <<>> /\ plan[1].refused = {}
Complete == Planned /\ plan[1].reasons = {}
Places == {graph.node[n].at : n \in Range(plan[1].steps)}
OwnPlaces == {p \in Places : SourceOf(p) = 1}
Gated(j) == Document.jobs[j].gate # <<>>

(* A complete plan of a GitHub job is its job DAG, all of it and nothing   *)
(* else, wherever the jobs that need others have no condition of their     *)
(* own: no step whose condition the event denies, none of an unrelated     *)
(* job, none left out.                                                     *)
CompleteIsTheDag ==
    Complete /\ scenario.program[1][1] = "github" =>
        \/ \E j \in Scope({scenario.job}) : Gated(j) /\ Document.jobs[j].needs # {}
        \/ OwnPlaces = InScope

(* The documents say that only what the selected event lets run is         *)
(* planned: every step is behind conditions of which none is false.        *)
Admitted(starts) ==
    LET admitted[seen \in SUBSET Int] ==
            LET next == {e.to : e \in {x \in graph.edges : x.kind \in FlowKinds /\ x.from \in seen}}
                open == {n \in next : Evaluate(graph.node[n].guard) # False}
            IN  IF open \subseteq seen THEN seen ELSE admitted[seen \cup open]
    IN  admitted[starts]
OnlyTheEventsWorkIsPlanned ==
    Planned => Range(plan[1].steps) \subseteq
                   Admitted({n \in graph.entrypoints : Evaluate(graph.node[n].guard) # False})

(* Steps start when, and only when, the plan is complete, denies the       *)
(* network and fits the host: then they are the plan's, without network,   *)
(* every exclusion reaches the helper, and of the caller's environment it  *)
(* has the granted secrets and no other. Neither the plan's builder nor    *)
(* the helper, each with its own checks, refuses what the other lets       *)
(* through, but for an engine the OCI helper does not know.                *)
Fits == /\ scenario.installed /\ scenario.host.available
        /\ IF scenario.backend = "oci" THEN scenario.engine \in {"docker", "podman"}
           ELSE scenario.host.system = SystemOf[scenario.backend]
Started == launch # <<>> /\ launch[1].refused = {}
OnlyContainedWorkStarts ==
    stage = "done" =>
        /\ Started <=> Complete /\ ~scenario.network /\ Fits
        /\ plan[1].refused = {"wire"} => scenario.backend = "windows" /\ scenario.boot
        /\ Started => /\ launch[1].steps = PlannedSteps /\ launch[1].network = "none"
                      /\ launch[1].excluded = Range(scenario.exclusions)
                      /\ launch[1].environment \cap {"secret", "other"} \subseteq scenario.granted

(* Every scenario comes to an answer: the walk ends though truth is merged *)
(* along cycles, and the order though they have no first node.             *)
PlanIsReached == <>(stage = "done")
=============================================================================
