------------------------------- MODULE Verifier -------------------------------
(***************************************************************************)
(* The analysis of a program of workflow documents: the front ends lower   *)
(* each one, the graphs are composed, the data flow is solved one queued   *)
(* node at a time, the rules are run on what it reached, the policy asks   *)
(* the graph and the gate decides (verifier/mod.rs, frontend/mod.rs,       *)
(* engine/mod.rs).                                                         *)
(***************************************************************************)
EXTENDS Dataflow, Policy, Frontends

CONSTANTS
    Programs,    \* sequences of sources, each a pair of a provider and a document
    Requests     \* what check is asked: which files may configure it and whether the
                 \* repository's is trusted, a persona or none, whether strictly, and on
                 \* what day

(* No option names more than one file, and the clock shows a year of four  *)
(* digits.                                                                 *)
LastDay == 2932896
ASSUME RequestAssumption ==
    \A r \in Requests :
        /\ DOMAIN r = {"policy", "config", "automatic", "trusts", "asked", "strict", "today"}
        /\ r.today \in Nat /\ r.today <= LastDay
        /\ \A files \in {r.policy, r.config, r.automatic} :
               \/ files = <<>>
               \/ /\ files = <<files[1]>>
                  /\ files[1].inside \in BOOLEAN
                  /\ \A s \in files[1].suppressions : s.expiry \in Nat \X Nat \X Nat

(* Every program fits the nodes and values there are, whose join is the    *)
(* domain's.                                                               *)
ASSUME ValueAssumption ==
    /\ Bottom = Default
    /\ \A a \in Value : a.trust.label \in DOMAIN TrustRank
    /\ \A a, b \in Value : Join(a, b) = JoinAssign(a, b)
Fits(g) ==
    /\ NodesOf(g) \subseteq Node /\ g.entrypoints \subseteq Node
    /\ UNION {g.node[n].attributes : n \in NodesOf(g)} \subseteq Value
    /\ \A n \in NodesOf(g) : IsFiniteSet(g.node[n].attributes)
    /\ IsFiniteSet(g.edges) /\ \A e \in g.edges : {e.from, e.to} \subseteq Node
ASSUME ProgramAssumption == \A p \in Programs : Fits(GraphOf(p))

VARIABLES
    program,     \* the sources under analysis
    graph,       \* the composed and finalized graph
    result,      \* what the rules concluded, once they have
    verdict      \* the request that was answered and its exit

vars == <<dataflowVars, program, graph, result, verdict>>

FlowOf_Backward(g) == {<<e.to, e.from>> : e \in {x \in g.edges : x.kind \in DataKinds}}
FlowOf(g) == {<<e.from, e.to>> : e \in {x \in g.edges : x.kind \in DataKinds}}

Init ==
    /\ program \in Programs
    /\ graph = GraphOf(program)
    /\ SolveInit(NodesOf(graph), FlowOf(graph),
                 [n \in NodesOf(graph) |-> JoinAll(graph.node[n].attributes)])
    /\ result = <<>>
    /\ verdict = <<>>

Solve == Propagate /\ UNCHANGED <<program, graph, result, verdict>>

RunRules ==
    /\ Solved /\ result = <<>>
    /\ result' = <<Verify(graph, values)>>
    /\ UNCHANGED <<dataflowVars, program, graph, verdict>>

ExitOf(request) ==
    LET config == ConfigOf(request)
    IN  IF Contradictory(request) \/ ~PolicyOutside(request) \/ ~Accepted(config, request.today)
        THEN "refused"
        ELSE Gate(config, request.asked, request.strict, graph, result[1],
                  UNION {Problems(program[s]) : s \in DOMAIN program})
Decide(request) ==
    /\ result # <<>> /\ verdict = <<>>
    /\ verdict' = <<request, ExitOf(request)>>
    /\ UNCHANGED <<dataflowVars, program, graph, result>>

Next == Solve \/ RunRules \/ \E request \in Requests : Decide(request)
Spec == Init /\ [][Next]_vars /\ WF_vars(Solve)

-----------------------------------------------------------------------------
(* What the documents say, read without the graph.                         *)
WellFormed == \A s \in DOMAIN program : Problems(program[s]) = {}
Concludes(rule, state) == result # <<>> /\ result[1].properties[rule].state = state

GithubSteps == UNION {UNION {{[job |-> job, step |-> job.steps[s]] : s \in DOMAIN job.steps} :
                               job \in Range(program[k][2].jobs)} :
                        k \in {i \in DOMAIN program : program[i][1] = "github"}}
GithubRuns == {r \in GithubSteps : r.step.run # <<>>}
GitlabJobs == UNION {{[doc |-> program[k][2], body |-> job] : job \in Range(program[k][2].jobs)} :
                       k \in {i \in DOMAIN program : program[i][1] = "gitlab"}}
GitlabScripts == UNION {Range(FlattenSeq(GL!EffectiveField(j.doc, "script", j.body))) :
                          j \in GitlabJobs}

(* An environment variable of a run step that is made from a reference.    *)
Carries(step, name, reference) ==
    \E k \in DOMAIN step.env : step.env[k].name = name /\ reference \in step.env[k].names
Unquoted(script, name) == \E x \in script.expansions : x.name = name /\ ~x.quoted

InjectsGithub(run) ==
    LET script == run.step.run[1]
    IN  \/ "event" \in script.substituted
        \/ \E x \in script.expansions : ~x.quoted /\ Carries(run.step, x.name, "event")

Shows(script) ==
    \E i \in DOMAIN script.groups :
        LET group == script.groups[i]
            has(field) == \E k \in DOMAIN group.stages : field \in group.stages[k]
        IN  /\ has("secret")
            /\ \/ has("network")
               \/ /\ Len(group.stages) = 1 /\ "prints" \in group.stages[1]
                  /\ group.to = "stdout"
HoldsSecret(run) ==
    \/ {"secret", "TOKEN"} \cap ScriptReferences(run.step.run[1]) # {}
    \/ \E k \in DOMAIN run.step.env : {"secret", "TOKEN"} \cap run.step.env[k].names # {}

(* Proved is never an artefact of how the graph was cut.  When the first   *)
(* rule says no injection is possible, no GitHub run step splices what the *)
(* outside world chose into its text or leaves a variable made from it     *)
(* unquoted, and no GitLab script leaves such a variable unquoted; when    *)
(* the second says no secret is shown, no GitHub run step whose script or  *)
(* environment holds one has a command that prints it or sends it over the *)
(* network.                                                                *)
ProvedIsSafe ==
    /\ Concludes("injection", "Proved") =>
         /\ \A run \in GithubRuns : ~InjectsGithub(run)
         /\ \A script \in GitlabScripts : ~Unquoted(script, "event")
    /\ Concludes("secret", "Proved") =>
         \A run \in GithubRuns : HoldsSecret(run) => ~Shows(run.step.run[1])

(* When the authorization rule is satisfied on documents that the front    *)
(* ends have nothing to say against, a GitHub step with a privileged       *)
(* effect runs only where its own condition or its job's holds the branch  *)
(* to be protected, so does a step that calls an action that is known, or  *)
(* said by the lock, to have one, and a GitLab job does by the rule that   *)
(* admits it or by hand.                                                   *)
Protects(gates) == \E i \in DOMAIN gates : ~gates[i].opaque
                                           /\ Implies(gates[i].models, AtomCondition("protected"))
Runs(rules, valuation) ==
    LET matching == {i \in DOMAIN rules : \A k \in DOMAIN rules[i].if :
                                              valuation \in rules[i].if[k].models}
    IN  rules = <<>> \/ \E i \in matching : /\ \A k \in matching : i <= k
                                            /\ rules[i].when # "never"
Admitted(j) ==
    LET rules == FlattenSeq(GL!EffectiveField(j.doc, "rules", j.body))
    IN  {v \in Valuations : Runs(rules, v)}
ByHand(j) == GL!EffectiveField(j.doc, "when", j.body) = <<"manual">>
Privileged(scripts) == \E s \in scripts : s.effects \cap PrivilegedEffects # {}

Does(call) ==
    IF call.lock \in {Unlocked, WithoutSummary} THEN call.effects
    ELSE call.effects \cup call.lock[1][1].effects

AuthorizationProvedIsGated ==
    Concludes("authorization", "Proved") /\ WellFormed =>
        /\ \A run \in GithubRuns :
               Privileged(Range(run.step.run)) =>
                   Protects(run.step.gate) \/ Protects(run.job.gate)
        /\ \A s \in GithubSteps :
               (\E i \in DOMAIN s.step.call : Does(s.step.call[i].of) \cap PrivilegedEffects # {}) =>
                   Protects(s.step.gate) \/ Protects(s.job.gate)
        /\ \A j \in GitlabJobs :
               Privileged(Range(FlattenSeq(GL!EffectiveField(j.doc, "script", j.body)))) =>
                   ByHand(j) \/ Implies(Admitted(j), AtomCondition("protected"))

(* The rules call a program ill-formed exactly when its execution order is *)
(* a cycle of two or more units; the front end, which also sees a unit     *)
(* that waits for itself, reports a cycle whenever they do.                *)
Wants(source) ==
    CASE source[1] = "github" -> [j \in DOMAIN source[2].jobs |-> source[2].jobs[j].needs]
      [] source[1] = "azure" -> [j \in DOMAIN source[2].jobs |-> source[2].jobs[j].needs]
      [] source[1] = "gitlab" -> [j \in DOMAIN source[2].jobs |->
                                           GL!GitlabNeeds(source[2], j)]
      [] OTHER -> <<>>
Waits(wants) ==   \* the pairs of distinct units, the second waiting for the first, closed
    LET units == (DOMAIN wants) \X (DOMAIN wants)
        direct == {w \in units : w[1] # w[2] /\ w[1] \in wants[w[2]]}
        close[k \in 0..Cardinality(DOMAIN wants)] ==
            IF k = 0 THEN direct
            ELSE close[k - 1] \cup {w \in units :
                     \E c \in DOMAIN wants : <<w[1], c>> \in close[k - 1] /\ <<c, w[2]>> \in direct}
    IN  close[Cardinality(DOMAIN wants)]
Deadlocked(source) == \E j \in DOMAIN Wants(source) : <<j, j>> \in Waits(Wants(source))

CyclesAreReported ==
    result # <<>> =>
        /\ Concludes("correct", "Violated") <=> \E s \in DOMAIN program : Deadlocked(program[s])
        /\ \A s \in DOMAIN program :
               program[s][1] # "gitlab" /\ Deadlocked(program[s])
                   => "cycle" \in Problems(program[s])

-----------------------------------------------------------------------------
(* What the rules read when the queue is empty is exactly reachability: a  *)
(* value is untrusted when something untrusted can flow into its node,     *)
(* across files too, and only then.  And the policy, which searches the    *)
(* graph on its own, misses nothing of it: a rule that forbids paths       *)
(* reports every tainted node, and a node that a policy takes for gated is *)
(* behind that gate for the authorization rule too.                        *)
Tainted(n) == \E m \in NodesOf(graph) :
                  /\ \E v \in graph.node[m].attributes : IsUntrusted(v)
                  /\ HasPath(graph, m, n, DataKinds)
ForbidPaths ==
    [id |-> "no-path", kind |-> "forbid_path", mode |-> "all", severity |-> "error",
     predicates |-> {}]
TaintIsSeen ==
    result # <<>> =>
        LET tainted == {n \in NodesOf(graph) : Tainted(n)}
        IN  /\ tainted = {n \in NodesOf(graph) : IsUntrusted(values[n])}
            /\ tainted \subseteq Found(graph, ForbidPaths)
            /\ graph.entrypoints # {} =>
                   \A gate \in OfKind(graph, {"gate"}), n \in NodesOf(graph) :
                       PolicyDominates(graph, gate, n) => Dominates(graph, gate, n)

(* Unless the user says that the repository's configuration is to be       *)
(* trusted, what lies in the tree never lets pass, in whole or in part,    *)
(* what would be stopped were it not there.                                *)
OutsideOnly(files) == IF files # <<>> /\ files[1].inside THEN <<>> ELSE files
WithoutTree(request) ==
    [request EXCEPT !.automatic = <<>>, !.config = OutsideOnly(@), !.policy = OutsideOnly(@)]
RepositoryCannotWeaken ==
    (verdict # <<>> /\ ~verdict[1].trusts) =>
        LET apart == ExitOf(WithoutTree(verdict[1]))
        IN  /\ verdict[2] = "pass" => apart = "pass"
            /\ verdict[2] = "incomplete" => apart # "finding"

(* A strict check that passes has seen into every action that a step of a  *)
(* GitHub workflow calls: the lock has a complete summary of it, or it is  *)
(* one of the analyzed sources.                                            *)
Seen(call) ==
    \/ call.lock \notin {Unlocked, WithoutSummary} /\ call.lock[1][1].complete
    \/ \E t \in call.target : t \in DOMAIN program
StrictPassSawAll ==
    (verdict # <<>> /\ verdict[1].strict /\ verdict[2] = "pass") =>
        \A s \in GithubSteps : \A i \in DOMAIN s.step.call : Seen(s.step.call[i].of)

(* The days from the first of January 1970 to a date, counted one by one.  *)
DaysBefore[year \in Nat] ==
    IF year <= 1970 THEN 0
    ELSE DaysBefore[year - 1] + (IF IsLeap(year - 1) THEN 366 ELSE 365)
DayOf(date) ==
    LET before[month \in Nat] == IF month <= 1 THEN 0
                                 ELSE before[month - 1] + DaysIn(date[1], month - 1)
    IN  DaysBefore[date[1]] + before[date[2]] + date[3] - 1

(* A suppression holds up to the last moment of its day and no longer: a   *)
(* configuration is refused for it just when the days counted from the     *)
(* first of January 1970 have gone past its date.                          *)
SuppressionsExpire ==
    (verdict # <<>> /\ ConfigOf(verdict[1]).trust = "trusted"
       /\ PolicyOutside(verdict[1]) /\ ~Contradictory(verdict[1])) =>
        ((verdict[2] = "refused") <=>
            \E s \in ConfigOf(verdict[1]).suppressions :
                ~ValidDate(s.expiry) \/ DayOf(s.expiry) < verdict[1].today)

(* The work list empties, whatever cycles the data flows in; running the   *)
(* rules and deciding are then one call each.                              *)
WorkListEmpties == <>Solved
=============================================================================
