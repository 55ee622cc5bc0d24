-------------------------------- MODULE Corpus --------------------------------
(***************************************************************************)
(* Small documents of the four providers that vary what the rules and the  *)
(* planner tell apart.                                                     *)
(***************************************************************************)
EXTENDS Frontends

Script(substituted, expansions, effects, groups) ==
    [substituted |-> substituted, expansions |-> expansions, effects |-> effects,
     shell |-> "posix", evaluates |-> FALSE, groups |-> groups]
Uses(name, quoted) == [name |-> name, quoted |-> quoted, braced |-> FALSE]
Stages(stages, to) == <<[stages |-> stages, to |-> to]>>
Idle == Script({}, {}, {}, <<>>)
Push == Script({}, {}, {"repository_change"}, <<>>)
TokenTo(stages, to) == Script({}, {Uses("TOKEN", TRUE)}, {}, Stages(stages, to))
Injections == {Idle, Push, Script({"event"}, {}, {}, <<>>), Script({"output"}, {}, {}, <<>>),
               Script({}, {Uses("TITLE", TRUE)}, {}, <<>>),
               Script({}, {Uses("TITLE", FALSE)}, {}, <<>>),
               Script({}, {Uses("TITLE", TRUE), Uses("event", FALSE)}, {}, <<>>)}
Leaks == {TokenTo(<<{"secret", "network"}>>, "stdout"),
          TokenTo(<<{"secret", "prints"}>>, "stdout"),
          TokenTo(<<{"secret", "prints"}>>, "private"),
          TokenTo(<<{"secret", "prints"}, {"passes"}>>, "stdout"),
          TokenTo(<<{"secret", "prints"}, {}>>, "stdout"),
          [TokenTo(<<{"secret"}>>, "stdout") EXCEPT !.shell = "unknown"],
          [Script({}, {}, {}, <<>>) EXCEPT !.shell = "python", !.evaluates = TRUE]}

Binding(name, names) == [name |-> name, names |-> names]
Environments == {<<>>, <<Binding("TITLE", {"event"})>>, <<Binding("TOKEN", {"secret"})>>,
                 <<Binding("TITLE", {"sha"}), Binding("TOKEN", {"secret", "event"})>>}

Protected == Guard(AtomCondition("protected"), {})
Branch == Guard(AtomCondition("branch"), {})
Either == Guard(AtomCondition("protected") \cup AtomCondition("branch"), {})
Both == Guard(AtomCondition("protected") \cap AtomCondition("branch"), {"sha"})
Doubted == Guard(AtomCondition("protected"), {"event"})
Guards == {Protected, Branch, Either, Both, Doubted, OpaqueGuard}
Optional(S) == {<<>>} \cup {<<x>> : x \in S}

-----------------------------------------------------------------------------
RunStep(gate, script, env) == [gate |-> gate, call |-> <<>>, run |-> <<script>>, env |-> env]
CallStep(of, names) == [gate |-> <<>>, call |-> <<[of |-> of, names |-> names]>>,
                        run |-> <<>>, env |-> <<>>]
Job(needs, gate, steps) ==
    [needs |-> needs, permissions |-> <<>>, selfHosted |-> FALSE, environment |-> FALSE,
     gate |-> gate, matrix |-> <<>>, outputs |-> <<>>, call |-> <<>>, steps |-> steps]
Workflow(jobs) == [permissions |-> {<<"contents", "write">>}, jobs |-> jobs]
Github(doc) == <<"github", doc>>
SameSource(target) == [GH!GithubCall("local", "local", Unlocked) EXCEPT !.target = {target}]

GithubPrograms ==
    {<<Github(Workflow(<<Job({}, <<>>, <<RunStep(<<>>, script, env)>>)>>))>> :
        script \in Injections \cup Leaks, env \in Environments}
    \cup {<<Github(Workflow(<<Job({}, job, <<RunStep(step, Push, <<>>),
                                             RunStep(<<>>, last, <<>>)>>)>>))>> :
             job \in Optional(Guards), step \in Optional({Protected, Branch}),
             last \in {Idle, Push}}
    \cup {<<Github(Workflow(<<Job(a, <<Protected>>, <<RunStep(<<>>, Push, <<>>)>>),
                              Job(b, <<>>, <<RunStep(<<>>, last, <<>>)>>),
                              Job(c, <<>>, <<>>)>>))>> :
             a \in {{}, {1}, {2}, {4}}, b \in {{}, {3}}, c \in {{}, {1}, {1, 2}},
             last \in {Idle, Push}}
    \cup {<<Github(Workflow(<<[Job({}, <<>>, <<CallStep(GH!GithubCall(profile, class, lock), names),
                                               RunStep(<<>>, Push, <<>>)>>) EXCEPT
                                  !.environment = environment, !.selfHosted = ~environment,
                                  !.matrix = <<environment>>, !.outputs = <<{"output"}>>]>>))>> :
             profile \in {"checkout", "attest", "upload", "download", "cache", "login", "agent",
                          "other"},
             class \in {"mutable", "immutable"},
             lock \in {Unlocked, Summarized(FALSE, {}, {"network_request"}),
                       Summarized(TRUE, {"network"}, {})},
             names \in {{}, {"event"}, {"secret"}}, environment \in BOOLEAN}
    \cup {<<Github(Workflow(<<Job({}, gate, <<CallStep(GH!GithubCall("checkout", "immutable", lock), {})>>)>>))>> :
             gate \in Optional({Protected}),
             lock \in {WithoutSummary, Summarized(TRUE, {}, {"repository_change"})}}
    \cup {<<Github(Workflow(<<Job({}, gate, <<CallStep(SameSource(2), {"event"})>>)>>)),
            Github(Workflow(<<Job({}, callee, <<RunStep(<<>>, Push, env),
                                                CallStep(SameSource(back), {})>>)>>))>> :
             gate \in Optional({Protected}), callee \in Optional({Protected}),
             env \in Environments, back \in {2, 3}}

-----------------------------------------------------------------------------
Gitlab(doc) == <<"gitlab", doc>>
NoTemplates == [t \in {} |-> <<>>]
Pipeline(jobs) ==
    [variables |-> {}, workflow |-> NoTemplates, stages |-> {}, default |-> NoTemplates,
     templates |-> NoTemplates, dependencies |-> <<>>, jobs |-> jobs]
Rule(conditions, when) == [if |-> conditions, when |-> when]
Child == [class |-> "unknown", profile |-> "other", lock |-> Unlocked, target |-> {},
          caps |-> {}, effects |-> {}]

GitlabPrograms ==
    {<<Gitlab([Pipeline(<<[script |-> <<script>>, rules |-> <<Rule(<<gate>>, "run")>>],
                          [needs |-> needs, script |-> <<last>>, when |-> when]>>)
                EXCEPT !.variables = {"TITLE"}])>> :
        script \in {Push, Script({}, {Uses("event", FALSE)}, {}, <<>>)},
        gate \in {Protected, Branch}, needs \in {{}, {1}}, last \in {Idle, Push},
        when \in {"manual", "always"}}
    \cup {<<Gitlab([Pipeline(<<[extends |-> <<1, 2>>, cache |-> TRUE, artifacts |-> TRUE,
                                 stage |-> stage, needs |-> {2}],
                               [script |-> <<Push>>, environment |-> TRUE, needs |-> needs,
                                variables |-> {"event"}, parallel |-> TRUE, trigger |-> Child]>>)
                     EXCEPT !.stages = {2, 5}, !.dependencies = <<Child>>,
                            !.workflow = [rules |-> <<Rule(<<Branch>>, "run")>>],
                            !.default = [before_script |-> <<Idle>>],
                            !.templates = <<[rules |-> <<Rule(<<Protected>>, "run")>>],
                                            [extends |-> <<1, 3>>, script |-> <<Push, script>>]>>])>> :
             stage \in {2, 5, 8}, needs \in {{}, {1}, {3}}, script \in {Idle, Push}}
    \cup {<<Gitlab(Pipeline(<<[script |-> <<Script({}, {Uses("event", FALSE)}, {}, <<>>)>>,
                              cache |-> TRUE, artifacts |-> TRUE]>>)),
            Gitlab(Pipeline(<<[script |-> <<Push>>, cache |-> TRUE, variables |-> {"event"}]>>))>>}

-----------------------------------------------------------------------------
AzureStep(gate, kind, call, script) ==
    [gate |-> gate, kind |-> kind, call |-> call, script |-> script]
AzureSteps(script) ==
    <<AzureStep(<<Branch>>, "call", AZ!AzureTask("cloud", "mutable", Unlocked), Idle),
      AzureStep(<<>>, "script", AZ!AzureTask("other", "mutable", Unlocked), script)>>
AzureJob(stage, needs, gate, deployment, steps) ==
    [stage |-> stage, needs |-> needs, gate |-> gate, deployment |-> deployment,
     environment |-> deployment, variables |-> <<{"event"}>>, matrix |-> <<"os">>, steps |-> steps]
AzurePrograms ==
    {<<<<"azure", [triggers |-> <<"pr">>, parameters |-> <<default, <<>>>>, variables |-> <<{"TITLE"}>>,
                 repositories |-> <<AZ!AzureTask("repository", "mutable", Unlocked)>>,
                 directives |-> directives,
                 stages |-> <<[needs |-> {}, gate |-> <<gate>>], [needs |-> {1}, gate |-> <<>>]>>,
                 jobs |-> <<AzureJob(1, {}, <<>>, FALSE, AzureSteps(Script({"event"}, {}, {}, <<>>))),
                            AzureJob(2, first, <<>>, gate = Branch, AzureSteps(Push)),
                            AzureJob(2, second, <<Protected>>, FALSE,
                                     <<AzureStep(<<>>, "other", Child, Idle)>>)>>]>>>> :
        default \in {<<{}>>, <<{"event"}>>}, directives \in {<<>>, <<"if">>},
        gate \in {Protected, Branch}, first \in {{}, {3}}, second \in {{}, {2}}}

-----------------------------------------------------------------------------
OrbOf(name) == IF name = "orb" THEN 1 ELSE 0
Word(name) == [kind |-> "word", name |-> name, orb |-> OrbOf(name)]
RunOf(script) == [kind |-> "run", script |-> script]
Invoke(name, command, arguments) ==
    [kind |-> "invoke", name |-> name, command |-> command, orb |-> OrbOf(name),
     arguments |-> arguments]
Parameter(default) == [name |-> "param", default |-> default]
UsesParam == Script({"param"}, {}, {}, <<>>)
Invocation(job, aliases, requires, arguments) ==
    [approval |-> job = 0, job |-> job, aliases |-> aliases, requires |-> requires,
     arguments |-> arguments, matrix |-> <<>>, filters |-> <<>>]
CircleciPrograms ==
    {<<<<"circleci", [dependencies |-> <<Child>>, setup |-> setup, parameters |-> <<Parameter(TRUE)>>,
                 executors |-> <<"linux">>,
                 commands |-> <<[parameters |-> parameters, steps |-> <<RunOf(UsesParam)>>]>>,
                 jobs |-> <<[executor |-> {1}, parameters |-> <<Parameter(FALSE)>>,
                             steps |-> <<step, Invoke("command", 1, <<Binding("param", names)>>),
                                         RunOf(Push)>>]>>,
                 workflows |-> <<[gate |-> <<Branch>>, invocations |->
                     <<[Invocation(0, {1}, {}, <<>>) EXCEPT !.matrix = <<"os">>],
                       [Invocation(job, {2}, {1, 3}, <<Binding("param", {"event"})>>) EXCEPT
                           !.filters = <<OpaqueGuard>>]>>]>>]>>>> :
        setup \in BOOLEAN, parameters \in {<<>>, <<Parameter(TRUE)>>}, job \in {1, 2},
        step \in {Word(w) : w \in {"checkout", "save_cache", "persist_to_workspace", "orb"}}
                   \cup {Invoke("orb", 0, <<Binding("with", {"event"})>>)},
        names \in {{}, {"event"}}}

Plain == GithubPrograms \cup GitlabPrograms \cup AzurePrograms \cup CircleciPrograms

(* A pipeline whose second rule admits what its first does not.            *)
Alternatives ==
    {<<Gitlab(Pipeline(<<[script |-> <<Push>>, rules |-> <<first, second>>]>>))>> :
        first \in {Rule(<<Protected>>, when) : when \in {"run", "never"}},
        second \in {Rule(condition, "run") : condition \in {<<>>, <<Branch>>, <<Both>>}}}

=============================================================================
