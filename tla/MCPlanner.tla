------------------------------- MODULE MCPlanner -------------------------------
(***************************************************************************)
(* The instance on which the planner is model-checked: programs whose jobs *)
(* need, gate and call one another, planned for two events, and one        *)
(* program planned for requests of every kind.                             *)
(***************************************************************************)
EXTENDS ScenarioPlanner, Corpus

OnPush == Guard(AtomCondition("pushed"), {})
NotOnPush == Guard(Valuations \ AtomCondition("pushed"), {})
Maybe == Guard(AtomCondition("pushed") \cap AtomCondition("protected"), {})

Simply(needs, gate) == Job(needs, gate, <<RunStep(<<>>, Idle, <<>>)>>)
Chained(needs, gate, step) ==
    Job(needs, gate, <<RunStep(step, Idle, <<>>), RunStep(<<>>, Push, <<>>)>>)

GithubJobs ==
    {<<Github(Workflow(<<Chained(a, first, step), Simply(b, second), Simply(c, <<>>)>>))>> :
        a \in {{}, {2}, {3}}, b \in {{}, {1}, {3}}, c \in {{}, {1}},
        first \in Optional({OnPush, Maybe}), second \in Optional({NotOnPush}),
        step \in Optional({OnPush})}

(* A job that calls a workflow of another file, which may call it back.    *)
Local(target) == [GH!GithubCall("local", "local", Unlocked) EXCEPT !.target = {target}]
Calling(gate, target) == [Job({}, gate, <<>>) EXCEPT !.call = <<Local(target)>>]
GithubCalls ==
    {<<Github(Workflow(<<Calling(gate, 2), Simply({1}, <<>>), Simply({}, <<>>)>>)),
       Github(Workflow(<<Chained({}, callee, <<>>), back>>))>> :
        gate \in Optional({OnPush, Maybe}), callee \in Optional({NotOnPush, Maybe}),
        back \in {Simply({1}, <<>>), Calling(<<>>, 1), Job({}, <<>>, <<CallStep(Child, {})>>)}}
    \cup {<<Github(Workflow(<<Calling(<<Maybe>>, 2), Job({1}, <<>>, <<CallStep(Local(2), {})>>)>>)),
             Github(Workflow(<<Simply({}, callee)>>))>> : callee \in Optional({OnPush})}

GitlabJobs ==
    {<<Gitlab(Pipeline(<<[script |-> <<Idle>>, needs |-> needs, when |-> when,
                          rules |-> <<Rule(<<rule>>, "run")>>],
                         [script |-> <<Push>>, needs |-> {}, cache |-> TRUE]>>))>> :
        needs \in {{}, {2}}, when \in {"manual", "always"}, rule \in {OnPush, Maybe}}

AzureJobs ==
    {<<<<"azure", [triggers |-> <<>>, parameters |-> <<>>, variables |-> <<>>, repositories |-> <<>>,
                   directives |-> <<>>,
                   stages |-> <<[needs |-> {}, gate |-> <<stagegate>>]>>,
                   jobs |-> <<[AzureJob(1, {}, gate, FALSE,
                                        <<AzureStep(<<>>, "script", Child, Idle),
                                          AzureStep(<<>>, kind, Child, Idle)>>) EXCEPT
                                  !.variables = <<>>, !.matrix = <<>>]>>]>>>> :
        stagegate \in {OnPush, Maybe}, gate \in Optional({NotOnPush}), kind \in {"script", "other"}}

Request(program, job, event) ==
    [program |-> program, entry |-> 1, job |-> job, event |-> event, backend |-> "oci",
     os |-> "linux", capsule |-> TRUE, network |-> FALSE, destinations |-> FALSE,
     bound |-> {"TITLE"}, secrets |-> {}, granted |-> {}, engine |-> "docker", helper |-> FALSE,
     boot |-> FALSE, installed |-> TRUE, host |-> [system |-> "linux", available |-> TRUE],
     exclusions |-> <<>>, environment |-> {"PATH", "secret", "other"}]

Walks == {Request(program, job, event) :
             program \in GithubJobs \cup GithubCalls \cup GitlabJobs \cup AzureJobs,
             job \in {1, 2}, event \in {"push", "manual"}}

Secretive == <<Github(Workflow(<<Job({}, <<>>, <<RunStep(<<>>, Script({"secret", "TITLE"}, {}, {}, <<>>), <<>>)>>)>>))>>
Requests ==
    {[Request(Secretive, 1, "push") EXCEPT !.secrets = secrets, !.granted = granted,
                                           !.backend = backend, !.os = os, !.capsule = capsule] :
        secrets \in {{}, {"secret"}}, granted \in {{}, {"secret"}}, capsule \in BOOLEAN,
        backend \in {"oci", "linux", "windows", "macos"}, os \in {"linux", "windows", "macos"}}
    \cup {[Request(Secretive, job, "push") EXCEPT !.entry = entry, !.network = network,
                                                  !.destinations = destinations] :
            job \in {1, 3}, entry \in {1, 2}, network \in BOOLEAN, destinations \in BOOLEAN}

Launches ==
    {[Request(Secretive, 1, "push") EXCEPT
        !.secrets = {"secret"}, !.granted = granted, !.backend = backend, !.os = SystemOf[backend],
        !.engine = engine, !.network = network, !.destinations = network, !.helper = helper,
        !.boot = boot, !.host = host, !.exclusions = exclusions] :
        granted \in {{}, {"secret"}}, backend \in {"oci", "linux", "windows", "macos"},
        engine \in {"docker", "nerdctl"}, network \in BOOLEAN, helper \in BOOLEAN, boot \in BOOLEAN,
        host \in [system : {"linux", "windows", "macos"}, available : BOOLEAN],
        exclusions \in {<<>>, <<"private">>, <<"private", "generated">>}}
    \cup {[Request(Secretive, 1, "push") EXCEPT !.bound = @ \cup {"secret"}, !.installed = installed] :
            installed \in BOOLEAN}

Every == Walks \cup Requests \cup Launches
=============================================================================
