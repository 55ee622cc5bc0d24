----------------------------- MODULE VerifierRules -----------------------------
(***************************************************************************)
(* The twelve rules of verify (verifier/mod.rs): each concludes Proved,    *)
(* Violated, Unknown with its reasons, or NotApplicable, from the graph    *)
(* and the values the data flow reached.  A diagnostic is kept as its rule *)
(* with its severity.                                                      *)
(***************************************************************************)
EXTENDS Lowering

Conclusion(state, reasons) == [state |-> state, reasons |-> reasons]
Proved == Conclusion("Proved", {})
Violated == Conclusion("Violated", {})
NotApplicable == Conclusion("NotApplicable", {})
Unknown(reasons) == Conclusion("Unknown", reasons)

(* The worst of the states; nothing to say of nothing.                     *)
Combine(states) ==
    LET unknowns == UNION {s.reasons : s \in states}
    IN  IF Violated \in states THEN Violated
        ELSE IF unknowns # {} THEN Unknown(unknowns)
        ELSE IF Proved \in states THEN Proved ELSE NotApplicable

ProvedUnless(reasons) == IF reasons = {} THEN Proved ELSE Unknown(reasons)
OfKind(g, kinds) == {n \in NodesOf(g) : g.node[n].kind \in kinds}

-----------------------------------------------------------------------------
(* What a script shows of itself.  A command group is the stages of a      *)
(* pipeline and the place its last stage writes to.                        *)
ScriptOf(node) == node.script[1]
Effects(node) ==
    node.effects \cup (IF node.kind = "command" THEN ScriptOf(node).effects ELSE {})

UnsafeInterpolation(script) ==
    \/ script.substituted # {}
    \/ script.shell = "python" /\ script.evaluates
    \/ \E x \in script.expansions : ~x.quoted

OutputDestination(script, group) ==
    IF script.shell = "python" THEN "stdout"
    ELSE IF script.shell = "unknown" /\ group.to # "stdout" THEN "unsupported"
    ELSE group.to

GroupObservability(script, seen, group) ==
    LET has(field) == \E i \in DOMAIN group.stages : field \in group.stages[i]
        network == has("secret") /\ has("network")
        produces == /\ \E i \in DOMAIN group.stages : {"secret", "prints"} \subseteq group.stages[i]
                    /\ ~network
        destination == OutputDestination(script, group)
        printed == produces /\ destination = "stdout"
        output == \/ seen.output
                  \/ printed /\ (Len(group.stages) = 1 \/ "passes" \in Last(group.stages))
    IN  [network |-> seen.network \/ network,
         output |-> output,
         unknowns |-> seen.unknowns
            \cup (IF produces /\ destination \in {"unsupported", "dynamic"} THEN {destination} ELSE {})
            \cup (IF printed /\ ~output THEN {"unsupported"} ELSE {})]

SecretObservability(script) ==
    FoldLeft(LAMBDA seen, group : GroupObservability(script, seen, group),
             [network |-> FALSE, output |-> FALSE, unknowns |-> {}], script.groups)

ScriptUnknowns(script) ==
    SecretObservability(script).unknowns
      \cup (IF script.shell = "unknown" THEN {"unsupported"} ELSE {})

-----------------------------------------------------------------------------
EnvironmentNames(g, path) ==
    {g.node[path[i]].name : i \in {j \in DOMAIN path : /\ g.node[path[j]].kind = "resource"
                                                       /\ Len(g.node[path[j]].name) = 2
                                                       /\ g.node[path[j]].name[1] = "env"}}

(* A slip a maintainer could make: all for any.                            *)
UnsafeUntrustedFlow_EveryPath(g, values, command) ==
    LET script == ScriptOf(g.node[command])
        sources == {n \in OfKind(g, {"resource", "parameter"}) : IsUntrusted(values[n])}
        paths == {ShortestPath(g, s, command, DataKinds) : s \in sources} \ {<<>>}
        unsafe(path) ==
            LET environment == EnvironmentNames(g, path)
            IN  IF environment = {} THEN UnsafeInterpolation(script)
                ELSE \E e \in environment, x \in script.expansions : x.name = e[2] /\ ~x.quoted
    IN  IF paths = {} THEN UnsafeInterpolation(script) ELSE \A path \in paths : unsafe(path)

(* An untrusted value that goes through a variable is unsafe when the      *)
(* script leaves that variable unquoted; any other, when anything in the   *)
(* script is.                                                              *)
UnsafeUntrustedFlow(g, values, command) ==
    LET script == ScriptOf(g.node[command])
        sources == {n \in OfKind(g, {"resource", "parameter"}) : IsUntrusted(values[n])}
        paths == {ShortestPath(g, s, command, DataKinds) : s \in sources} \ {<<>>}
        unsafe(path) ==
            LET environment == EnvironmentNames(g, path)
            IN  IF environment = {} THEN UnsafeInterpolation(script)
                ELSE \E e \in environment, x \in script.expansions : x.name = e[2] /\ ~x.quoted
    IN  IF paths = {} THEN UnsafeInterpolation(script) ELSE \E path \in paths : unsafe(path)

InjectionRule(g, values) ==
    Combine({IF IsUntrusted(values[c]) /\ UnsafeUntrustedFlow(g, values, c)
             THEN Violated ELSE ProvedUnless(Reasons(values[c])) : c \in OfKind(g, {"command"})})

SecretSink(node) ==
    \/ node.kind = "command"
    \/ "network_request" \in node.effects
    \/ node.kind = "call" /\ "network" \in node.caps

SecretState(node, value) ==
    LET command == node.kind = "command"
        shown == IF command THEN SecretObservability(ScriptOf(node))
                 ELSE [network |-> FALSE, output |-> FALSE, unknowns |-> {}]
        reaches == "network_request" \in node.effects \/ "network" \in node.caps
        transports == node.kind = "call" /\ "credential_use" \in node.effects
        observable == shown.network \/ shown.output \/ (reaches /\ ~transports)
        uncertainty == node.unknown \cup (IF command THEN ScriptUnknowns(ScriptOf(node)) ELSE {})
    IN  IF IsSecret(value) /\ observable THEN Violated
        ELSE IF IsSecret(value) /\ uncertainty # {} THEN Unknown(uncertainty)
        ELSE IF value.secrecy.label = "unknown" /\ observable THEN Unknown(value.secrecy.reasons)
        ELSE IF uncertainty # {} /\ "network" \in node.caps THEN Unknown(uncertainty)
        ELSE Proved
SecretRule(g, values) ==
    Combine({SecretState(g.node[n], values[n]) : n \in {m \in NodesOf(g) : SecretSink(g.node[m])}})

CallClass(node) == IF node.attributes # {} THEN "immutable" ELSE node.name[1]
SupplyRule(g) ==
    Combine({CASE CallClass(g.node[c]) \in {"local", "immutable"} -> Proved
               [] CallClass(g.node[c]) = "mutable" -> Violated
               [] OTHER -> Unknown({"unresolved"}) : c \in OfKind(g, {"call"})})

CorrectnessRule(g) ==
    IF Validate(g) # {} \/ Cycles(g, {"control"}) # {} \/ Cycles(g, {"call"}) # {}
    THEN Violated
    ELSE IF NodesOf(g) = {} THEN NotApplicable ELSE Proved

-----------------------------------------------------------------------------
(* A capability, and the effects one of which justifies that it is granted. *)
PermissionMatches(capability, effects) ==
    LET needs(any) == any \cap effects # {}
    IN  CASE capability \in {"oidc", "cloud_credential"} -> needs({"deployment_change", "credential_use"})
          [] capability \in {"self_hosted_persistence", "filesystem_write"} ->
                 needs({"file_write", "workflow_change"})
          [] capability \in {"artifact_read", "artifact_write"} -> needs({"artifact_publish"})
          [] capability \in {"cache_read", "cache_write"} -> needs({"cache_publish"})
          [] capability = "repository_write" -> needs({"repository_change", "workflow_change"})
          [] capability = "token_write" -> needs({"repository_change"})
          [] capability = "network" -> needs({"network_request"})
          [] capability = "deployment" -> needs({"deployment_change"})
          [] capability = "secret_access" -> needs({"credential_use"})
          [] capability = "ai_tool" -> needs({"ai_agent_execution"})
          [] OTHER -> TRUE

PermissionState(g, owner, capability) ==
    LET reachable == {g.node[n] : n \in Reachable(g, owner)}
    IN  IF PermissionMatches(capability, UNION {Effects(n) : n \in reachable}) THEN Proved
        ELSE LET unknowns == UNION {n.unknown : n \in reachable}
             IN  IF unknowns # {} THEN Unknown(unknowns) ELSE Violated
PermissionRule(g) ==
    Combine({PermissionState(g, grant[1], grant[2]) :
               grant \in UNION {{n} \X g.node[n].caps : n \in OfKind(g, {"workflow", "job"})}})

PrivilegedEffects == {"repository_change", "deployment_change", "workflow_change"}
Sinks(g) == {n \in NodesOf(g) : Effects(g.node[n]) \cap PrivilegedEffects # {}}

(* A slip a maintainer could make: mentioned for implied.                  *)
AuthorizationGate_Mentions(node, value) ==
    /\ node.kind = "gate"
    /\ node.name # <<>> \/ "protected" \in AtomsOf(node.guard)
    /\ ~IsUntrusted(value) /\ Reasons(value) = {}

(* A gate that authorizes: a person decides, or the branch is protected    *)
(* whenever the condition holds; and nothing it reads is in doubt.         *)
AuthorizationGate(node, value) ==
    /\ node.kind = "gate"
    /\ \/ node.name # <<>>
       \/ "protected" \in AtomsOf(node.guard) /\ Implies(node.guard, AtomCondition("protected"))
    /\ ~IsUntrusted(value) /\ Reasons(value) = {}

EnvironmentReasons(g, sink) ==
    {"external" : r \in {n \in OfKind(g, {"resource"}) :
                            /\ g.node[n].name = <<"environment">>
                            /\ HasPath(g, n, sink, {"grant", "control", "call"})}}

AuthorizationState(g, gates, sink) ==
    IF \E gate \in gates : Dominates(g, gate, sink) THEN Proved
    ELSE IF EnvironmentReasons(g, sink) # {} THEN Unknown(EnvironmentReasons(g, sink))
    ELSE Violated
AuthorizationRule(g, values) ==
    LET gates == {n \in NodesOf(g) : AuthorizationGate(g.node[n], values[n])}
    IN  Combine({AuthorizationState(g, gates, s) : s \in Sinks(g)})

(* The rules that ask whether what one node holds can reach a privileged   *)
(* effect.                                                                 *)
Poisons(g, resource) ==
    \E s \in Sinks(g) : HasPath(g, resource, s, DataKinds \cup {"control", "call"})
IntegrityRule(g, values, label) ==
    LET caps == {label \o "_read", label \o "_write"}
        resources == {n \in OfKind(g, {"resource"}) :
                         \/ g.node[n].name # <<>> /\ Head(g.node[n].name) = label
                         \/ g.node[n].caps \cap caps # {}}
    IN  Combine({IF IsUntrusted(values[r]) /\ Poisons(g, r) THEN Violated
                 ELSE ProvedUnless(Reasons(values[r])) : r \in resources})

ToctouRule(g, values) ==
    LET checkouts == {n \in OfKind(g, {"call"}) : g.node[n].name[2] = "checkout"}
        races(c) == /\ g.node[c].name[1] # "immutable"
                    /\ IsUntrusted(values[c])
                    /\ \E s \in Sinks(g) : HasPath(g, c, s, {"control", "data", "call"})
    IN  Combine({IF races(c) THEN Violated ELSE Proved : c \in checkouts})

CredentialRule(g, values) ==
    Combine({IF IsSecret(values[c]) THEN Violated ELSE ProvedUnless(Reasons(values[c])) :
               c \in {n \in OfKind(g, {"call"}) : "self_hosted_persistence" \in g.node[n].caps}})

AiRule(g, values) ==
    LET agents == {n \in OfKind(g, {"call", "command"}) :
                      "ai_agent_execution" \in g.node[n].effects \/ "ai_tool" \in g.node[n].caps}
    IN  Combine({IF IsUntrusted(values[a]) /\ g.node[a].caps \cap {"network", "ai_tool"} # {}
                 THEN Violated ELSE Proved : a \in agents})

SelfRule(g) ==
    LET granted == \E n \in NodesOf(g) : "repository_write" \in g.node[n].caps
        rewrites(n) == "workflow_change" \in ScriptOf(g.node[n]).effects
    IN  IF ~granted THEN NotApplicable
        ELSE IF \E c \in OfKind(g, {"command"}) : rewrites(c) THEN Violated ELSE Proved

-----------------------------------------------------------------------------
Severity == [correct |-> "error", injection |-> "error", secret |-> "critical",
             supply |-> "warning", permission |-> "warning", authorization |-> "error",
             artifact |-> "critical", cache |-> "critical", toctou |-> "critical",
             credential |-> "critical", ai |-> "critical", self |-> "critical"]

Verify(g, values) ==
    [properties |-> [correct |-> CorrectnessRule(g),
                     injection |-> InjectionRule(g, values),
                     secret |-> SecretRule(g, values),
                     supply |-> SupplyRule(g),
                     permission |-> PermissionRule(g),
                     authorization |-> AuthorizationRule(g, values),
                     artifact |-> IntegrityRule(g, values, "artifact"),
                     cache |-> IntegrityRule(g, values, "cache"),
                     toctou |-> ToctouRule(g, values),
                     credential |-> CredentialRule(g, values),
                     ai |-> AiRule(g, values),
                     self |-> SelfRule(g)],
     complete |-> \A n \in NodesOf(g) : g.node[n].unknown = {}]
=============================================================================
