------------------------------- MODULE Lowering -------------------------------
(***************************************************************************)
(* What the four front ends share (frontend/mod.rs): references found in   *)
(* an expression become Resource nodes with a data edge to the node that   *)
(* uses them, a condition becomes a Gate in front of its owner, a script   *)
(* becomes a Command, a dependency becomes a Call.                         *)
(*                                                                         *)
(* A reference is one of a few names that the code's tables tell apart:    *)
(* "event" for what the outside world chooses, "sha" for what it cannot,   *)
(* "secret" and "TOKEN" for names that look like credentials, "output" for *)
(* what another step computes, "TITLE" for a plain variable and "param"    *)
(* for a parameter of the unit the reference is in.                        *)
(***************************************************************************)
EXTENDS WorkflowGraph

ReferenceNames == {"event", "sha", "secret", "TOKEN", "output", "TITLE", "param"}
PlaceOf == [event |-> 1, sha |-> 2, secret |-> 3, TOKEN |-> 4, output |-> 5, TITLE |-> 6,
            param |-> 7]

ReferenceTrust(provider, name) ==
    IF name = "event" THEN Untrusted
    ELSE IF provider = "github" /\ name = "output" THEN UnknownLevel({"dynamic"})
    ELSE Trusted
ReferenceSecrecy(name) == IF name \in {"secret", "TOKEN"} THEN Secret ELSE Public
ReferenceValue(provider, name) ==
    StringConstant("reference", ReferenceTrust(provider, name), ReferenceSecrecy(name))

MinimumPhase(provider, name) ==
    CASE provider = "github" -> IF name \in {"secret", "output"} THEN "run"
                                ELSE IF name \in {"event", "sha"} THEN "source"
                                ELSE "compile"
      [] provider = "gitlab" -> IF name \in {"event", "sha"} THEN "plan" ELSE "run"
      [] provider = "azure" -> IF name = "output" THEN "run" ELSE "plan"
      [] OTHER -> IF name = "event" THEN "compile" ELSE "run"

WorkflowText == StringConstant("text", Trusted, Public)

(* The value of a text and of the references in it.                        *)
TextValue(provider, names) ==
    FoldSet(LAMBDA r, v : JoinAssign(v, ReferenceValue(provider, r)), WorkflowText, names)

(* Positions: a node owns the places up to the next multiple of 10.        *)
At(names, phase) == [r \in names |-> phase]
AddReferences(g, provider, target, names, phase) ==
    LET resource(r) == [Simple(target.at + PlaceOf[r], "resource", phase[r]) EXCEPT
                          !.name = <<r>>, !.attributes = {ReferenceValue(provider, r)}]
    IN  FoldSet(LAMBDA r, h : AddEdge(AddNode(h, resource(r)), "data",
                                      resource(r).at, target.at),
                g, names)

-----------------------------------------------------------------------------
(* A condition: the valuations that satisfy it, the references it makes,   *)
(* and whether it is no scalar at all.                                     *)
Guard(models, names) == [models |-> models, names |-> names, opaque |-> FALSE]
OpaqueGuard == [models |-> AtomCondition("opaque"), names |-> {}, opaque |-> TRUE]

GateNode(provider, at, phase, condition) ==
    LET early == {r \in condition.names :
                    PhaseRank[phase] < PhaseRank[MinimumPhase(provider, r)]}
    IN  [Simple(at, "gate", phase) EXCEPT
           !.guard = condition.models,
           !.attributes = {WorkflowText} \cup
                          {ReferenceValue(provider, r) : r \in condition.names},
           !.unknown = IF condition.opaque THEN {"unsupported"}
                       ELSE IF early # {} THEN {"phase"} ELSE {}]

AddGate(g, provider, owner, at, condition) ==
    LET gate == GateNode(provider, at, owner.phase, condition)
    IN  AddReferences(InsertGate(g, owner.at, gate), provider, gate,
                      condition.names, At(condition.names, gate.phase))

AddGates(g, provider, owner, at, conditions) ==
    FoldLeft(LAMBDA h, c : AddGate(h, provider, owner, at, c), g, conditions)

(* A script: what the provider substitutes in it, what the shell expands   *)
(* in it, what it visibly does, and its command groups (see               *)
(* SecretObservability in VerifierRules).  The front ends see $NAME but    *)
(* not ${NAME} as a reference.                                             *)
ScriptReferences(script) ==
    script.substituted \cup {x.name : x \in {y \in script.expansions : ~y.braced}}

CommandNode(provider, at, script) ==
    [Simple(at, "command", "run") EXCEPT
       !.attributes = {TextValue(provider, ScriptReferences(script))},
       !.caps = {"shell", "filesystem_read", "filesystem_write"},
       !.effects = {"command_execution"},
       !.script = <<script>>]

(* Azure and CircleCI substitute when the configuration is compiled.       *)
SubstitutionPhase(provider) == IF provider \in {"azure", "circleci"} THEN "compile" ELSE "run"

PlaceCommand(g, provider, owner, command) ==
    LET script == command.script[1]
    IN  AddReferences(AddControl(AddNode(g, command), owner.at, command.at),
                      provider, command, ScriptReferences(script),
                      [r \in ScriptReferences(script) |->
                          IF r \in script.substituted
                          THEN SubstitutionPhase(provider) ELSE "run"])

AddCommand(g, provider, owner, at, script) ==
    PlaceCommand(g, provider, owner, CommandNode(provider, at, script))

JobNode(at, name) == [Simple(at, "job", "plan") EXCEPT !.name = <<"job", name>>]

(* apply_lock and apply_summary: what the lock has on a dependency is an   *)
(* entry or none, and an entry a summary or none of what its target needs  *)
(* and does.  The evidence is trusted text.                                *)
Unlocked == <<>>
WithoutSummary == <<<<>>>>
Summarized(complete, caps, effects) ==
    <<<<[complete |-> complete, caps |-> caps, effects |-> effects]>>>>
\* A slip: a summary is taken for the whole of what is known.
ApplySummary_Complete(node, summary) ==
    [node EXCEPT !.caps = @ \cup summary.caps, !.effects = @ \cup summary.effects, !.unknown = {}]
ApplySummary(node, summary) ==
    [node EXCEPT !.caps = @ \cup summary.caps, !.effects = @ \cup summary.effects,
                 !.unknown = IF summary.complete THEN {} ELSE {"evidence"}]
ApplyLock(node, lock) ==
    LET locked == [node EXCEPT !.attributes = @ \cup {WorkflowText}]
    IN  IF lock = Unlocked THEN node
        ELSE IF lock = WithoutSummary THEN [locked EXCEPT !.unknown = {"evidence"}]
        ELSE ApplySummary(locked, lock[1][1])

(* A dependency: how its reference is classified, the unit of the program  *)
(* that it names, the profile its name selects, and its entry in the lock. *)
CallNode(at, phase, call) ==
    ApplyLock([Simple(at, "call", phase) EXCEPT
                 !.name = <<call.class, call.profile>>,
                 !.caps = call.caps, !.effects = call.effects, !.target = call.target,
                 !.unknown = {"unresolved"}], call.lock)
AddCallTo(g, owner, node) == AddCall(AddNode(g, node), owner.at, node.at)

(* An environment: the deployment it grants is decided by protection rules *)
(* that the text does not show.                                            *)
AddEnvironment(g, owner, at) ==
    AddEdge(AddNode(g, [Simple(at, "resource", "run") EXCEPT
                          !.name = <<"environment">>, !.caps = {"deployment"}]),
            "grant", at, owner.at)

Deploys(has) == IF has THEN {"deployment_change"} ELSE {}
DeploymentGrant(has) == IF has THEN {"deployment"} ELSE {}

(* Execution-order links by name, with the front end's own search for a    *)
(* cycle among them: a name it cannot find is a problem and gives no edge. *)
LinkDependencies(g, owners, place, wants) ==
    LET links == {l \in owners \X owners : l[1] \in wants[l[2]]}
    IN  FoldSet(LAMBDA l, h : AddControl(h, place[l[1]], place[l[2]]), g, links)

FindsCycle(owners, wants, start) ==
    LET finds[name \in owners, visiting \in Seq(owners)] ==
            \/ name \in Range(visiting)
            \/ \E t \in wants[name] \cap owners : finds[t, Append(visiting, name)]
    IN  finds[start, <<>>]

DependencyProblems(owners, wants) ==
    (IF \E o \in owners : wants[o] \ owners # {} THEN {"unknown"} ELSE {})
      \cup (IF \E o \in owners : FindsCycle(owners, wants, o) THEN {"cycle"} ELSE {})
=============================================================================
