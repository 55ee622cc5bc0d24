---------------------------- MODULE RunnerProtocol ----------------------------
(***************************************************************************)
(* What crosses the boundary between the command line and a sandbox helper *)
(* (runner_protocol/mod.rs, helpers/oci/src/lib.rs, execute_sandbox_helper *)
(* in application/mod.rs, sandbox/audit.rs).  Out goes a plan, of which    *)
(* the helper trusts nothing that the command line has checked before it;  *)
(* back comes the evidence of a run, which may lie on a disk for a while   *)
(* before it is verified or audited, and is not trusted either.            *)
(***************************************************************************)
EXTENDS Naturals, FiniteSets, Sequences

(* The digest of content nobody has resolved.                              *)
Unresolved == "unresolved"
SystemOf == [oci |-> "linux", linux |-> "linux", windows |-> "windows", macos |-> "macos"]
RuntimeKind == [oci |-> "oci-capsule", linux |-> "linux-capsule",
                windows |-> "windows-runtime-profile", macos |-> "macos-vm"]

Always == {"source_read_only", "scratch_overlay", "process_isolation", "resource_limits",
           "secret_redaction"}
Native == [oci |-> {}, linux |-> {"namespace", "seccomp", "landlock", "cgroup_v2"},
           windows |-> {"app_container", "restricted_token", "job_object"},
           macos |-> {"virtual_machine"}]
(* What the command line asks of a back end.                               *)
Controls(backend, network) ==
    Always \cup Native[backend] \cup {IF network THEN "egress_broker" ELSE "network_deny"}
(* What a helper offers: none has an egress broker.                        *)
Offered(backend) == Always \cup Native[backend] \cup {"network_deny"}

-----------------------------------------------------------------------------
(* The plan on the wire:                                                   *)
(*   [backend, engine, platform, kind, jobs, controls, mode, destinations, *)
(*    secrets, workload, rootfs, helper, boot, dependencies, steps,        *)
(*    complete]                                                            *)
(* where rootfs and boot are empty or one digest, dependencies says for    *)
(* each whether it is resolved and a step is [supported, image].           *)
Images(wire) == {step.image : step \in wire.steps}
Workload(images) == IF Cardinality(images) = 1 THEN CHOOSE i \in images : TRUE ELSE Unresolved
Rootfs(backend, workload) == IF backend = "windows" THEN {} ELSE {workload}

NetworkHolds(wire) ==
    LET denied == "network_deny" \in wire.controls
    IN  /\ wire.mode = (IF denied THEN "deny" ELSE "allowlist")
        /\ denied <=> ~wire.destinations

RuntimeHolds(wire) ==
    /\ wire.platform = SystemOf[wire.backend] /\ wire.kind = RuntimeKind[wire.backend]
    /\ wire.workload = Workload(Images(wire))
    /\ wire.rootfs = Rootfs(wire.backend, wire.workload)
    /\ wire.backend = "windows" => wire.boot = {}

(* What keeps a plan from being complete, as the reader of the plan sees   *)
(* it; the planner's own reasons are not on the wire.                      *)
Unready(wire) ==
    \/ FALSE \in wire.dependencies
    \/ \E step \in wire.steps : ~step.supported \/ step.image = Unresolved
    \/ wire.workload = Unresolved
    \/ wire.backend # "oci" /\ ~wire.helper
    \/ wire.backend = "macos" /\ wire.boot = {}
StatusHolds(wire) == wire.complete => ~Unready(wire)

(* What both ends check; a plan that is built is checked by its builder.   *)
Validated(wire) ==
    NetworkHolds(wire) /\ wire.jobs # {} /\ RuntimeHolds(wire) /\ StatusHolds(wire)

-----------------------------------------------------------------------------
(* The arguments of a helper: the command line writes them, the helper     *)
(* reads them back.                                                        *)
Excluded(exclusions) ==
    [i \in 1..2 * Len(exclusions) |->
        IF i % 2 = 1 THEN "--exclude" ELSE exclusions[i \div 2]]
Arguments(wire, exclusions) ==
    (IF wire.backend = "oci" THEN <<"--run", "--engine", wire.engine, "--source", "root">>
     ELSE <<"--run", "--source", "root">>) \o Excluded(exclusions)

Blank == ""   \* no value of an option

(* A native helper takes nothing but what it knows, in one order; the OCI  *)
(* helper looks up what it needs.                                          *)
Runs(arguments) ==
    LET rest == SubSeq(arguments, 4, Len(arguments))
    IN  /\ Len(arguments) >= 3
        /\ SubSeq(arguments, 1, 2) = <<"--run", "--source">> /\ arguments[3] # Blank
        /\ Len(rest) % 2 = 0
        /\ \A i \in DOMAIN rest : IF i % 2 = 1 THEN rest[i] = "--exclude" ELSE rest[i] # Blank
Exclusions(arguments) ==
    {arguments[i] : i \in {j \in 2..Len(arguments) : arguments[j - 1] = "--exclude"
                                                     /\ arguments[j] # Blank}}
(* The first value after the option, if it is not empty.                   *)
EngineOf(arguments) ==
    LET named == {i \in 1..Len(arguments) - 1 : arguments[i] = "--engine"}
    IN  IF named = {} THEN "docker" ELSE arguments[1 + CHOOSE i \in named : \A j \in named : i <= j]

(* A slip a maintainer could make: a control the helper does not have is   *)
(* left out.                                                               *)
NativeRefusal_Degrades(wire, host) ==
    IF ~wire.complete THEN {"incomplete"}
    ELSE IF host.system # SystemOf[wire.backend] \/ ~host.available THEN {"infrastructure"} ELSE {}
(* A native helper: its own back end, on its own system, with everything   *)
(* that is asked of it.                                                    *)
NativeRefusal(wire, host) ==
    IF ~wire.complete THEN {"incomplete"}
    ELSE IF host.system # SystemOf[wire.backend] \/ ~host.available THEN {"infrastructure"}
    ELSE IF wire.controls \subseteq Offered(wire.backend) THEN {} ELSE {"invalid"}

(* The OCI helper: the engine it was started for, one of the two it knows, *)
(* and no plan that does not ask for everything it requires.               *)
OciRefusal(wire, engine, host) ==
    IF ~wire.complete THEN {"incomplete"}
    ELSE IF /\ wire.engine = engine /\ engine \in {"docker", "podman"} /\ host.available
            /\ Offered("oci") \subseteq wire.controls THEN {}
    ELSE {"infrastructure"}

(* What the helper process does with the plan on its input: it starts the  *)
(* steps when nothing is refused.                                          *)
NativeMain(wire, arguments, host) ==
    IF Runs(arguments) /\ Validated(wire) THEN NativeRefusal(wire, host) ELSE {"invalid"}
OciMain(wire, arguments, host) ==
    IF {"--run", "--source"} \subseteq {arguments[i] : i \in DOMAIN arguments} /\ Validated(wire)
    THEN OciRefusal(wire, EngineOf(arguments), host) ELSE {"invalid"}
Refused(wire, arguments, host) ==
    IF wire.backend = "oci" THEN OciMain(wire, arguments, host)
    ELSE NativeMain(wire, arguments, host)

(* The helper's environment is cleared but for what it runs on and for the *)
(* secrets the plan names; a step has no network unless the plan does not  *)
(* deny it.                                                                *)
HelperEnvironment(wire, environment) == environment \cap ({"PATH"} \cup wire.secrets)
StepNetwork(wire) == IF "network_deny" \in wire.controls THEN "none" ELSE "default"

-----------------------------------------------------------------------------
(***************************************************************************)
(* Evidence.  A body is what a helper records, and one body stands for the *)
(* records of one loop: "controls" for the attestation of each control,    *)
(* "changes" for the accesses and artifacts of every changed path; that a  *)
(* secret was masked in an output is left out, nobody asks for it.  Of a   *)
(* plan, evidence is bound to                                              *)
(*   [digest, source, backend, controls, steps, complete]                  *)
(* and a digest stands for what it is computed from.                       *)
(***************************************************************************)
Bodies(events) == [i \in DOMAIN events |-> events[i].body]
Where(bodies, kind) == {i \in DOMAIN bodies : bodies[i].kind = kind}
Once(bodies, kind) == \E i \in DOMAIN bodies : Where(bodies, kind) = {i}
OnceAs(bodies, body) ==
    \E i \in DOMAIN bodies : Where(bodies, body.kind) = {i} /\ bodies[i] = body

(* Every event carries the digest of the one before it, and a digest lists *)
(* all it was computed from.                                               *)
Digest(sequence, previous, body) == Append(previous, <<sequence, body>>)
Linked(origin, bodies, n) == origin \o [i \in 1..n |-> <<i - 1, bodies[i]>>]
EventChain(origin, bodies) ==
    [n \in DOMAIN bodies |->
        [sequence |-> n - 1, previous |-> Linked(origin, bodies, n - 1), body |-> bodies[n],
         digest |-> Linked(origin, bodies, n)]]

(* The document repeats some of its events, in case anybody reads no more. *)
Latest(bodies, kind, none) ==
    LET those == Where(bodies, kind)
    IN  IF those = {} THEN none
        ELSE bodies[CHOOSE i \in those : \A j \in those : j <= i].value
Summary(source, bodies) ==
    [artifacts |-> UNION {bodies[i].written : i \in Where(bodies, "changes")},
     processes |-> Latest(bodies, "resource", 0),
     log |-> Latest(bodies, "log", {}),
     final |-> Latest(bodies, "final", source)]

BindingsOf(plan) == [source |-> plan.source, controls |-> plan.controls]
EvidenceFor(plan, bodies) ==
    [plan |-> plan.digest, bindings |-> BindingsOf(plan),
     events |-> EventChain(plan.digest, bodies), summary |-> Summary(plan.source, bodies)]

KnownControls == Always \cup {"egress_broker", "network_deny", "app_sandbox"}
                   \cup UNION {Native[backend] : backend \in DOMAIN Native}
ValidBody(body) ==
    /\ body.kind \in {"backend", "controls", "start", "exit", "changes", "network",
                      "resource", "log", "final", "error"}
    /\ body.kind = "controls" => body.names \subseteq KnownControls

(* A slip a maintainer could make: every event is only looked at by itself.*)
Valid_Unlinked(evidence) ==
    \A i \in DOMAIN evidence.events :
        LET event == evidence.events[i]
        IN  /\ ValidBody(event.body)
            /\ event.digest = Digest(event.sequence, event.previous, event.body)
(* The events are whole, and each is the next one after the one before it. *)
Valid(evidence) ==
    LET events == evidence.events
    IN  \A i \in DOMAIN events :
          /\ events[i].sequence = i - 1
          /\ events[i].previous = IF i = 1 THEN evidence.plan ELSE events[i - 1].digest
          /\ ValidBody(events[i].body)
          /\ events[i].digest = Digest(events[i].sequence, events[i].previous, events[i].body)

(* A document is read when it is valid and repeats what its events say.    *)
Parses(evidence) ==
    /\ Valid(evidence)
    /\ evidence.summary = Summary(evidence.bindings.source, Bodies(evidence.events))

(* It is the plan's when every process it started is the plan's next step, *)
(* and ended, under the plan's controls.                                   *)
ValidForPlan(evidence, plan) ==
    LET bodies == Bodies(evidence.events)
        starts == Where(bodies, "start")
    IN  /\ Valid(evidence)
        /\ evidence.plan = plan.digest /\ evidence.bindings = BindingsOf(plan)
        /\ OnceAs(bodies, [kind |-> "backend", id |-> plan.backend, controls |-> plan.controls])
        /\ OnceAs(bodies, [kind |-> "controls", names |-> plan.controls])
        /\ \A kind \in {"resource", "log", "final"} : Once(bodies, kind)
        /\ Cardinality(starts) = Cardinality(Where(bodies, "exit"))
        /\ Cardinality(starts) <= plan.steps /\ (plan.steps > 0 => starts # {})
        /\ \A i \in starts : /\ bodies[i].step = Cardinality({j \in starts : j <= i})
                             /\ ~bodies[i].redacted

-----------------------------------------------------------------------------
(* The audit of a run against its plan and, when the source is at hand,    *)
(* against the effects its graph can have: no graph, or one of             *)
(* [effects, unknowns].  A deletion is no write, and so counts as a read.  *)
ObservedEffects(bodies) ==
    LET kinds == {bodies[i].kind : i \in DOMAIN bodies}
        changes == Where(bodies, "changes")
    IN  {effect \in {"command_execution", "network_request", "file_write", "file_read"} :
          \/ effect = "command_execution" /\ "start" \in kinds
          \/ effect = "network_request" /\ "network" \in kinds
          \/ \E i \in changes :
               \/ effect = "file_write" /\ bodies[i].written # {}
               \/ effect = "file_read" /\ bodies[i].deleted # {}}

Reconciled(graph, observed) ==
    IF observed \subseteq graph.effects THEN "Proved"
    ELSE IF graph.unknowns THEN "Unknown" ELSE "Violated"

(* A run is verified when nothing speaks against it.                       *)
AuditReasons(plan, evidence, graphs) ==
    LET bodies == Bodies(evidence.events)
        attested == UNION {bodies[i].names : i \in Where(bodies, "controls")}
    IN  {reason \in {"plan", "error", "exit", "backend", "control", "envelope"} :
          \/ reason = "plan" /\ ~plan.complete
          \/ reason = "error" /\ Where(bodies, "error") # {}
          \/ reason = "exit" /\ \E i \in DOMAIN bodies :
               bodies[i].kind = "exit" /\ bodies[i].code # 0
          \/ reason = "backend" /\ ~OnceAs(bodies,
               [kind |-> "backend", id |-> plan.backend, controls |-> plan.controls])
          \/ reason = "control" /\ ~(plan.controls \subseteq attested)
          \/ reason = "envelope" /\ \E graph \in graphs :
               Reconciled(graph, ObservedEffects(bodies)) # "Proved"}

=============================================================================
