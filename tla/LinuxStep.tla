------------------------------- MODULE LinuxStep -------------------------------
(***************************************************************************)
(* The Linux helper (helpers/linux): LinuxSandbox::prepare makes a cgroup, *)
(* LinuxSandbox::run starts a broker under the limits of one step, and the *)
(* broker contains itself, forks the workload, contains it further, lets   *)
(* it exec and reports that by a readiness file.  The helper believes an   *)
(* exit status only with that file.                                        *)
(***************************************************************************)
EXTENDS Naturals, Sequences

\* What run_broker does before it forks, and what the child does in pre_exec.
NamespaceSetup ==
  <<"userNamespace", "idMaps", "namespaces", "privateMounts", "readOnlySource",
    "hostname">>
LandlockRules == <<"landlockRules">>
SyscallFilter == <<"syscallFilter">>
PrepareChild == <<"deathSignal", "privateProc">>
BrokerSetup == <<"cgroup">> \o NamespaceSetup \o LandlockRules \o SyscallFilter
ChildSetup == PrepareChild \o <<"noNewPrivileges", "landlock", "seccomp">>

VARIABLES
  cgroup,      \* "none", "ready", "removed"
  helper,      \* "prepare", "run", "answered", "dropped"
  broker,      \* "none", "setup", "spawn", "attest", "wait", "gone"
  child,       \* "none", "setup", "running", "gone"
  installed,   \* controls in force, in the order they were installed
  descendant,  \* a process started by the workload is running
  ran,         \* history: the workload has been executed
  ready,       \* the readiness file says so
  status,      \* how the broker ended: "none", "killed", "126", "workload"
  expired,     \* the deadline of the step has passed
  exceeded,    \* the output limit has been passed
  terminated,  \* the helper has killed the cgroup
  timed_out,
  answer

brokerVars == <<broker, child, installed, descendant, ran, ready, status>>
limitVars == <<expired, exceeded>>
helperVars == <<cgroup, helper, terminated, timed_out, answer>>
vars == <<brokerVars, limitVars, helperVars>>

Init ==
  /\ cgroup = "none" /\ helper = "prepare"
  /\ broker = "none" /\ child = "none" /\ installed = <<>>
  /\ descendant = FALSE /\ ran = FALSE /\ ready = FALSE /\ status = "none"
  /\ expired = FALSE /\ exceeded = FALSE
  /\ terminated = FALSE /\ timed_out = FALSE /\ answer = "none"

Installed(control) == \E i \in DOMAIN installed : installed[i] = control

-----------------------------------------------------------------------------
(***************************************************************************)
(* The helper.                                                             *)
(***************************************************************************)

\* Cgroup::create
Prepare ==
  /\ helper = "prepare" /\ cgroup = "none"
  /\ cgroup' = "ready"
  /\ UNCHANGED <<brokerVars, limitVars, helper, terminated, timed_out, answer>>

\* Cgroup::create fails; one that cannot be configured is removed.
PrepareFails ==
  /\ helper = "prepare" /\ cgroup = "none"
  /\ helper' = "answered" /\ answer' = "error"
  /\ UNCHANGED <<brokerVars, limitVars, cgroup, terminated, timed_out>>

\* LinuxSandbox::run: the readiness file, and the broker.
Run ==
  /\ helper = "prepare" /\ cgroup = "ready"
  /\ helper' = "run" /\ broker' = "setup"
  /\ UNCHANGED <<child, installed, descendant, ran, ready, status, limitVars,
                 cgroup, terminated, timed_out, answer>>

\* SIGKILL to the members of the cgroup; the workload is one once the broker
\* is, and with the broker it dies as well (PR_SET_PDEATHSIG, the first
\* process of a PID namespace).
KillBroker(how) ==
  /\ broker' = "gone" /\ status' = how
  /\ child' = IF child = "none" THEN "none" ELSE "gone"
  /\ descendant' = FALSE
  /\ UNCHANGED <<installed, ran, ready>>

KillCgroup ==
  IF broker # "gone" /\ Installed("cgroup") THEN KillBroker("killed")
  ELSE UNCHANGED brokerVars

\* run_command_with_termination: a limit is noticed while the broker runs.
Terminate ==
  /\ helper = "run" /\ broker # "gone" /\ ~terminated
  /\ expired \/ exceeded
  /\ terminated' = TRUE /\ timed_out' = expired
  /\ KillCgroup
  /\ UNCHANGED <<limitVars, cgroup, helper, answer>>

\* The broker has been waited for and its pipes have ended.
Return ==
  /\ helper = "run" /\ broker = "gone"
  /\ helper' = "answered"
  /\ answer' = IF timed_out \/ exceeded THEN "limit"
               ELSE IF ready THEN "exit" ELSE "error"
  /\ UNCHANGED <<brokerVars, limitVars, cgroup, terminated, timed_out>>

\* Drop of the Cgroup: kill, wait until it is empty, remove the directory.
Drop ==
  /\ helper = "answered"
  /\ helper' = "dropped"
  /\ cgroup' = IF cgroup = "ready" THEN "removed" ELSE cgroup
  /\ KillCgroup
  /\ UNCHANGED <<limitVars, terminated, timed_out, answer>>

Helper == Prepare \/ PrepareFails \/ Run \/ Terminate \/ Return \/ Drop

-----------------------------------------------------------------------------
(***************************************************************************)
(* The broker: run_broker and broker_exit.                                 *)
(***************************************************************************)

BrokerInstalls ==
  /\ broker = "setup" /\ Len(installed) < Len(BrokerSetup)
  /\ installed' = Append(installed, BrokerSetup[Len(installed) + 1])
  /\ UNCHANGED <<broker, child, descendant, ran, ready, status, limitVars,
                 helperVars>>

Fork ==
  /\ broker = "setup" /\ installed = BrokerSetup
  /\ broker' = "spawn" /\ child' = "setup"
  /\ UNCHANGED <<installed, descendant, ran, ready, status, limitVars, helperVars>>

\* The pre_exec closure.
ChildInstalls ==
  /\ child = "setup" /\ Len(installed) < Len(BrokerSetup \o ChildSetup)
  /\ installed' = Append(installed, (BrokerSetup \o ChildSetup)[Len(installed) + 1])
  /\ UNCHANGED <<broker, child, descendant, ran, ready, status, limitVars,
                 helperVars>>

\* spawn() returns once the child has executed its program.
Exec ==
  /\ child = "setup" /\ installed = BrokerSetup \o ChildSetup
  /\ child' = "running" /\ ran' = TRUE /\ broker' = "attest"
  /\ UNCHANGED <<installed, descendant, ready, status, limitVars, helperVars>>

Attest ==
  /\ broker = "attest"
  /\ ready' = TRUE /\ broker' = "wait"
  /\ UNCHANGED <<child, installed, descendant, ran, status, limitVars, helperVars>>

\* An operation of the broker or of its child fails: exit code 126.
BrokerFails ==
  /\ broker \in {"setup", "spawn", "attest"}
  /\ KillBroker("126")
  /\ UNCHANGED <<limitVars, helperVars>>

\* The workload's exit ends its PID namespace, and is the broker's.
WorkloadExits ==
  /\ child = "running"
  /\ child' = "gone" /\ descendant' = FALSE
  /\ UNCHANGED <<broker, installed, ran, ready, status, limitVars, helperVars>>

BrokerExits ==
  /\ broker = "wait" /\ child = "gone"
  /\ KillBroker("workload")
  /\ UNCHANGED <<limitVars, helperVars>>

WorkloadForks ==
  /\ child = "running" /\ ~descendant
  /\ descendant' = TRUE
  /\ UNCHANGED <<broker, child, installed, ran, ready, status, limitVars, helperVars>>

\* memory.oom.group: the kernel kills the whole cgroup, the broker included.
OutOfMemory ==
  /\ child = "running"
  /\ KillBroker("killed")
  /\ UNCHANGED <<limitVars, helperVars>>

Broker ==
  \/ BrokerInstalls \/ Fork \/ ChildInstalls \/ Exec \/ Attest \/ BrokerFails
  \/ WorkloadExits \/ BrokerExits \/ WorkloadForks \/ OutOfMemory

BrokerProceeds ==
  BrokerInstalls \/ Fork \/ ChildInstalls \/ Exec \/ Attest \/ BrokerExits

-----------------------------------------------------------------------------

Expire ==
  /\ ~expired /\ helper = "run"
  /\ expired' = TRUE
  /\ UNCHANGED <<brokerVars, exceeded, helperVars>>

Exceed ==
  /\ ~exceeded /\ child = "running"
  /\ exceeded' = TRUE
  /\ UNCHANGED <<brokerVars, expired, helperVars>>

Next == Helper \/ Broker \/ Expire \/ Exceed

Spec == Init /\ [][Next]_vars

\* The helper and the broker are scheduled and time passes; a workload may run
\* for ever.
FairSpec ==
  /\ Spec
  /\ WF_vars(Helper)
  /\ WF_vars(BrokerProceeds)
  /\ WF_vars(Expire)

-----------------------------------------------------------------------------

TypeOK ==
  /\ cgroup \in {"none", "ready", "removed"}
  /\ helper \in {"prepare", "run", "answered", "dropped"}
  /\ broker \in {"none", "setup", "spawn", "attest", "wait", "gone"}
  /\ child \in {"none", "setup", "running", "gone"}
  /\ installed \in Seq({BrokerSetup[i] : i \in DOMAIN BrokerSetup} \cup
                       {ChildSetup[i] : i \in DOMAIN ChildSetup})
  /\ descendant \in BOOLEAN /\ ran \in BOOLEAN /\ ready \in BOOLEAN
  /\ expired \in BOOLEAN /\ exceeded \in BOOLEAN
  /\ terminated \in BOOLEAN /\ timed_out \in BOOLEAN
  /\ status \in {"none", "killed", "126", "workload"}
  /\ answer \in {"none", "error", "limit", "exit"}

\* An exit is reported only of a workload that was executed under every
\* control, and never a status the broker itself failed with: broker_exit's
\* 126 always comes without the readiness file.
LinuxExitIsWorkloads == answer = "exit" => ran /\ status # "126"

\* A step that passed its deadline is answered for unless the deadline passed
\* before the broker had entered its cgroup, where the kill finds nobody.
LinuxReturns ==
  \/ <>(answer # "none")
  \/ <>[](terminated /\ broker # "gone")

LinuxSecured == installed = BrokerSetup \o ChildSetup
LinuxWorkload ==
  IF child = "running" \/ descendant THEN "running"
  ELSE IF ran THEN "gone" ELSE "none"
=============================================================================
