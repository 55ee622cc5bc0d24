------------------------------ MODULE NativeStep ------------------------------
(***************************************************************************)
(* One step of execute_native on whichever operating system the helper was *)
(* built for: the three adapters behind NativeSandbox, of which a build    *)
(* has one.  The variables of the adapters it does not have stay as they   *)
(* are; a name two adapters use is one variable.                           *)
(***************************************************************************)
EXTENDS WindowsStep

CONSTANT Limit       \* VmStep's

ASSUME NativeAssumption == Limit \in Nat

VARIABLES
  platform,          \* "windows", "linux" or "macos", by the build
  cgroup, helper, broker, installed, descendant, ran, ready, status, exceeded,
  terminated,        \* LinuxStep's
  controller, shim, guest, confined, workload, hostClock, guestClock, ending,
  guestTimedOut, response, transport, control, reported   \* VmStep's

L == INSTANCE LinuxStep
V == INSTANCE VmStep

windowsOnly == <<stage, applied, in_job, inspected, background, resumed, fileVars,
                 output_exceeded, output_bytes, captured, outlived>>
linuxOnly == <<cgroup, helper, broker, installed, descendant, ran, ready, status,
               terminated>>
macosOnly == <<controller, shim, guest, confined, workload, hostClock, guestClock, ending,
               guestTimedOut, response, transport, control, reported>>
nativeVars == <<platform, vars, linuxOnly, exceeded, macosOnly>>

NativeInit ==
  /\ platform \in {"windows", "linux", "macos"}
  /\ Init /\ L!Init /\ V!Init

OnWindows(A) == platform = "windows" /\ A
                  /\ UNCHANGED <<platform, linuxOnly, exceeded, macosOnly>>
OnLinux(A) == platform = "linux" /\ A /\ UNCHANGED <<platform, windowsOnly, macosOnly>>
OnMacos(A) == platform = "macos" /\ A
                /\ UNCHANGED <<platform, windowsOnly, linuxOnly, child, expired, timed_out>>

NativeNext == OnWindows(Next) \/ OnLinux(L!Next) \/ OnMacos(V!Next)

\* The fairness of the adapters: the processes of the helper are scheduled and
\* time passes; a workload and a virtual machine may run for ever.
NativeSpec ==
  /\ NativeInit /\ [][NativeNext]_nativeVars
  /\ WF_nativeVars(OnLinux(L!Helper))
  /\ WF_nativeVars(OnLinux(L!BrokerProceeds))
  /\ WF_nativeVars(OnLinux(L!Expire))
  /\ WF_nativeVars(OnMacos(V!Controller))
  /\ WF_nativeVars(OnMacos(V!Tick))

-----------------------------------------------------------------------------

\* What an adapter answers is what its workload did: on Windows the output
\* that is counted and the bytes that are kept are the workload's, up to the
\* limit; on Linux an exit is reported only of a workload that was executed
\* under every control, never a status the broker itself failed with, as
\* broker_exit's 126 comes without the readiness file; on macOS decode_transport
\* reports what the agent observed in the guest, whichever clock runs out.
AnswersAreExact ==
  CASE platform = "windows" -> TypeOK /\ WindowsOutputExact
    [] platform = "linux" -> L!TypeOK /\ L!LinuxExitIsWorkloads
    [] platform = "macos" -> V!TypeOK /\ V!VmAnswerIsGuests

Secured ==
  IF platform = "windows" THEN WindowsSecured
  ELSE IF platform = "linux" THEN L!LinuxSecured ELSE V!VmSecured
Workload ==
  IF platform = "windows" THEN WindowsWorkload
  ELSE IF platform = "linux" THEN L!LinuxWorkload ELSE workload

Contained == INSTANCE ContainedStep WITH secured <- Secured, workload <- Workload

\* Every adapter implements ContainedStep: the workload runs only while all
\* controls are in force, and is answered for once, when nothing of it runs.
AdaptersContain == Contained!Spec

\* A step is answered for on Linux unless its deadline passed before the
\* broker entered its cgroup, where the kill finds nobody; on macOS whatever
\* the machine does.
AdaptersReturn ==
  /\ platform = "linux" => L!LinuxReturns
  /\ platform = "macos" => V!VmReturns
=============================================================================
