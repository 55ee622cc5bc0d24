-------------------------------- MODULE VmStep --------------------------------
(***************************************************************************)
(* One step of the macOS helper: the controller writes a request into a    *)
(* control directory, starts the shim under the step's time limit and      *)
(* decodes its answer (controller.rs); the shim verifies the image, starts *)
(* a virtual machine and waits for it (WorkflowVerifierVm.swift); in it    *)
(* the agent mounts, confines and supervises the workload under the same   *)
(* limit and publishes a response in the control directory (vm-agent).     *)
(*                                                                         *)
(* Two clocks run to the same limit: the controller's, which starts with   *)
(* the shim, and the agent's, which starts with the workload.              *)
(***************************************************************************)
EXTENDS Naturals

CONSTANT Limit     \* limits.cpu_seconds, for the controller and for the guest

VARIABLES
  controller,  \* "load", "request", "invoke", "decode", "returned"
  shim,        \* "none", "verify", "start", "wait", "exited", "failed", "killed"
  guest,       \* "off", "boot", "mounted", "rooted", "confined", "supervise",
               \* "publish", "stop", "stopped", "crashed"
  confined,    \* history: the workload's cgroup has been configured
  workload,    \* "none", "running", "gone"
  hostClock, guestClock,
  ending,      \* how the workload ended: "none", "zero", "failure", "signal"
  exceeded,    \* the guest has seen more output than the limit
  guestTimedOut,
  response,    \* what the control directory holds, NoResponse before the rename
  transport,   \* how run_command saw the shim: "none", "timed_out", "exit0", "exit5"
  control,     \* the control directory exists
  answer, reported \* the ProcessObservation: kind, and what it says of the workload

hostVars == <<controller, transport, control, answer, reported>>
guestVars == <<guest, confined, workload, ending, exceeded, guestTimedOut, response>>
clockVars == <<hostClock, guestClock>>
vars == <<hostVars, shim, guestVars, clockVars>>

NoResponse == [code |-> "none", timed_out |-> FALSE, exceeded |-> FALSE]
Responses == [code : {"none", "zero", "failure", "signal"},
              timed_out : BOOLEAN, exceeded : BOOLEAN]

Init ==
  /\ controller = "load" /\ shim = "none" /\ guest = "off" /\ confined = FALSE
  /\ workload = "none" /\ hostClock = 0 /\ guestClock = 0
  /\ ending = "none" /\ exceeded = FALSE /\ guestTimedOut = FALSE
  /\ response = NoResponse /\ transport = "none" /\ control = FALSE
  /\ answer = "none" /\ reported = NoResponse

-----------------------------------------------------------------------------
(***************************************************************************)
(* The controller: execute_vm_step.  The control directory goes with the   *)
(* ControlTree, however the call returns.                                  *)
(***************************************************************************)

Returns(kind, observation) ==
  /\ controller' = "returned" /\ control' = FALSE
  /\ answer' = kind /\ reported' = observation

\* MacSandbox::new: the image of the bundle is what its manifest says.
LoadBundle ==
  /\ controller = "load"
  /\ controller' = "request"
  /\ UNCHANGED <<transport, control, answer, reported, shim, guestVars, clockVars>>

\* ControlTree::create, request(), the file and the shim's process.
Invoke ==
  /\ controller = "request"
  /\ controller' = "invoke" /\ control' = TRUE /\ shim' = "verify"
  /\ UNCHANGED <<transport, answer, reported, guestVars, clockVars>>

\* One of them fails: no shim has been started.
InvokeFails ==
  /\ controller \in {"load", "request"}
  /\ Returns("error", NoResponse)
  /\ UNCHANGED <<transport, shim, guestVars, clockVars>>

\* The machine is the shim's: it does not outlive it.
PowerLost ==
  /\ guest' = IF guest = "off" THEN "off" ELSE "stopped"
  /\ workload' = IF workload = "running" THEN "gone" ELSE workload

\* run_command: the shim has ended ...
ShimEnded ==
  /\ controller = "invoke" /\ shim \in {"exited", "failed"}
  /\ controller' = "decode"
  /\ transport' = IF shim = "exited" THEN "exit0" ELSE "exit5"
  /\ UNCHANGED <<control, answer, reported, shim, guestVars, clockVars>>

\* A slip a maintainer could make: the workload's clock decides.
ShimKilled_GuestClock ==
  /\ controller = "invoke" /\ shim \notin {"exited", "failed"}
  /\ guestClock = Limit
  /\ controller' = "decode" /\ transport' = "timed_out" /\ shim' = "killed"
  /\ PowerLost
  /\ UNCHANGED <<control, answer, reported, confined, ending, exceeded, guestTimedOut,
                 response, clockVars>>

\* ... or the deadline is noticed first.
ShimKilled ==
  /\ controller = "invoke" /\ shim \notin {"exited", "failed"}
  /\ hostClock = Limit
  /\ controller' = "decode" /\ transport' = "timed_out" /\ shim' = "killed"
  /\ PowerLost
  /\ UNCHANGED <<control, answer, reported, confined, ending, exceeded, guestTimedOut,
                 response, clockVars>>

\* decode_transport
Decode ==
  /\ controller = "decode"
  /\ \/ transport = "timed_out"
        /\ Returns("limit", [NoResponse EXCEPT !.timed_out = TRUE])
     \/ transport = "exit5" /\ Returns("error", NoResponse)
     \/ /\ transport = "exit0"
        /\ IF response.timed_out /\ response.exceeded
           THEN Returns("error", NoResponse)
           ELSE Returns(IF response.timed_out \/ response.exceeded
                        THEN "limit" ELSE "exit", response)
  /\ UNCHANGED <<transport, shim, guestVars, clockVars>>

Controller == LoadBundle \/ Invoke \/ InvokeFails \/ ShimEnded \/ ShimKilled \/ Decode

-----------------------------------------------------------------------------
(***************************************************************************)
(* The shim.                                                               *)
(***************************************************************************)

\* decodeRequest and configuration(): the image is what its manifest says.
Verify ==
  /\ shim = "verify"
  /\ shim' = "start"
  /\ UNCHANGED <<hostVars, guestVars, clockVars>>

StartMachine ==
  /\ shim = "start"
  /\ shim' = "wait" /\ guest' = "boot"
  /\ UNCHANGED <<hostVars, confined, workload, ending, exceeded, guestTimedOut, response,
                 clockVars>>

\* The request or the image is refused, the machine does not start in thirty
\* seconds, it stopped with an error, or it does not stop within the limit and
\* fifteen seconds more: exit(5), and the machine ends with its process.
ShimFails ==
  /\ \/ shim \in {"verify", "start"}
     \/ shim = "wait" /\ (guest = "crashed" \/ hostClock = Limit)
  /\ shim' = "failed"
  /\ PowerLost
  /\ UNCHANGED <<hostVars, confined, ending, exceeded, guestTimedOut, response, clockVars>>

\* The guest has stopped: validatedObservation() needs a response.
Respond ==
  /\ shim = "wait" /\ guest \in {"stopped", "crashed"}
  /\ shim' = IF response = NoResponse THEN "failed" ELSE "exited"
  /\ UNCHANGED <<hostVars, guestVars, clockVars>>

Shim == Verify \/ StartMachine \/ ShimFails \/ Respond

-----------------------------------------------------------------------------
(***************************************************************************)
(* The guest: the agent's run(), process 1 of the machine.                 *)
(***************************************************************************)

Advances(from, to) ==
  /\ guest = from /\ guest' = to
  /\ UNCHANGED <<hostVars, shim, ending, exceeded, guestTimedOut, response,
                 clockVars>>

MountFilesystems == Advances("boot", "mounted") /\ UNCHANGED <<confined, workload>>

EnterRootfs == Advances("mounted", "rooted") /\ UNCHANGED <<confined, workload>>

ConfigureCgroup ==
  Advances("rooted", "confined") /\ confined' = TRUE /\ UNCHANGED workload

\* The workload enters its cgroup before it executes.
StartWorkload ==
  Advances("confined", "supervise") /\ workload' = "running" /\ UNCHANGED confined

\* An operation of the agent fails: process 1 ends and the kernel panics.
AgentFails ==
  /\ guest \in {"boot", "mounted", "rooted", "confined", "supervise", "publish", "stop"}
  /\ guest' = "crashed"
  /\ workload' = IF workload = "running" THEN "gone" ELSE workload
  /\ UNCHANGED <<hostVars, shim, confined, ending, exceeded, guestTimedOut, response,
                 clockVars>>

WorkloadEnds ==
  /\ guest = "supervise" /\ workload = "running"
  /\ workload' = "gone" /\ ending' \in {"zero", "failure"}
  /\ UNCHANGED <<hostVars, shim, guest, confined, exceeded, guestTimedOut, response,
                 clockVars>>

OutputExceeds ==
  /\ guest = "supervise" /\ workload = "running" /\ ~exceeded
  /\ exceeded' = TRUE
  /\ UNCHANGED <<hostVars, shim, guest, confined, workload, ending, guestTimedOut,
                 response, clockVars>>

\* run_command_with_termination with kill_workload, over either limit.
KillWorkload ==
  /\ guest = "supervise" /\ workload = "running"
  /\ guestClock = Limit \/ exceeded
  /\ workload' = "gone" /\ ending' = "signal"
  /\ guestTimedOut' = (guestClock = Limit)
  /\ UNCHANGED <<hostVars, shim, guest, confined, exceeded, response, clockVars>>

Observed ==
  /\ guest = "supervise" /\ workload = "gone"
  /\ guest' = "publish"
  /\ UNCHANGED <<hostVars, shim, confined, workload, ending, exceeded, guestTimedOut,
                 response, clockVars>>

\* write_observation: written beside, synchronised and renamed.
Publish ==
  /\ guest = "publish" /\ control
  /\ guest' = "stop"
  /\ response' = [code |-> ending, timed_out |-> guestTimedOut, exceeded |-> exceeded]
  /\ UNCHANGED <<hostVars, shim, confined, workload, ending, exceeded, guestTimedOut,
                 clockVars>>

PowerOff ==
  /\ guest = "stop"
  /\ guest' = "stopped"
  /\ UNCHANGED <<hostVars, shim, confined, workload, ending, exceeded, guestTimedOut,
                 response, clockVars>>

Guest ==
  \/ MountFilesystems \/ EnterRootfs \/ ConfigureCgroup \/ StartWorkload \/ AgentFails \/ WorkloadEnds \/ OutputExceeds
  \/ KillWorkload \/ Observed \/ Publish \/ PowerOff

-----------------------------------------------------------------------------

Counting(clock) == IF clock < Limit THEN clock + 1 ELSE clock

Tick ==
  /\ hostClock' = IF controller = "invoke" THEN Counting(hostClock) ELSE hostClock
  /\ guestClock' = IF guest = "supervise" THEN Counting(guestClock) ELSE guestClock
  /\ clockVars' # clockVars
  /\ UNCHANGED <<hostVars, shim, guestVars>>

Next == Controller \/ Shim \/ Guest \/ Tick

Spec == Init /\ [][Next]_vars

\* Time passes and the controller is scheduled; the machine may hang anywhere.
FairSpec == Spec /\ WF_vars(Controller) /\ WF_vars(Tick)

-----------------------------------------------------------------------------

TypeOK ==
  /\ controller \in {"load", "request", "invoke", "decode", "returned"}
  /\ shim \in {"none", "verify", "start", "wait", "exited", "failed", "killed"}
  /\ guest \in {"off", "boot", "mounted", "rooted", "confined", "supervise",
                "publish", "stop", "stopped", "crashed"}
  /\ workload \in {"none", "running", "gone"}
  /\ hostClock \in 0 .. Limit /\ guestClock \in 0 .. Limit
  /\ ending \in {"none", "zero", "failure", "signal"}
  /\ confined \in BOOLEAN /\ exceeded \in BOOLEAN
  /\ guestTimedOut \in BOOLEAN /\ control \in BOOLEAN
  /\ response \in Responses /\ reported \in Responses
  /\ transport \in {"none", "timed_out", "exit0", "exit5"}
  /\ answer \in {"none", "error", "limit", "exit"}

\* What is reported of the workload is what the agent observed, and a limit is
\* reported only when a clock ran out or the output was too long: a response
\* left in the directory by a guest that was cut off is not taken for one.
VmAnswerIsGuests ==
  /\ answer = "exit" =>
       /\ reported.code = ending /\ ending \in {"zero", "failure"}
       /\ ~guestTimedOut /\ ~exceeded
  /\ answer = "limit" /\ ~reported.timed_out => reported.exceeded /\ exceeded
  /\ reported.timed_out => hostClock = Limit

\* The controller answers, whatever the machine does.
VmReturns == <>(answer # "none")

VmSecured == confined
=============================================================================
