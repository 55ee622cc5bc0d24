------------------------------ MODULE WindowsStep ------------------------------
(***************************************************************************)
(* The Windows helper (helpers/windows, platform.rs): WindowsSandbox::     *)
(* prepare, then run_process for one step.  The process is created         *)
(* suspended, put into a private job, inspected, and only then resumed;    *)
(* its output goes to one file, whose handle, and therefore whose file     *)
(* position, it shares with the helper; every call of the platform may     *)
(* fail; what the job holds dies with its last handle.                     *)
(***************************************************************************)
EXTENDS Naturals, Sequences

CONSTANTS
  SourceNodes,     \* entries of the private source copy, in walk order
  ScratchNodes,    \* entries of the scratch directory, in walk order
  OutputLimit,     \* limits.output_bytes
  MaxBytes         \* bound on the bytes written

ASSUME WindowsAssumption ==
  /\ SourceNodes \in Nat \ {0} /\ ScratchNodes \in Nat \ {0}
  /\ OutputLimit \in Nat /\ MaxBytes \in Nat

VARIABLES
  stage,       \* where the helper is
  applied,     \* operations of prepare() done so far
  child,       \* "none", "suspended", "running", "exited"
  in_job,      \* the process has been assigned to the job
  inspected,   \* verify_restricted_appcontainer accepted it
  background,  \* a descendant of the process is running
  resumed,     \* history: the process has run
  outlived,    \* history: a descendant was running when the wait ended
  length,      \* length of the output file
  position,    \* the shared file position
  overwritten, \* history: a write hit bytes written before
  expired,     \* the deadline has passed
  timed_out, output_exceeded, output_bytes, captured, \* the observation
  answer

processVars == <<child, in_job, inspected, background, resumed>>
fileVars == <<length, position, overwritten>>
observationVars == <<timed_out, output_exceeded, output_bytes, captured, outlived>>
vars == <<stage, applied, processVars, fileVars, expired, observationVars, answer>>

Init ==
  /\ stage = "prepare" /\ applied = {}
  /\ child = "none" /\ in_job = FALSE /\ inspected = FALSE
  /\ background = FALSE /\ resumed = FALSE /\ outlived = FALSE
  /\ length = 0 /\ position = 0 /\ overwritten = FALSE
  /\ expired = FALSE
  /\ timed_out = FALSE /\ output_exceeded = FALSE
  /\ output_bytes = 0 /\ captured = 0
  /\ answer = "none"

-----------------------------------------------------------------------------
(***************************************************************************)
(* prepare(): the controls, one platform call after the other.             *)
(***************************************************************************)

\* update_tree_acl and label_writable_tree visit a directory, then its entries.
OverTree(operation, nodes) == [n \in 1 .. nodes |-> <<operation, n>>]

Profile == <<<<"profileMutex", 0>>, <<"profile", 0>>, <<"sid", 0>>>>
RestrictedToken == <<<<"token", 0>>, <<"privileges", 0>>>>
AuthorizeSource ==
  OverTree("allowRead", SourceNodes) \o OverTree("denyMutation", SourceNodes)
LabelScratch ==
  OverTree("lowIntegrity", ScratchNodes) \o OverTree("allowAll", ScratchNodes)
JobLimits == <<<<"jobLimits", 0>>>>

Preparation ==
  Profile \o RestrictedToken \o AuthorizeSource \o LabelScratch \o JobLimits

\* Closing the last handle of the job kills what is in it; TerminateProcess
\* takes a suspended process that never got there.
Finish(result) ==
  /\ stage' = "returned" /\ answer' = result
  /\ child' = IF child = "none" THEN "none" ELSE "exited"
  /\ background' = FALSE
  /\ UNCHANGED <<in_job, inspected, resumed>>

Prepare ==
  /\ stage = "prepare"
  /\ \E i \in DOMAIN Preparation :
        /\ {Preparation[j] : j \in 1 .. i - 1} = applied
        /\ applied' = applied \cup {Preparation[i]}
        /\ stage' = IF i = Len(Preparation) THEN "launch" ELSE "prepare"
  /\ UNCHANGED <<processVars, fileVars, expired, observationVars, answer>>

\* Any of the calls of prepare() fails.
Refuse ==
  /\ stage = "prepare"
  /\ Finish("error")
  /\ UNCHANGED <<applied, fileVars, expired, observationVars>>

\* Any resource run_process needs before the process exists: the job, the output
\* file, the null input, the attribute list, the command line, the environment,
\* and CreateProcessAsUserW itself.
LaunchFails ==
  /\ stage = "launch"
  /\ Finish("error")
  /\ UNCHANGED <<applied, fileVars, expired, observationVars>>

-----------------------------------------------------------------------------
(***************************************************************************)
(* run_process                                                             *)
(***************************************************************************)

\* CreateProcessAsUserW(.. CREATE_SUSPENDED ..)
Create ==
  /\ stage = "launch"
  /\ stage' = "assign" /\ child' = "suspended"
  /\ UNCHANGED <<applied, in_job, inspected, background, resumed, fileVars,
                 expired, observationVars, answer>>

Assign ==
  /\ stage = "assign"
  /\ stage' = "inspect" /\ in_job' = TRUE
  /\ UNCHANGED <<applied, child, inspected, background, resumed, fileVars,
                 expired, observationVars, answer>>

Inspect ==
  /\ stage = "inspect"
  /\ stage' = "resume" /\ inspected' = TRUE
  /\ UNCHANGED <<applied, child, in_job, background, resumed, fileVars,
                 expired, observationVars, answer>>

\* A slip a maintainer could make: resumed before it is inspected.
Resume_Early ==
  /\ stage \in {"inspect", "resume"}
  /\ stage' = "wait" /\ child' = "running" /\ resumed' = TRUE
  /\ UNCHANGED <<applied, in_job, inspected, background, fileVars, expired,
                 observationVars, answer>>

Resume ==
  /\ stage = "resume"
  /\ stage' = "wait" /\ child' = "running" /\ resumed' = TRUE
  /\ UNCHANGED <<applied, in_job, inspected, background, fileVars, expired,
                 observationVars, answer>>

\* AssignProcessToJobObject, the inspection, ResumeThread, the wait, the
\* termination, the exit code or the file fails.
Fail ==
  /\ stage \in {"assign", "inspect", "resume", "wait", "terminate", "length", "read"}
  /\ Finish("error")
  /\ UNCHANGED <<applied, fileVars, expired, observationVars>>

\* WAIT_OBJECT_0: the process has ended; its descendants may run on.
WaitObject ==
  /\ stage = "wait" /\ child = "exited"
  /\ stage' = "length"
  /\ output_exceeded' = (length > OutputLimit)
  /\ timed_out' = expired
  /\ outlived' = background
  /\ UNCHANGED <<applied, processVars, fileVars, expired, output_bytes,
                 captured, answer>>

\* WAIT_TIMEOUT, and a limit passed: what was seen is noted before the job is
\* terminated, and the workload writes on in between.
WaitTimeout ==
  /\ stage = "wait"
  /\ expired \/ length > OutputLimit
  /\ stage' = "terminate"
  /\ output_exceeded' = (length > OutputLimit)
  /\ timed_out' = expired
  /\ UNCHANGED <<applied, processVars, fileVars, expired, output_bytes,
                 captured, outlived, answer>>

\* A slip a maintainer could make: the process is terminated, its job is not.
TerminateJob_ProcessAlone ==
  /\ stage = "terminate"
  /\ stage' = "length" /\ child' = "exited"
  /\ UNCHANGED <<applied, in_job, inspected, background, resumed, fileVars, expired,
                 timed_out, output_exceeded, output_bytes, captured, outlived, answer>>

\* TerminateJobObject takes the process and all its descendants.
TerminateJob ==
  /\ stage = "terminate"
  /\ stage' = "length" /\ child' = "exited" /\ background' = FALSE
  /\ UNCHANGED <<applied, in_job, inspected, resumed, fileVars, expired, timed_out,
                 output_exceeded, output_bytes, captured, outlived, answer>>

\* output.length(), and the seek that read() begins with.
MeasureAndSeek ==
  /\ stage = "length"
  /\ stage' = "read"
  /\ output_bytes' = length
  /\ position' = 0
  /\ UNCHANGED <<applied, processVars, length, overwritten, expired, timed_out,
                 output_exceeded, captured, outlived, answer>>

AtMost(n, limit) == IF n <= limit THEN n ELSE limit

ReadOutput ==
  /\ stage = "read"
  /\ captured' = AtMost(length, OutputLimit)
  /\ position' = AtMost(length, OutputLimit)
  /\ Finish(IF timed_out \/ output_exceeded THEN "limit" ELSE "exit")
  /\ UNCHANGED <<applied, length, overwritten, expired, timed_out,
                 output_exceeded, output_bytes, outlived>>

-----------------------------------------------------------------------------
(***************************************************************************)
(* The workload, and time.                                                 *)
(***************************************************************************)

Running == child = "running" \/ background

\* A write goes where the shared position is.
Write ==
  /\ Running
  /\ length < MaxBytes
  /\ length' = IF position < length THEN length ELSE position + 1
  /\ position' = position + 1
  /\ overwritten' = (overwritten \/ position < length)
  /\ UNCHANGED <<stage, applied, processVars, expired, observationVars, answer>>

Fork ==
  /\ child = "running" /\ ~background
  /\ background' = TRUE
  /\ UNCHANGED <<stage, applied, child, in_job, inspected, resumed, fileVars,
                 expired, observationVars, answer>>

Exit ==
  /\ \/ child = "running" /\ child' = "exited" /\ UNCHANGED background
     \/ background /\ background' = FALSE /\ UNCHANGED child
  /\ UNCHANGED <<stage, applied, in_job, inspected, resumed, fileVars, expired,
                 observationVars, answer>>

Expire ==
  /\ ~expired /\ resumed
  /\ expired' = TRUE
  /\ UNCHANGED <<stage, applied, processVars, fileVars, observationVars, answer>>

Helper ==
  \/ Prepare \/ Refuse \/ LaunchFails \/ Create \/ Assign \/ Inspect \/ Resume \/ Fail
  \/ WaitObject \/ WaitTimeout \/ TerminateJob \/ MeasureAndSeek \/ ReadOutput

Next == Helper \/ Write \/ Fork \/ Exit \/ Expire

Spec == Init /\ [][Next]_vars

-----------------------------------------------------------------------------

TypeOK ==
  /\ stage \in {"prepare", "launch", "assign", "inspect", "resume", "wait",
                "terminate", "length", "read", "returned"}
  /\ applied \subseteq {Preparation[i] : i \in DOMAIN Preparation}
  /\ child \in {"none", "suspended", "running", "exited"}
  /\ in_job \in BOOLEAN /\ inspected \in BOOLEAN /\ background \in BOOLEAN
  /\ resumed \in BOOLEAN /\ outlived \in BOOLEAN /\ overwritten \in BOOLEAN
  /\ expired \in BOOLEAN /\ timed_out \in BOOLEAN /\ output_exceeded \in BOOLEAN
  /\ length \in Nat /\ position \in Nat /\ output_bytes \in Nat /\ captured \in Nat
  /\ answer \in {"none", "error", "limit", "exit"}

\* The observation returned is exact unless a descendant outlived the process:
\* the bytes are counted and kept as they were written, none was overwritten,
\* and the flag says whether they were too many, except that a step over its
\* time may have passed the other limit after the flag was taken (run_process,
\* supervise_process, OutputFile::read).  A descendant that runs on may write
\* after the flag was taken, and where the helper has moved the shared position.
WindowsOutputExact ==
  answer \in {"limit", "exit"} /\ ~outlived =>
    /\ output_bytes = length
    /\ output_exceeded => length > OutputLimit
    /\ length > OutputLimit => output_exceeded \/ timed_out
    /\ captured = AtMost(length, OutputLimit)
    /\ ~overwritten

WindowsSecured ==
  applied = {Preparation[i] : i \in DOMAIN Preparation} /\ in_job /\ inspected
WindowsWorkload ==
  IF Running THEN "running" ELSE IF resumed THEN "gone" ELSE "none"
=============================================================================
