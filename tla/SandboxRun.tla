------------------------------ MODULE SandboxRun ------------------------------
(***************************************************************************)
(* `sandbox run` (application::sandbox_run) with everything it sets in     *)
(* motion: the command line captures and analyses the source tree, starts  *)
(* a helper under its supervisor's clock and checks the evidence it gets   *)
(* back; the helper verifies the tree, copies it, runs the planned steps   *)
(* one by one and records what they did; somebody may edit the tree at any *)
(* moment; a step may run for ever.                                        *)
(*                                                                         *)
(* A native helper (helper_runtime::execute_native_with_exclusions) shows  *)
(* its steps a private copy of the source, the OCI helper mounts the tree  *)
(* itself.  How one step is run under its limits is the module RunCommand, *)
(* how the helper is supervised SuperviseProcess; here each is one step    *)
(* with the outcomes found there.  Clocks stop counting at WallLimit, as   *)
(* nothing compares them with more.                                        *)
(***************************************************************************)
EXTENDS RunnerProtocol

CONSTANTS
  FileCount,     \* files of the tree, read in path order
  Contents,      \* what a file may contain
  NumSteps,      \* planned steps
  WallLimit,     \* limits.cpu_seconds, for a step and for the helper alike
  Touched,       \* paths of the scratch tree that steps may write or delete
  Backend,       \* "linux", "windows", "macos" (the native ones) or "oci"
  InputFits      \* the pipe to the helper holds the whole plan

ASSUME SandboxAssumption ==
  /\ FileCount \in Nat \ {0} /\ NumSteps \in Nat \ {0}
  /\ WallLimit \in Nat \ {0}
  /\ Contents # {}
  /\ Backend \in {"linux", "windows", "macos", "oci"}
  /\ InputFits \in BOOLEAN

Files == 1 .. FileCount
Steps == 1 .. NumSteps
Tree == [Files -> Contents]

VARIABLES
  source,      \* the tree on disk
  walk,        \* the files the snapshot under way has read, in path order
  planned,     \* the tree that was analysed and whose digest the plan binds
  revealing,   \* steps whose argv contains the value of a granted secret
  cli,         \* where the command line is
  exit_code,
  elapsed,     \* the supervisor's clock
  helper,      \* where the helper is
  baseline,    \* the helper's own snapshot
  view,        \* the private copy of the source
  step,        \* the step being run, or run last
  lasted,      \* that step's clock
  workload,    \* its processes are running
  evidence,    \* Evidence::events
  outcome,
  observed,    \* history: the <<file, content>> pairs the steps have read
  endings      \* history: how each step ended

sourceVars == <<source>>
planVars == <<planned, revealing>>
cliVars == <<cli, exit_code>>
clockVars == <<elapsed, lasted>>
stepVars == <<step, workload, evidence, outcome>>
historyVars == <<observed, endings>>
vars == <<sourceVars, walk, planVars, cliVars, clockVars, helper, baseline,
          view, stepVars, historyVars>>

NoTree == <<>>

Init ==
  /\ source \in Tree
  /\ walk = <<>> /\ planned = NoTree /\ revealing = {}
  /\ cli = "capture" /\ exit_code = "none" /\ elapsed = 0
  /\ helper = "off" /\ baseline = NoTree /\ view = NoTree
  /\ step = 0 /\ lasted = 0 /\ workload = FALSE
  /\ evidence = <<>> /\ outcome = "completed"
  /\ observed = {} /\ endings = <<>>

-----------------------------------------------------------------------------
(***************************************************************************)
(* The world: an editor, and time.                                         *)
(***************************************************************************)

Edit(f, c) ==
  /\ source[f] # c
  /\ source' = [source EXCEPT ![f] = c]
  /\ UNCHANGED <<walk, planVars, cliVars, clockVars, helper, baseline, view,
                 stepVars, historyVars>>

Counting(clock) == IF clock < WallLimit THEN clock + 1 ELSE clock

Tick ==
  /\ elapsed' = IF cli \in {"look", "kill"} THEN Counting(elapsed) ELSE elapsed
  /\ lasted' = IF helper = "running" THEN Counting(lasted) ELSE lasted
  /\ clockVars' # clockVars
  /\ UNCHANGED <<sourceVars, walk, planVars, cliVars, helper, baseline, view,
                 stepVars, historyVars>>

-----------------------------------------------------------------------------
(***************************************************************************)
(* source_snapshot_with_exclusions: the files are read one after the other *)
(* while the tree may change.                                              *)
(***************************************************************************)

Walking == cli = "capture" \/ helper \in {"baseline", "source", "scratch"}

ReadFile ==
  /\ Walking
  /\ Len(walk) < FileCount
  /\ walk' = Append(walk, source[Len(walk) + 1])
  /\ UNCHANGED <<sourceVars, planVars, cliVars, clockVars, helper, baseline,
                 view, stepVars, historyVars>>

\* The snapshot is complete; the next one will start afresh.
Walked ==
  /\ Len(walk) = FileCount
  /\ walk' = <<>>

-----------------------------------------------------------------------------
(***************************************************************************)
(* The helper.                                                             *)
(***************************************************************************)

Moves(from, to) ==
  /\ helper = from
  /\ helper' = to

\* helper_main: the plan is read to the end of the input before anything else.
ReadPlan ==
  /\ Moves("reading", "baseline")
  /\ UNCHANGED <<sourceVars, walk, planVars, cliVars, clockVars, baseline, view,
                 stepVars, historyVars>>

\* A slip a maintainer could make: any tree will do.
Verify_AnySource ==
  /\ Walked
  /\ Moves("baseline", IF Backend # "oci" THEN "source" ELSE "scratch")
  /\ baseline' = walk
  /\ UNCHANGED <<sourceVars, planVars, cliVars, clockVars, view, stepVars,
                 historyVars>>

\* The helper's snapshot must have the digest the plan was made for.
Verify ==
  /\ Walked
  /\ Moves("baseline", IF walk # planned THEN "refused"
                       ELSE IF Backend # "oci" THEN "source" ELSE "scratch")
  /\ baseline' = walk
  /\ UNCHANGED <<sourceVars, planVars, cliVars, clockVars, view, stepVars,
                 historyVars>>

\* PrivateSourceTree::prepare_in: private_copy reads the tree again and
\* refuses one that has changed; what it writes is the baseline in memory.
CopySource ==
  /\ Walked
  /\ Moves("source", IF walk # baseline THEN "refused" ELSE "scratch")
  /\ view' = IF walk # baseline THEN view ELSE baseline
  /\ UNCHANGED <<sourceVars, planVars, cliVars, clockVars, baseline, stepVars,
                 historyVars>>

\* ScratchTree::prepare_in: the same for the directory the steps write to.
CopyScratch ==
  /\ Walked
  /\ Moves("scratch", IF walk # baseline THEN "refused" ELSE "prepare")
  /\ UNCHANGED <<sourceVars, planVars, cliVars, clockVars, baseline, view,
                 stepVars, historyVars>>

(* The plan, as far as evidence is bound to it: its digest also stands for *)
(* the argv of the steps.                                                  *)
Asked == Controls(Backend, FALSE)
SourceDigest(tree) == [tree |-> tree, written |-> {}, deleted |-> {}]
ThePlan ==
  [digest |-> <<planned, revealing>>,
   source |-> SourceDigest(planned), backend |-> Backend, controls |-> Asked,
   steps |-> NumSteps, complete |-> TRUE]

\* sandbox.prepare, the attestations of the backend and of its controls.
Prepare ==
  /\ Moves("prepare", "next")
  /\ evidence' = <<[kind |-> "backend", id |-> Backend, controls |-> Asked],
                  [kind |-> "controls", names |-> Asked]>>
  /\ UNCHANGED <<sourceVars, walk, planVars, cliVars, clockVars, baseline,
                 view, step, workload, outcome, historyVars>>

\* The loop over the steps: ProcessStarted is recorded, with the argv redacted
\* by a native helper, and the step's process is started.
StartStep ==
  /\ step < NumSteps
  /\ Moves("next", "running")
  /\ step' = step + 1
  /\ lasted' = 0
  /\ workload' = TRUE
  /\ evidence' = Append(evidence,
       [kind |-> "start", step |-> step',
        redacted |-> Backend # "oci" /\ step' \in revealing])
  /\ UNCHANGED <<sourceVars, walk, planVars, cliVars, elapsed, baseline, view,
                 outcome, historyVars>>

\* A running step reads a file of what it is given as the source.
StepReads(f) ==
  /\ workload
  /\ observed' = observed \cup
       {<<f, IF Backend # "oci" THEN view[f] ELSE source[f]>>}
  /\ UNCHANGED <<sourceVars, walk, planVars, cliVars, clockVars, helper,
                 baseline, view, stepVars, endings>>

Endings == {"completed", "stepFailed", "timedOut", "outputLimitExceeded"}

\* observation_outcome: the clock before the limit, and that before the code,
\* which is 0 or stands for any other and for none.
ExitCodes == [completed |-> {0}, stepFailed |-> {1},
              timedOut |-> {0, 1}, outputLimitExceeded |-> {0, 1}]

\* A slip a maintainer could make: a failing step does not end the run.
EndStep_CarriesOn(how, code) ==
  /\ how = "timedOut" => lasted = WallLimit
  /\ Moves("running", "next")
  /\ workload' = (Backend = "oci" /\ how \in {"timedOut", "outputLimitExceeded"})
  /\ evidence' = Append(evidence, [kind |-> "exit", code |-> code])
  /\ outcome' = how
  /\ endings' = Append(endings, how)
  /\ UNCHANGED <<sourceVars, walk, planVars, cliVars, clockVars, baseline,
                 view, step, observed>>

\* The process's observation: what is recorded of it, the outcome, and an early
\* end of the loop unless it is `Completed`.  Killing a native step kills its
\* cgroup; killing the OCI client leaves the container running.
EndStep(how, code) ==
  /\ how = "timedOut" => lasted = WallLimit
  /\ Moves("running", IF how = "completed" THEN "next" ELSE "finish")
  /\ workload' = (Backend = "oci" /\ how \in {"timedOut", "outputLimitExceeded"})
  /\ evidence' = Append(evidence, [kind |-> "exit", code |-> code])
  /\ outcome' = how
  /\ endings' = Append(endings, how)
  /\ UNCHANGED <<sourceVars, walk, planVars, cliVars, clockVars, baseline,
                 view, step, observed>>

StepEnds == \E how \in Endings : \E code \in ExitCodes[how] : EndStep(how, code)

\* What is recorded of the paths that are not as in the baseline.
Changes(written, deleted) == [kind |-> "changes", written |-> written, deleted |-> deleted]

\* finalize_native_run, after the last step or the first one that did not
\* complete: the scratch tree is read once, for its changes and its digest;
\* with the closing records the evidence is printed, and the helper exits with 0.
Finish(written, deleted) ==
  /\ helper = "finish" \/ (helper = "next" /\ step = NumSteps)
  /\ helper' = "succeeded"
  /\ evidence' = evidence \o
       <<Changes(written, deleted),
         [kind |-> "resource", value |-> step],
         [kind |-> "log", value |-> 1 .. step],
         [kind |-> "final",
          value |-> [tree |-> planned, written |-> written, deleted |-> deleted]]>>
  /\ UNCHANGED <<sourceVars, walk, planVars, cliVars, clockVars, baseline,
                 view, step, workload, outcome, historyVars>>

RunFinishes ==
  \E written \in SUBSET Touched : \E deleted \in SUBSET (Touched \ written) :
     Finish(written, deleted)

\* Any operation of the helper may fail: it exits with 2 or 5, no result
\* printed.  A native step's cgroup is killed once more as it is dropped.
Fail ==
  /\ helper \in {"reading", "baseline", "source", "scratch", "prepare", "next", "running",
                 "finish"}
  /\ helper' = "refused"
  /\ walk' = <<>>
  /\ workload' = (Backend = "oci" /\ workload)
  /\ UNCHANGED <<sourceVars, planVars, cliVars, clockVars, baseline, view,
                 step, evidence, outcome, historyVars>>

HelperStep ==
  \/ (helper # "off" /\ ReadFile)
  \/ ReadPlan \/ Verify \/ CopySource \/ CopyScratch \/ Prepare
  \/ StartStep \/ StepEnds \/ RunFinishes \/ Fail

-----------------------------------------------------------------------------
\* What the helper prints and what the command line makes of it: RunResult's
\* parse, then validate_for_plan.
Printed == EvidenceFor(ThePlan, evidence)
Accepted(document) == Parses(document) /\ ValidForPlan(document, ThePlan)

-----------------------------------------------------------------------------
(***************************************************************************)
(* The command line.                                                       *)
(***************************************************************************)

Ends(code) ==
  /\ cli' = "exited"
  /\ exit_code' = code

\* build_sandbox_plan: analysis, scenario and plan all come from the captured
\* snapshot; an incomplete plan ends the command.
Plan ==
  /\ cli = "capture"
  /\ Walked
  /\ planned' = walk
  /\ revealing' \in SUBSET Steps
  /\ \/ cli' = "launch" /\ UNCHANGED exit_code
     \/ Ends("incomplete")
  /\ UNCHANGED <<sourceVars, clockVars, helper, baseline, view, stepVars,
                 historyVars>>

\* supervise_process: spawn, and begin to write the plan to the helper's input.
Launch ==
  /\ cli = "launch"
  /\ cli' = "clock"
  /\ helper' = "reading"
  /\ UNCHANGED <<sourceVars, walk, planVars, exit_code, clockVars, baseline,
                 view, stepVars, historyVars>>

\* write_all returns once the helper has read the plan, or the pipe has taken
\* it whole; only then the clock starts.
StartClock ==
  /\ cli = "clock"
  /\ helper = "reading" => InputFits
  /\ cli' = "look"
  /\ UNCHANGED <<sourceVars, walk, planVars, exit_code, clockVars, helper,
                 baseline, view, stepVars, historyVars>>

HelperGone == helper \in {"succeeded", "refused"}

\* write_all fails: the helper went away without reading.
WriteFails ==
  /\ cli = "clock"
  /\ helper = "refused"
  /\ Ends("infrastructure")
  /\ UNCHANGED <<sourceVars, walk, planVars, clockVars, helper, baseline, view,
                 stepVars, historyVars>>

\* A slip a maintainer could make: the clock is not looked at.
Look_IgnoresClock ==
  /\ cli = "look"
  /\ HelperGone
  /\ cli' = "check"
  /\ UNCHANGED <<sourceVars, walk, planVars, exit_code, clockVars, helper,
                 baseline, view, stepVars, historyVars>>

\* One round of the polling loop: try_wait, then the clock.
Look ==
  /\ cli = "look"
  /\ \/ HelperGone /\ cli' = "check"
     \/ ~HelperGone /\ elapsed = WallLimit /\ cli' = "kill"
  /\ UNCHANGED <<sourceVars, walk, planVars, exit_code, clockVars, helper,
                 baseline, view, stepVars, historyVars>>

\* terminate_process_tree and wait: the helper's process group is killed, if
\* /bin/kill can be run, and the helper itself.  A native workload may outlive
\* it: it has left the group, or the kill failed, which nobody looks at, and a
\* killed helper kills no cgroup.  A container is not in the group.
Terminate ==
  /\ cli = "kill"
  /\ helper' = IF HelperGone THEN helper ELSE "killed"
  /\ walk' = <<>>
  /\ workload' \in IF Backend = "oci" \/ HelperGone THEN {workload}
                   ELSE {workload, FALSE}
  /\ Ends("infrastructure")
  /\ UNCHANGED <<sourceVars, planVars, clockVars, baseline, view, step,
                 evidence, outcome, historyVars>>

\* The helper's status, what it printed, and the exit code of the outcome.
Check ==
  /\ cli = "check"
  /\ \E document \in {Printed} :
        Ends(IF helper # "succeeded" \/ ~Accepted(document) THEN "infrastructure"
             ELSE IF outcome = "completed" THEN "pass" ELSE "finding")
  /\ UNCHANGED <<sourceVars, walk, planVars, clockVars, helper, baseline, view,
                 stepVars, historyVars>>

CliStep ==
  \/ (cli = "capture" /\ ReadFile)
  \/ Plan \/ Launch \/ StartClock \/ WriteFails \/ Look \/ Terminate \/ Check

Next ==
  \/ CliStep \/ HelperStep \/ Tick
  \/ \E f \in Files : StepReads(f) \/ \E c \in Contents : Edit(f, c)

Spec == Init /\ [][Next]_vars

\* The command line is scheduled and time passes.  Of the helper only that it
\* reads its input is asked, which no clock watches; nothing of its steps and
\* of the editor.
FairSpec == Spec /\ WF_vars(CliStep) /\ WF_vars(Tick) /\ WF_vars(ReadPlan)

-----------------------------------------------------------------------------

HelperStages == {"off", "reading", "baseline", "source", "scratch", "prepare", "next",
                 "running", "finish", "succeeded", "refused", "killed"}

EventType ==
  [kind : {"backend"}, id : {Backend}, controls : {Asked}]
    \cup [kind : {"controls"}, names : {Asked}]
    \cup [kind : {"start"}, step : Steps, redacted : BOOLEAN]
    \cup [kind : {"exit"}, code : {0, 1}]
    \cup [kind : {"changes"}, written : SUBSET Touched, deleted : SUBSET Touched]
    \cup [kind : {"resource"}, value : 0 .. NumSteps]
    \cup [kind : {"log"}, value : SUBSET Steps]
    \cup [kind : {"final"},
          value : [tree : Tree, written : SUBSET Touched, deleted : SUBSET Touched]]

TypeOK ==
  /\ source \in Tree
  /\ walk \in Seq(Contents) /\ Len(walk) <= FileCount
  /\ planned \in Tree \cup {NoTree}
  /\ revealing \subseteq Steps
  /\ cli \in {"capture", "launch", "clock", "look", "kill", "check", "exited"}
  /\ exit_code \in {"none", "pass", "finding", "incomplete", "infrastructure"}
  /\ elapsed \in 0 .. WallLimit /\ lasted \in 0 .. WallLimit
  /\ helper \in HelperStages
  /\ baseline \in Tree \cup {NoTree} /\ view \in Tree \cup {NoTree}
  /\ step \in 0 .. NumSteps
  /\ workload \in BOOLEAN
  /\ evidence \in Seq(EventType)
  /\ outcome \in Endings
  /\ observed \subseteq Files \X Contents
  /\ endings \in Seq(Endings)

\* Whatever is edited while the command runs, and whenever, the steps read
\* the tree that was analysed and that the plan binds, and no other: the
\* helper's snapshot, its two copies and the planner's agree or nothing runs.
StepsSeePlannedSource ==
  \A f \in Files, c \in Contents :
     <<f, c>> \in observed => c = planned[f]

\* The exit code says what the steps did: 0 only when every planned step ran
\* and succeeded, 1 only when the last one run did not and those before did.
VerdictIsEarned ==
  /\ exit_code = "pass" =>
       endings = [i \in Steps |-> "completed"]
  /\ exit_code = "finding" =>
       /\ endings # <<>>
       /\ \A i \in DOMAIN endings :
            endings[i] = "completed" <=> i < Len(endings)

\* What may befall the events of a document between the helper and whoever
\* reads it: one is lost, comes twice, changes places with the next one or is
\* edited, or the end is missing.
Damages == {"lost", "twice", "swapped", "edited", "cut"}
Damaged(events, how, i) ==
  CASE how = "lost" -> SubSeq(events, 1, i - 1) \o SubSeq(events, i + 1, Len(events))
    [] how = "twice" -> SubSeq(events, 1, i) \o SubSeq(events, i, Len(events))
    [] how = "swapped" -> [events EXCEPT ![i] = events[(i % Len(events)) + 1],
                                         ![(i % Len(events)) + 1] = events[i]]
    [] how = "edited" -> [events EXCEPT ![i].body = [kind |-> "exit", code |-> 0]]
    [] how = "cut" -> SubSeq(events, 1, i - 1)

\* No such document is taken for the run's, whether what it repeats of its
\* events is as it was or fits what is left of them.
DamageIsNoticed ==
  LET document == Printed
  IN  \A how \in Damages, i \in DOMAIN document.events :
        LET events == Damaged(document.events, how, i)
            repeats == {document.summary, Summary(document.bindings.source, Bodies(events))}
        IN  Bodies(events) # evidence =>
              \A summary \in repeats :
                 ~Accepted([document EXCEPT !.events = events, !.summary = summary])

\* An audit of the run, with the source or without it, verifies none in which a
\* step failed, and one that passed unless it did what the graph does not know.
AuditAgrees ==
  \A graphs \in {{}} \cup {{[effects |-> effects, unknowns |-> FALSE]} :
        effects \in SUBSET {"command_execution", "file_write", "file_read"}} :
     LET verified == AuditReasons(ThePlan, Printed, graphs) = {}
     IN  /\ verified => \A i \in DOMAIN endings : endings[i] # "stepFailed"
         /\ outcome = "completed" =>
              (verified <=> \A graph \in graphs :
                              ObservedEffects(evidence) \subseteq graph.effects)

\* Evidence the helper has completed is accepted by whoever asked for the run,
\* whether the steps succeeded, failed or were killed, unless redaction has
\* changed the argv of a step it started; nothing that is left of it is, when
\* it has lost an event, or their order; and its audit says what happened.
EvidenceAccepted ==
  helper = "succeeded" /\ cli = "check" =>
    /\ Accepted(Printed) <=> (Backend = "oci" \/ 1 .. step \cap revealing = {})
    /\ DamageIsNoticed
    /\ Accepted(Printed) => AuditAgrees

\* The command comes to its end and its helper with it, though a step, or the
\* helper itself once it has read its plan, may never end by itself; and no
\* native step runs on after a helper that ended by itself, whichever step
\* failed or was cut off: only the supervisor's kill may leave one behind
\* (terminate_process_tree), or an engine its container.
EndsQuietly ==
  <>[](/\ cli = "exited"
       /\ helper \in {"off", "succeeded", "refused", "killed"}
       /\ workload => helper = "killed" \/ Backend = "oci")
=============================================================================
